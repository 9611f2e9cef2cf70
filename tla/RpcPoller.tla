------------------------------- MODULE RpcPoller -------------------------------
(* The bet-pool poller of chain/rpc_poller.py: the engine thread and the        *)
(* periodic daemon move one cursor over the blocks of the chain and collect     *)
(* the bets of the open round; before it bets the engine asks is_pool_ready     *)
(* and then reads the pool.                                                     *)
(*                                                                              *)
(* One tick of the clock is one block slot (450 ms). Every block inside a       *)
(* round carries one bet of that round, so "which bets" is "which blocks".      *)
(* A step that only computes happens at one instant; a step that waits for an   *)
(* answer may take ticks, up to the poll's wall cap. Two neighbouring critical  *)
(* sections of one thread are one step where no other thread can tell.          *)
EXTENDS Integers, FiniteSets, Sequences, FiniteSetsExt

CONSTANTS
    Interval,       \* interval_seconds: from the start of a round to its lock
    PoolCutoff,     \* pool_cutoff_seconds: bets this close to the lock are not counted
    SingleOffset,   \* the engine's own poll fires this long before the lock
    AnchorOffset,   \* its anchor poll, and with it the decision, this long before
    Period,         \* the daemon's cadence
    CapPeriodic,    \* wall cap of a periodic poll
    SafetyBuffer,   \* what must lie between its end and the engine's poll
    CapSingle,      \* wall cap of the engine's poll
    HeaderCap,      \* the three attempts at a header, in ticks
    StartMargin,    \* the process is not started this close to a lock (the code: 0)
    Chunk,          \* blocks in one eth_getLogs range
    ChunkCost,      \* estimated ticks for one range, the safety buffer included
    RsMargin,       \* extra blocks of the start estimate when the header has no ms part
    RollDelay,      \* ticks the executeRound transaction may be late
    MaxLag,         \* blocks a node may be behind the tip of the chain
    MaxGaps,        \* slots that stay without a block in one behaviour
    MaxFaults,      \* calls that fail in one behaviour
    LastEpoch,      \* rounds of one behaviour
    MaxTime,        \* the clock stops here
    Stalls          \* TRUE: a thread may be held up between two steps that only compute

ASSUME ScheduleAssumption ==
    /\ {Interval, PoolCutoff, SingleOffset, Period, CapPeriodic, CapSingle} \subseteq Nat \ {0}
    /\ {Chunk, ChunkCost, LastEpoch} \subseteq Nat \ {0}
    /\ {SafetyBuffer, HeaderCap, StartMargin, AnchorOffset, RsMargin, RollDelay, MaxLag, MaxGaps, MaxFaults, MaxTime} \subseteq Nat
    /\ Stalls \in BOOLEAN
    /\ SingleOffset + 1 <= PoolCutoff             \* the CAPTURE check of config.py
    /\ CapSingle + AnchorOffset <= SingleOffset   \* its ANCHOR-CLEARANCE check

VARIABLES
    now,        \* the clock of every node and of the bot
    blockTs,    \* the chain: the timestamp of each block
    rounds,     \* the contract: start and lock of each round
    epoch,      \* _current_epoch, 0 before the first set_round_phase
    lockAt,     \* _lock_at, 0 before it
    cursor,     \* _last_polled_block_number, 0 while not seeded
    connected,  \* _connected
    infeasible, \* _catchup_infeasible_for_round
    detail,     \* whether _last_catchup_detail is set
    inProgress, \* _poll_in_progress
    pollLock,   \* the thread that holds _poll_lock
    anchor,     \* _prev_anchor_block and _prev_anchor_milli_ts
    pools,      \* _pools and _processed_bet_log_ids: the blocks whose bet is held
    stamped,    \* those whose bet carries its block's timestamp
    tsCache,    \* _block_ts: the blocks whose timestamp is cached
    orphans,    \* timestamp look-ups a poll gave up waiting for
    poll,       \* the poll that holds the lock
    eng,        \* the engine thread
    daemon,     \* the daemon thread
    verdict,    \* what the engine last decided on
    gaps, faults

chainVars  == <<now, blockTs, rounds, gaps>>
roundVars  == <<epoch, lockAt, infeasible, detail>>
poolVars   == <<pools, stamped, tsCache, orphans>>
vars == <<chainVars, roundVars, poolVars, cursor, connected, inProgress, pollLock, anchor,
          poll, eng, daemon, verdict, faults>>

NoVerdict == [kind |-> "none", epoch |-> 0]
IdlePoll  == [pc |-> "idle", head |-> 0, from |-> 0, to |-> 0, parsed |-> {},
              abortAt |-> 0]

-------------------------------------------------------------------------------
(* The chain and its nodes.                                                     *)

Blocks == 1 .. Len(blockTs)

\* The round whose betting window holds the block, 0 for none.
EpochOf(b) ==
    LET E == {e \in DOMAIN rounds : rounds[e].start < blockTs[b] /\ blockTs[b] < rounds[e].lock}
    IN  IF E = {} THEN 0 ELSE Max(E)

\* What a node of an endpoint may give as its newest block.
Heads == {b \in Blocks : b >= Len(blockTs) - MaxLag}

Fail == faults < MaxFaults /\ faults' = faults + 1

\* Steps that only compute, and waits that end, come before the next tick.
Pressing ==
    \/ poll.pc \in {"flag", "append", "advance"}
    \/ poll.pc # "idle" /\ now >= poll.abortAt
    \/ eng.pc \in {"decide", "read", "advCommit"}
    \/ eng.pc = "initLock" /\ pollLock = "free"
    \/ eng.pc \in {"initCursor", "advHeader", "advHead"} /\ now >= eng.by
    \/ eng.pc = "waitSingle" /\ now >= lockAt - SingleOffset
    \/ eng.pc = "waitAnchor" /\ now >= lockAt - AnchorOffset
    \/ daemon.pc = "plan"
    \/ daemon.pc = "wait" /\ now >= daemon.wake

Slot ==
    /\ now < MaxTime
    /\ Stalls \/ ~Pressing
    /\ now' = now + 1
    /\ \/ /\ blockTs' = Append(blockTs, now')
          /\ LET open == rounds[Len(rounds)] IN
             \/ now' < open.lock + RollDelay /\ UNCHANGED rounds
             \/ /\ now' >= open.lock
                /\ Len(rounds) < LastEpoch
                /\ rounds' = Append(rounds, [start |-> now', lock |-> now' + Interval])
             \/ Len(rounds) = LastEpoch /\ UNCHANGED rounds
          /\ UNCHANGED gaps
       \/ /\ gaps < MaxGaps
          /\ gaps' = gaps + 1
          /\ UNCHANGED <<blockTs, rounds>>
    /\ UNCHANGED <<roundVars, poolVars, cursor, connected, inProgress, pollLock, anchor,
                   poll, eng, daemon, verdict, faults>>

-------------------------------------------------------------------------------
(* Shared calculations.                                                         *)

\* _estimated_catchup_ms and _available_catchup_ms; the safety buffer of the latter
\* (200 ms) and the cost of one range (250 ms) make one slot.
CatchupCost(behind) == ((behind + Chunk - 1) \div Chunk) * ChunkCost
TimeUntilLock(lock) == IF lock > now THEN lock - now ELSE 0
CatchupInfeasible(behind, lock) ==
    behind > 0 /\ lock > 0 /\ CatchupCost(behind) > TimeUntilLock(lock)

\* The round is set up only after the engine's own poll was due.
Late == now > lockAt - SingleOffset

\* _rs_block_from_header: never later than the first block of the round
RoundStartBlock(h, roundStart, margin) ==
    LET span == blockTs[h] - roundStart
        est  == h - (span + margin)
    IN  IF span <= 0 THEN h ELSE IF est > 0 THEN est ELSE 0

\* _pool_coverage_shortfall_locked: the cursor's time, reckoned from the anchor
CursorTime == anchor.ts + (cursor - anchor.block)

\* Mutant: the time of the anchor's block is taken for that of the cursor's.
CoveredByAnchor == anchor.block = 0 \/ lockAt = 0 \/ anchor.ts >= lockAt - PoolCutoff

Covered == anchor.block = 0 \/ lockAt = 0 \/ CursorTime >= lockAt - PoolCutoff

\* _compute_periodic_timeout, as the time of the next tick of the daemon. Mutant: a
\* tick whose poll would run into the engine's is not moved forward.
NextTickUnshifted(lock) ==
    LET open == lock - Interval
        next == open + (IF now < open THEN 1 ELSE (now - open) \div Period + 1) * Period
    IN  IF now < lock /\ next >= lock - SingleOffset THEN lock ELSE next

NextTick(lock) ==
    LET open   == lock - Interval
        window == lock - SingleOffset
        safe   == window - CapPeriodic - SafetyBuffer
        k      == IF now < open THEN 1 ELSE (now - open) \div Period + 1
        next   == open + k * Period
    IN  CASE now >= lock                   -> now + Period
          [] now < lock /\ next >= window  -> lock
          [] now < lock /\ next < window /\ next > safe -> IF safe > now THEN safe ELSE lock
          [] OTHER                         -> next

-------------------------------------------------------------------------------
(* One poll, by whichever thread holds the poll lock.                           *)

\* Mutant: the engine's poll gets one tick more.
StartPollLonger(thread, cap) ==
    /\ pollLock' = thread
    /\ inProgress' = TRUE
    /\ poll' = [IdlePoll EXCEPT !.pc = "head",
                               !.abortAt = now + cap + (IF thread = "engine" THEN 1 ELSE 0)]

StartPoll(thread, cap) ==
    /\ pollLock' = thread
    /\ inProgress' = TRUE
    /\ poll' = [IdlePoll EXCEPT !.pc = "head", !.abortAt = now + cap]

EndPoll ==
    /\ inProgress' = FALSE
    /\ pollLock' = "free"
    /\ poll' = IdlePoll
    /\ IF pollLock = "engine"
         THEN eng' = [eng EXCEPT !.pc = "waitAnchor"] /\ UNCHANGED daemon
         ELSE daemon' = [daemon EXCEPT !.pc = "plan"] /\ UNCHANGED eng

\* The head read errs, or the cap leaves no room for an attempt.
PollHeadFails ==
    /\ poll.pc = "head"
    /\ Fail \/ (now >= poll.abortAt /\ UNCHANGED faults)
    /\ EndPoll
    /\ UNCHANGED <<chainVars, roundVars, poolVars, cursor, connected, anchor, verdict>>

\* The head, the range and the feasibility of catching up before the lock.
PollHead ==
    /\ poll.pc = "head"
    /\ \E h \in Heads :
        LET from == cursor + 1 IN
        \/ /\ h < from
           /\ connected' = TRUE
           /\ EndPoll
           /\ UNCHANGED detail
        \/ /\ h >= from
           /\ CatchupInfeasible(h - from + 1, lockAt)
           /\ detail' = TRUE
           /\ IF lockAt > now
                THEN /\ poll' = [poll EXCEPT !.pc = "flag"]
                     /\ UNCHANGED <<inProgress, pollLock, eng, daemon>>
                ELSE EndPoll
           /\ UNCHANGED connected
        \/ /\ h >= from
           /\ ~CatchupInfeasible(h - from + 1, lockAt)
           /\ poll' = [poll EXCEPT !.pc = "fetch", !.head = h, !.from = from]
           /\ UNCHANGED <<connected, detail, inProgress, pollLock, eng, daemon>>
    /\ UNCHANGED <<chainVars, epoch, lockAt, infeasible, poolVars, cursor, anchor, verdict, faults>>

PollFlag ==
    /\ poll.pc = "flag"
    /\ infeasible' = TRUE
    /\ EndPoll
    /\ UNCHANGED <<chainVars, epoch, lockAt, detail, poolVars, cursor, connected, anchor,
                   verdict, faults>>

\* The wall cap has run out before the next range: the poll ends as a success.
PollCapBetweenChunks ==
    /\ poll.pc = "fetch"
    /\ now >= poll.abortAt
    /\ connected' = TRUE
    /\ EndPoll
    /\ UNCHANGED <<chainVars, roundVars, poolVars, cursor, anchor, verdict, faults>>

\* A range that errs, or a cap that leaves no room for an attempt. Mutant: the cursor
\* passes the range all the same.
PollRangeSkipped ==
    /\ poll.pc \in {"fetch", "stamp"}
    /\ Fail
    /\ cursor' = Max({cursor, IF poll.pc = "fetch" THEN poll.head ELSE poll.to})
    /\ orphans' = IF poll.pc = "stamp" THEN orphans \cup (poll.parsed \ tsCache) ELSE orphans
    /\ EndPoll
    /\ UNCHANGED <<chainVars, roundVars, pools, stamped, tsCache, connected, anchor, verdict>>

PollRangeFails ==
    /\ \/ poll.pc = "fetch" /\ Fail
       \/ /\ now >= poll.abortAt
          /\ \/ poll.pc = "fetch"
             \/ poll.pc = "stamp" /\ ~(poll.parsed \subseteq tsCache)
          /\ UNCHANGED faults
    /\ orphans' = IF poll.pc = "stamp" THEN orphans \cup (poll.parsed \ tsCache) ELSE orphans
    /\ EndPoll
    /\ UNCHANGED <<chainVars, roundVars, pools, stamped, tsCache, cursor, connected, anchor,
                   verdict>>

\* One eth_getLogs answer and the epoch gate of phase 1.
PollRange ==
    /\ poll.pc = "fetch"
    /\ now < poll.abortAt
    /\ LET to     == Min({poll.from + Chunk - 1, poll.head})
           parsed == {b \in poll.from .. to : EpochOf(b) \in {epoch, epoch + 1}}
       IN  poll' = [poll EXCEPT !.to = to, !.parsed = parsed,
                                !.pc = IF parsed = {} THEN "advance" ELSE "stamp"]
    /\ UNCHANGED <<chainVars, roundVars, poolVars, cursor, connected, inProgress, pollLock,
                   anchor, eng, daemon, verdict, faults>>

\* Phase 2: the timestamps; a look-up that fails leaves its bet without one.
PollStamps ==
    /\ poll.pc = "stamp"
    /\ \E lost \in SUBSET (poll.parsed \ tsCache) :
        /\ IF lost = {} THEN UNCHANGED faults ELSE Fail
        /\ tsCache' = tsCache \cup (poll.parsed \ lost)
    /\ poll' = [poll EXCEPT !.pc = "append"]
    /\ UNCHANGED <<chainVars, roundVars, pools, stamped, orphans, cursor, connected,
                   inProgress, pollLock, anchor, eng, daemon, verdict>>

\* Phase 3: the second epoch gate, de-duplication and append.
PollAppend ==
    /\ poll.pc = "append"
    /\ LET fresh == {b \in poll.parsed : EpochOf(b) >= epoch} \ pools IN
        /\ pools' = pools \cup fresh
        /\ stamped' = stamped \cup (fresh \cap tsCache)
    /\ poll' = [poll EXCEPT !.pc = "advance"]
    /\ UNCHANGED <<chainVars, roundVars, tsCache, orphans, cursor, connected, inProgress,
                   pollLock, anchor, eng, daemon, verdict, faults>>

\* The cursor moves forward only; the last range ends the poll.
PollAdvance ==
    /\ poll.pc = "advance"
    /\ cursor' = Max({cursor, poll.to})
    /\ IF poll.to < poll.head
         THEN /\ poll' = [poll EXCEPT !.pc = "fetch", !.from = poll.to + 1]
              /\ UNCHANGED <<connected, inProgress, pollLock, eng, daemon>>
         ELSE connected' = TRUE /\ EndPoll
    /\ UNCHANGED <<chainVars, roundVars, poolVars, anchor, verdict, faults>>

\* A look-up nobody waits for any more still fills the cache, or fails.
OrphanEnds ==
    /\ \E b \in orphans :
        /\ orphans' = orphans \ {b}
        /\ tsCache' \in {tsCache, tsCache \cup {b}}
    /\ UNCHANGED <<chainVars, roundVars, pools, stamped, cursor, connected, inProgress,
                   pollLock, anchor, poll, eng, daemon, verdict, faults>>

PollStep == PollHead \/ PollHeadFails \/ PollFlag \/ PollCapBetweenChunks \/ PollRangeFails
            \/ PollRange \/ PollStamps \/ PollAppend \/ PollAdvance

-------------------------------------------------------------------------------
(* The engine thread: set_round_phase, its poll, the anchor and the decision.   *)

\* _epoch_handshake gives only a round that is still open.
SetRoundPhase ==
    LET e == Len(rounds) IN
    /\ eng.pc = "idle"
    /\ e > epoch
    /\ rounds[e].lock > now
    /\ verdict' = NoVerdict
    /\ eng' = [eng EXCEPT !.pc = IF epoch = 0 THEN "initLock" ELSE "advHeader", !.epoch = e,
                          !.by = now + HeaderCap, !.dropped = "no"]
    /\ IF epoch = 0
         THEN /\ rounds[e].lock > now + StartMargin
              /\ epoch' = e
              /\ lockAt' = rounds[e].lock
         ELSE UNCHANGED <<epoch, lockAt>>
    /\ UNCHANGED <<chainVars, infeasible, detail, poolVars, cursor, connected, inProgress,
                   pollLock, anchor, poll, daemon, faults>>

\* _initialize_cursor_from_head takes the poll lock for its whole duration.
InitLock ==
    /\ eng.pc = "initLock"
    /\ pollLock = "free"
    /\ pollLock' = "engine"
    /\ eng' = [eng EXCEPT !.pc = "initCursor", !.by = now + HeaderCap]
    /\ UNCHANGED <<chainVars, roundVars, poolVars, cursor, connected, inProgress, anchor,
                   poll, daemon, verdict, faults>>

\* No header: the cursor stays unseeded. A head before the round: it becomes the
\* cursor. Otherwise the cursor goes to the start of the round, or, when the round
\* cannot be caught up, to the head.
InitCursor ==
    LET start == lockAt - Interval IN
    /\ eng.pc = "initCursor"
    /\ \/ /\ Fail
          /\ infeasible' = FALSE
          /\ UNCHANGED <<cursor, detail>>
       \/ /\ \E h \in Heads, margin \in {0, RsMargin} :
               LET rs == RoundStartBlock(h, start, margin) IN
               /\ infeasible' = (blockTs[h] > start /\ CatchupInfeasible(h - rs + 1, lockAt))
               /\ cursor' = IF blockTs[h] <= start \/ infeasible' THEN h ELSE rs - 1
               /\ detail' = (detail \/ infeasible')
          /\ UNCHANGED faults
    /\ pollLock' = "free"
    /\ eng' = [eng EXCEPT !.pc = "waitSingle", !.epoch = 0, !.by = 0, !.late = Late]
    /\ UNCHANGED <<chainVars, epoch, lockAt, poolVars, connected, inProgress, anchor, poll,
                   daemon, verdict>>

\* _on_epoch_advance, phase 1: the start block, while every variable is the old round's.
AdvanceHeader ==
    /\ eng.pc = "advHeader"
    /\ \/ /\ \E h \in Heads, margin \in {0, RsMargin} :
               LET rs == RoundStartBlock(h, rounds[eng.epoch].start, margin) IN
               eng' = [eng EXCEPT !.pc = "advCommit", !.jump = rs - 1]
          /\ UNCHANGED faults
       \/ Fail /\ eng' = [eng EXCEPT !.pc = "advCommit", !.jump = 0]
    /\ UNCHANGED <<chainVars, roundVars, poolVars, cursor, connected, inProgress, pollLock,
                   anchor, poll, daemon, verdict>>

\* _on_epoch_advance, phase 2: the whole round changes in one critical section.
\* Mutants: the verdict of the old round is kept, or its stamps are.
AdvanceCommitKeepsFlag ==
    LET lock == rounds[eng.epoch].lock IN
    /\ eng.pc = "advCommit"
    /\ epoch' = eng.epoch
    /\ lockAt' = lock
    /\ detail' = FALSE
    /\ cursor' = Max({cursor, eng.jump})
    /\ pools' = {b \in pools : EpochOf(b) >= eng.epoch}
    /\ stamped' = stamped \cap pools'
    /\ tsCache' = {b \in tsCache : blockTs[b] >= lock - Interval}
    /\ eng' = [eng EXCEPT !.pc = "advHead", !.by = now + HeaderCap, !.jump = 0]
    /\ UNCHANGED <<chainVars, infeasible, orphans, connected, inProgress, pollLock, anchor,
                   poll, daemon, verdict, faults>>

AdvanceCommitKeepsStamps ==
    LET lock == rounds[eng.epoch].lock IN
    /\ eng.pc = "advCommit"
    /\ epoch' = eng.epoch
    /\ lockAt' = lock
    /\ infeasible' = FALSE
    /\ detail' = FALSE
    /\ cursor' = Max({cursor, eng.jump})
    /\ pools' = {b \in pools : EpochOf(b) >= eng.epoch}
    /\ tsCache' = {b \in tsCache : blockTs[b] >= lock - Interval}
    /\ eng' = [eng EXCEPT !.pc = "advHead", !.by = now + HeaderCap, !.jump = 0]
    /\ UNCHANGED <<chainVars, stamped, orphans, connected, inProgress, pollLock, anchor,
                   poll, daemon, verdict, faults>>

AdvanceCommit ==
    LET lock == rounds[eng.epoch].lock IN
    /\ eng.pc = "advCommit"
    /\ epoch' = eng.epoch
    /\ lockAt' = lock
    /\ infeasible' = FALSE
    /\ detail' = FALSE
    /\ cursor' = Max({cursor, eng.jump})
    /\ pools' = {b \in pools : EpochOf(b) >= eng.epoch}
    /\ stamped' = stamped \cap pools'
    /\ tsCache' = {b \in tsCache : blockTs[b] >= lock - Interval}
    /\ eng' = [eng EXCEPT !.pc = "advHead", !.by = now + HeaderCap, !.jump = 0]
    /\ UNCHANGED <<chainVars, orphans, connected, inProgress, pollLock, anchor, poll, daemon,
                   verdict, faults>>

\* Phase 3: feasibility against a fresh head; a failed read leaves the flag down.
AdvanceFeasibility ==
    /\ eng.pc = "advHead"
    /\ \/ Fail /\ UNCHANGED <<infeasible, detail>>
       \/ /\ \E h \in Heads :
               LET bad == h > cursor /\ CatchupInfeasible(h - cursor, lockAt) IN
               /\ detail' = (detail \/ bad)
               /\ infeasible' = (infeasible \/ (bad /\ lockAt > now))
          /\ UNCHANGED faults
    /\ eng' = [eng EXCEPT !.pc = "waitSingle", !.epoch = 0, !.by = 0, !.late = Late]
    /\ UNCHANGED <<chainVars, epoch, lockAt, poolVars, cursor, connected, inProgress,
                   pollLock, anchor, poll, daemon, verdict>>

\* poll(): the lock is tried once; if the daemon holds it the poll is dropped.
SinglePoll ==
    /\ eng.pc = "waitSingle"
    /\ now >= lockAt - SingleOffset
    /\ IF pollLock = "free"
         THEN /\ StartPoll("engine", CapSingle)
              /\ eng' = [eng EXCEPT !.pc = "polling"]
         ELSE /\ eng' = [eng EXCEPT !.pc = "waitAnchor",
                                    !.dropped = IF now < lockAt /\ daemon.lock = lockAt
                                                  THEN "same" ELSE "other"]
              /\ UNCHANGED <<pollLock, inProgress, poll>>
    /\ UNCHANGED <<chainVars, roundVars, poolVars, cursor, connected, anchor, daemon,
                   verdict, faults>>

\* fire_anchor_poll: a decoded header arms the coverage check, also when too old to use.
AnchorPoll ==
    /\ eng.pc = "waitAnchor"
    /\ now >= lockAt - AnchorOffset
    /\ \/ /\ \E h \in Heads : anchor' = [block |-> h, ts |-> blockTs[h]]
          /\ UNCHANGED faults
       \/ Fail /\ UNCHANGED anchor
    /\ eng' = [eng EXCEPT !.pc = "decide"]
    /\ UNCHANGED <<chainVars, roundVars, poolVars, cursor, connected, inProgress, pollLock,
                   poll, daemon, verdict>>

\* is_pool_ready
IsPoolReady ==
    LET reason == CASE ~connected -> "cold_start_in_progress"
                    [] connected /\ infeasible -> "catchup_infeasible_for_round"
                    [] connected /\ ~infeasible /\ inProgress -> "poll_in_progress"
                    [] connected /\ ~infeasible /\ ~inProgress /\ ~Covered -> "pool_uncovered"
                    [] OTHER -> "ready"
    IN
    /\ eng.pc = "decide"
    /\ IF reason = "ready"
         THEN eng' = [eng EXCEPT !.pc = "read"] /\ UNCHANGED verdict
         ELSE /\ eng' = [eng EXCEPT !.pc = "idle"]
              /\ verdict' = [kind |-> reason, epoch |-> epoch]
    /\ UNCHANGED <<chainVars, roundVars, poolVars, cursor, connected, inProgress, pollLock,
                   anchor, poll, daemon, faults>>

\* get_pool: a bet without a timestamp takes it from the cache or is left out and counted.
GetPool ==
    LET held  == {b \in pools : EpochOf(b) = epoch}
        known == held \cap (stamped \cup tsCache)
    IN
    /\ eng.pc = "read"
    /\ stamped' = stamped \cup known
    /\ verdict' = [kind |-> "sized", epoch |-> epoch, dropped |-> held \ known,
                   used |-> {b \in known : blockTs[b] < lockAt - PoolCutoff},
                   armed |-> anchor.block > 0]
    /\ eng' = [eng EXCEPT !.pc = "idle"]
    /\ UNCHANGED <<chainVars, roundVars, pools, tsCache, orphans, cursor, connected,
                   inProgress, pollLock, anchor, poll, daemon, faults>>

EngineStep == SetRoundPhase \/ InitLock \/ InitCursor \/ AdvanceHeader \/ AdvanceCommit
              \/ AdvanceFeasibility \/ SinglePoll \/ AnchorPoll \/ IsPoolReady \/ GetPool

-------------------------------------------------------------------------------
(* The daemon thread.                                                           *)

\* The top of _periodic_loop: the lock is read, then the thread waits.
DaemonPlan ==
    /\ daemon.pc = "plan"
    /\ daemon' = [pc |-> "wait", lock |-> lockAt,
                  wake |-> IF lockAt = 0 THEN now + Period ELSE NextTick(lockAt)]
    /\ UNCHANGED <<chainVars, roundVars, poolVars, cursor, connected, inProgress, pollLock,
                   anchor, poll, eng, verdict, faults>>

\* Before the first round there is nothing to poll; a held poll lock ends the tick.
DaemonTick ==
    /\ daemon.pc = "wait"
    /\ now >= daemon.wake
    /\ IF daemon.lock > 0 /\ pollLock = "free"
         THEN /\ StartPoll("daemon", CapPeriodic)
              /\ daemon' = [daemon EXCEPT !.pc = "polling", !.wake = 0]
         ELSE /\ daemon' = [daemon EXCEPT !.pc = "plan"]
              /\ UNCHANGED <<pollLock, inProgress, poll>>
    /\ UNCHANGED <<chainVars, roundVars, poolVars, cursor, connected, anchor, eng, verdict,
                   faults>>

\* The chain is longer than what the estimate of a start block may step back over.
History == 2 + RsMargin + MaxGaps

Init ==
    /\ now = 1 /\ gaps = 0 /\ faults = 0
    /\ blockTs = [b \in 1 .. History |-> b - History + 1]
    /\ rounds = <<[start |-> 1, lock |-> 1 + Interval]>>
    /\ epoch = 0 /\ lockAt = 0 /\ cursor = 0
    /\ connected = FALSE /\ infeasible = FALSE /\ detail = FALSE /\ inProgress = FALSE
    /\ pollLock = "free"
    /\ anchor = [block |-> 0, ts |-> 0]
    /\ pools = {} /\ stamped = {} /\ tsCache = {} /\ orphans = {}
    /\ poll = IdlePoll
    /\ eng = [pc |-> "idle", epoch |-> 0, jump |-> 0, by |-> 0, dropped |-> "no", late |-> FALSE]
    /\ daemon = [pc |-> "plan", lock |-> 0, wake |-> 0]
    /\ verdict = NoVerdict

Next == Slot \/ PollStep \/ OrphanEnds \/ EngineStep \/ DaemonPlan \/ DaemonTick

Spec == Init /\ [][Next]_vars

-------------------------------------------------------------------------------
(* Properties.                                                                  *)

TypeOK ==
    /\ now \in 0 .. MaxTime /\ gaps \in 0 .. MaxGaps /\ faults \in 0 .. MaxFaults
    /\ epoch \in 0 .. LastEpoch /\ cursor \in {0} \cup Blocks
    /\ {connected, infeasible, detail, inProgress} \subseteq BOOLEAN
    /\ pollLock \in {"free", "engine", "daemon"}
    /\ stamped \subseteq pools
    /\ pools \cup tsCache \cup orphans \cup poll.parsed \subseteq Blocks

\* The cursor leaves no bet behind: whatever the two threads, the jumps of the
\* cursor and the epoch gates do, every bet of the open round in a block the cursor
\* has passed is in the pool, unless the round was given up as infeasible.
NothingIsMissingBehindTheCursor ==
    epoch > 0 /\ ~infeasible /\ eng.pc \notin {"initLock", "initCursor"} =>
        {b \in 1 .. cursor : EpochOf(b) = epoch} \subseteq pools

\* What the engine sizes a bet on is complete, once an anchor poll has succeeded: of
\* the bets before the cutoff none is missing that was not counted and reported as
\* dropped (is_pool_ready, get_pool).
ArmedPoolIsComplete ==
    verdict.kind = "sized" /\ verdict.epoch = epoch /\ verdict.armed =>
        {b \in Blocks : EpochOf(b) = epoch /\ blockTs[b] < lockAt - PoolCutoff}
            \subseteq verdict.used \cup verdict.dropped

\* A tick the daemon planned under this round's lock never holds the poll lock when
\* the engine's own poll is due, nor when the engine decides.
PeriodicKeepsClear ==
    /\ eng.dropped # "same"
    /\ eng.pc = "decide" /\ pollLock = "daemon" /\ now < lockAt => daemon.lock # lockAt

\* A round skipped as infeasible has the numbers of that verdict at hand: without
\* them the engine raises (rpc_poller_catchup_infeasible_without_detail).
InfeasibleHasDetail == infeasible => detail

\* A round that is set up in time is decided in time: neither the engine's poll nor a
\* poll of the daemon it runs into carries the decision past its instant, from which
\* the wait for the candles and the transaction are reckoned.
DecisionIsOnTime ==
    eng.pc \in {"decide", "read"} /\ ~eng.late => now <= lockAt - AnchorOffset

-------------------------------------------------------------------------------
(* What the documentation promises and the code does not keep.                  *)

\* "THE HARD GUARANTEE that bet sizing uses COMPLETE pool data", anchor or none.
SizedPoolIsComplete ==
    verdict.kind = "sized" /\ verdict.epoch = epoch =>
        {b \in Blocks : EpochOf(b) = epoch /\ blockTs[b] < lockAt - PoolCutoff}
            \subseteq verdict.used \cup verdict.dropped

===============================================================================
