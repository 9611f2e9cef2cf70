------------------------------- MODULE RoundLoop -------------------------------
(* run_realtime_loop and _run_one_iteration of runtime/engine.py in live mode:  *)
(* the handshake with a chain whose nodes may be behind, the sleeps before a    *)
(* lock, the pool-gate alarm and the delivery of its alerts, the send cache of  *)
(* chain/prediction_contract.py, the sleep until the claim pass, and the floor  *)
(* under an iteration. What the passes settle and claim is LiveBets, how the    *)
(* pool becomes ready is RpcPoller.                                             *)
(*                                                                              *)
(* A sleep and a slow call both set until. A sleep goes on exactly then, a call *)
(* at any moment up to it; everything else takes no time. One tick is ten       *)
(* seconds: the wakes between the OKX warm-up and the decision are one instant. *)
EXTENDS PoolGateAlarm, FiniteSets, Sequences, FiniteSetsExt

CONSTANTS
    Interval,       \* interval_seconds
    ClaimDelay,     \* buffer_seconds and _RPC_ALIGNMENT_PADDING_SECONDS
    Ladder,         \* the wakes before a lock begin this long before it
    Slack,          \* _POOL_GATE_ALERT_MIN_SLACK_S
    Floor,          \* min_iter_s
    Attempts,       \* the attempts of _HANDSHAKE_BACKOFF_SECONDS
    RetryDelay,     \* the longest delay between two, in ticks
    PostTime,       \* the longest delivery of one alert
    FetchTime,      \* the longest fetch of the klines
    ReceiptTime,    \* TX_RECEIPT_WAIT_TIMEOUT_SECONDS, for a bet
    ClaimTime,      \* the longest pass: its reads and the receipts of its chunks
    RollDelay,      \* ticks the executeRound transaction may be late
    OtherAlarms,    \* alerts the other alarms of the engine may add in one round
    LaggingNonce,   \* TRUE: the node that counts the transactions may be behind
    MaxFaults,      \* failed calls, stale reads, evictions and crashes of one behaviour
    MaxTime         \* the clock stops here

ASSUME LoopAssumption ==
    /\ {Interval, ClaimDelay, Attempts} \subseteq Nat \ {0}
    /\ {Ladder, Slack, Floor, PostTime, FetchTime, ReceiptTime, ClaimTime, RollDelay,
        RetryDelay, OtherAlarms, MaxFaults, MaxTime} \subseteq Nat
    /\ LaggingNonce \in BOOLEAN
    /\ 2 * Interval <= MaxTime

VARIABLES
    now,        \* the clock of the host and of the chain
    lock,       \* the contract: the lock time of every round started so far
    mined,      \* the chain: transactions of the wallet in a block
    mempool,    \* nonces of the wallet's transactions still waiting
    pc, until,
    try,        \* attempts of the handshake under way
    view,       \* current_epoch, as the last handshake of an iteration returned it
    iterStart,  \* _iter_started
    scanned,    \* claim_scan_initialized
    nonce,      \* _cached_nonce, None when dropped
    alarm,      \* _POOL_GATE_ALARM
    queue,      \* _PENDING_POOL_GATE_EVENTS, and what a flush has still to send
    told,       \* history: the last word of the pool-gate alarm was "blocked"
    run,        \* history: blocked rounds since the last ready one
    visited,    \* history: rounds whose ladder this process entered
    faults

chain  == <<lock, mined, mempool>>
alerts == <<alarm, queue, told, run>>
vars   == <<now, chain, pc, until, try, view, iterStart, scanned, nonce, alerts, visited, faults>>

None == -1
Tip  == Len(lock)
\* get_transaction_count(wallet, "pending"), by a node that knows everything
Pending == Min({n \in mined .. mined + Cardinality(mempool) : n \notin mempool})
Later(t) == Max({now, t})
Due == now >= until
Fault == faults < MaxFaults /\ faults' = faults + 1
\* Continue at place p, where a call or a sleep ends at time t at the latest.
GoTo(p, t) == pc' = p /\ until' = Later(t)
At(p) == GoTo(p, now)

------------------------------------------------------------------------------
(* The chain *)

\* Time passes while the engine sleeps or waits for an answer.
Tick ==
    /\ now < until \/ pc = "down"
    /\ now < MaxTime
    /\ now < lock[Tip] + RollDelay
    /\ now' = now + 1
    /\ UNCHANGED <<chain, pc, until, try, view, iterStart, scanned, nonce, alerts, visited, faults>>

\* executeRound locks the open round and opens the next one.
Roll ==
    /\ now >= lock[Tip]
    /\ lock' = Append(lock, now + Interval)
    /\ UNCHANGED <<now, mined, mempool, pc, until, try, view, iterStart, scanned, nonce, alerts, visited, faults>>

Mine ==
    /\ mined \in mempool
    /\ mined' = mined + 1
    /\ mempool' = mempool \ {mined}
    /\ UNCHANGED <<now, lock, pc, until, try, view, iterStart, scanned, nonce, alerts, visited, faults>>

\* A node drops a waiting transaction, not in the seconds before a lock.
Evict ==
    /\ pc = "asleep"
    /\ Fault
    /\ \E n \in mempool : mempool' = mempool \ {n}
    /\ UNCHANGED <<now, lock, mined, pc, until, try, view, iterStart, scanned, nonce, alerts, visited>>

------------------------------------------------------------------------------
(* _epoch_handshake *)

\* Mutant: the handshake never gives up.
NextAttemptForever ==
    /\ try' = try + 1
    /\ \E d \in 0 .. RetryDelay : GoTo(pc, now + d)
\* The attempt after this one, or the exception that ends the process.
NextAttempt ==
    /\ try' = try + 1
    /\ IF try' < Attempts
       THEN \E d \in 0 .. RetryDelay : GoTo(pc, now + d)
       ELSE At("down")

\* Mutant: any epoch a node returns is taken for the open one.
OpenOnes == {Tip, Tip - 1}
\* open_rd.lock_ts must lie ahead, whatever epoch the node says is current.
Open == {e \in {Tip, Tip - 1} : lock[e] > now}

\* Both handshakes: of an iteration, and after the sleep for a claim.
Handshake ==
    /\ pc \in {"align", "realign"}
    /\ Due
    /\ \E stale \in {0, 1} :
         LET e == Tip - stale
         IN  /\ stale = 1 => faults < MaxFaults
             /\ faults' = faults + stale
             /\ IF e \in Open
                THEN /\ try' = 0
                     /\ CASE pc = "align" /\ ~scanned -> At("firstScan") /\ view' = e
                          [] pc = "align" /\ scanned  -> At("arranged") /\ view' = e
                          [] OTHER -> At("claim") /\ UNCHANGED view
                ELSE NextAttempt /\ UNCHANGED view
    /\ UNCHANGED <<now, chain, iterStart, scanned, nonce, alerts, visited>>

\* A call of it fails, or the round it reads is not written yet.
HandshakeFails ==
    /\ pc \in {"align", "realign"}
    /\ Due
    /\ Fault
    /\ NextAttempt
    /\ UNCHANGED <<now, chain, view, iterStart, scanned, nonce, alerts, visited>>

------------------------------------------------------------------------------
(* The passes that claim, at the first iteration and after each round *)

Scanning == {"firstScan", "claim"}
After(p) == IF p \in {"firstScan", "firstWait"} THEN "arranged" ELSE "pace"
Rejected == nonce \in mempool \/ nonce < mined

\* _on_send_success
Sent == nonce + 1

\* send_raw_transaction is accepted.
Accepted ==
    /\ ~Rejected
    /\ mempool' = mempool \cup {nonce}
    /\ nonce' = Sent
    /\ UNCHANGED <<mined, faults>>

\* It raises: the node has the nonce already, or the answer is lost, with or
\* without the transaction. _invalidate_nonce.
SendFails ==
    /\ nonce' = None
    /\ \/ Rejected /\ UNCHANGED <<mempool, faults>>
       \/ ~Rejected /\ Fault /\ mempool' \in {mempool, mempool \cup {nonce}}
    /\ UNCHANGED mined

\* Nothing is due, or the send caches are not ready: the cursor waits.
ClaimNothing ==
    /\ pc \in Scanning
    /\ scanned' = TRUE
    /\ At(After(pc))
    /\ UNCHANGED <<now, chain, try, view, iterStart, nonce, alerts, visited, faults>>

\* One chunk is claimed, its receipt stands for those of all; a failed send is
\* swallowed by the caller of the pass.
Claim ==
    /\ pc \in Scanning
    /\ nonce # None
    /\ scanned' = TRUE
    /\ \/ Accepted /\ GoTo(IF pc = "claim" THEN "claimWait" ELSE "firstWait", now + ClaimTime)
       \/ SendFails /\ At(After(pc))
    /\ UNCHANGED <<now, lock, try, view, iterStart, alerts, visited>>

\* The receipt, or the end of the wait for it.
ClaimAnswered ==
    /\ pc \in {"claimWait", "firstWait"}
    /\ mined >= nonce \/ Due
    /\ At(After(pc))
    /\ UNCHANGED <<now, chain, try, view, iterStart, scanned, nonce, alerts, visited, faults>>

------------------------------------------------------------------------------
(* From the claim-first test to the decision *)

ClaimTs(e) == lock[e + 1] + ClaimDelay

\* The round that closed when this one opened may be claimed before its lock.
ClaimFirst ==
    /\ pc = "arranged"
    /\ LET wake == ClaimTs(view - 2)
       IN  IF now < wake /\ wake < lock[view] THEN GoTo("asleep", wake) ELSE At("flush")
    /\ UNCHANGED <<now, chain, try, view, iterStart, scanned, nonce, alerts, visited, faults>>

HasSlack == lock[view] - now >= Slack

\* _flush_pool_gate_alerts
Flush ==
    /\ pc = "flush"
    /\ IF queue # <<>> /\ HasSlack
       THEN GoTo("post", now + PostTime)
       ELSE GoTo("ladder", lock[view] - Ladder)
    /\ UNCHANGED <<now, chain, try, view, iterStart, scanned, nonce, alerts, visited, faults>>

Post ==
    /\ pc = "post"
    /\ queue' = Tail(queue)
    /\ told' = IF Head(queue) = "other" THEN told ELSE Head(queue) = "blocked"
    /\ IF queue' # <<>>
       THEN GoTo("post", now + PostTime)
       ELSE GoTo("ladder", lock[view] - Ladder)
    /\ UNCHANGED <<now, chain, try, view, iterStart, scanned, nonce, alarm, run, visited, faults>>

\* Mutant: it waits for the close of the round that has just been decided.
SleepAndClaimForOpen == GoTo("asleep", lock[view] + Interval + ClaimDelay)
\* _sleep_and_claim(claim_epoch = locked_epoch)
SleepAndClaim == GoTo("asleep", ClaimTs(view - 1))

\* Mutant: the nonce is read only while none is cached.
FetchedOnce == IF nonce = None THEN {Pending} ELSE {nonce}
\* prefetch_nonce adopts what the node counts.
Fetched == IF LaggingNonce THEN mined .. Pending ELSE {Pending}

\* The preflight wake: the balance, then the send caches. Only a failure of the
\* first is a skip; one of the second leaves the loop.
Preflight ==
    /\ pc = "ladder"
    /\ Due
    /\ visited' = visited \cup {view}
    /\ \/ Fault /\ SleepAndClaim /\ UNCHANGED nonce
       \/ Fault /\ At("down") /\ UNCHANGED nonce
       \/ UNCHANGED faults /\ At("gate") /\ nonce' \in Fetched
    /\ UNCHANGED <<now, chain, try, view, iterStart, scanned, alerts>>

\* The verdict of is_pool_ready, folded into the alarm before the skip branch.
PoolGate ==
    /\ pc = "gate"
    /\ \E ready \in BOOLEAN, others \in 0 .. OtherAlarms :
         LET b == Record(alarm, ready, view, now)
         IN  /\ alarm' = b
             /\ queue' = queue \o EventOf(alarm, b) \o [i \in 1 .. others |-> "other"]
             /\ run' = IF ready THEN 0 ELSE run + 1
             /\ IF ready THEN GoTo("decide", now + FetchTime) ELSE SleepAndClaim
    /\ UNCHANGED <<now, chain, try, view, iterStart, scanned, nonce, told, visited, faults>>

\* Mutant: the guard compares with the lock of the round after.
TooLateByOne == now >= lock[view] + Interval
\* now_utc_ms >= deadline_ms
TooLate == now >= lock[view]

Decide ==
    /\ pc = "decide"
    /\ \/ SleepAndClaim
       \/ ~TooLate /\ nonce # None /\ At("send")
    /\ UNCHANGED <<now, chain, try, view, iterStart, scanned, nonce, alerts, visited, faults>>

\* bet_bull_timed and bet_bear_timed; a failed send is an exception of the loop.
Send ==
    /\ pc = "send"
    /\ \/ Accepted /\ GoTo("receipt", now + ReceiptTime)
       \/ SendFails /\ At("down")
    /\ UNCHANGED <<now, lock, try, view, iterStart, scanned, alerts, visited>>

BetAnswered ==
    /\ pc = "receipt"
    /\ mined >= nonce \/ Due
    /\ SleepAndClaim
    /\ UNCHANGED <<now, chain, try, view, iterStart, scanned, nonce, alerts, visited, faults>>

------------------------------------------------------------------------------
(* The rest of an iteration, and the process *)

Wake ==
    /\ pc = "asleep"
    /\ Due
    /\ try' = 0
    /\ At("realign")
    /\ UNCHANGED <<now, chain, view, iterStart, scanned, nonce, alerts, visited, faults>>

FloorEnd == iterStart + Floor

\* run_realtime_loop sleeps what is left of the least iteration.
Pace ==
    /\ pc = "pace"
    /\ GoTo("top", FloorEnd)
    /\ UNCHANGED <<now, chain, try, view, iterStart, scanned, nonce, alerts, visited, faults>>

StartIteration ==
    /\ pc = "top"
    /\ Due
    /\ iterStart' = now
    /\ try' = 0
    /\ At("align")
    /\ UNCHANGED <<now, chain, view, scanned, nonce, alerts, visited, faults>>

Crash ==
    /\ pc # "down"
    /\ Fault
    /\ At("down")
    /\ UNCHANGED <<now, chain, try, view, iterStart, scanned, nonce, alerts, visited>>

\* A new process has no memory of alarms and primes its nonce.
Boot ==
    /\ pc = "down"
    /\ At("top")
    /\ try' = 0 /\ view' = 0 /\ iterStart' = now /\ scanned' = FALSE
    /\ nonce' = Pending
    /\ alarm' = NewAlarm /\ queue' = <<>> /\ told' = FALSE /\ run' = 0
    /\ visited' = {}
    /\ UNCHANGED <<now, chain, faults>>

Init ==
    /\ now = 2 * Interval
    /\ lock = <<Interval, 2 * Interval, 3 * Interval>>
    /\ mined = 0 /\ mempool = {}
    /\ pc = "down" /\ until = now
    /\ try = 0 /\ view = 0 /\ iterStart = now /\ scanned = FALSE
    /\ nonce = None
    /\ alarm = NewAlarm /\ queue = <<>> /\ told = FALSE /\ run = 0
    /\ visited = {}
    /\ faults = 0

Next ==
    \/ Tick \/ Roll \/ Mine \/ Evict
    \/ Handshake \/ HandshakeFails
    \/ ClaimNothing \/ Claim \/ ClaimAnswered
    \/ ClaimFirst \/ Flush \/ Post
    \/ Preflight \/ PoolGate \/ Decide \/ Send \/ BetAnswered
    \/ Wake \/ Pace \/ StartIteration \/ Crash \/ Boot

Spec == Init /\ [][Next]_vars

------------------------------------------------------------------------------
(* Properties *)

Places == {"down", "top", "align", "firstScan", "firstWait", "arranged", "flush", "post",
           "ladder", "gate", "decide", "send", "receipt", "asleep", "realign", "claim",
           "claimWait", "pace"}

\* The type invariant: every variable of the loop keeps its type (engine.py).
TypeOK ==
    /\ now \in 0 .. MaxTime
    /\ lock \in Seq(Nat)
    /\ mined \in Nat /\ mempool \subseteq Nat
    /\ pc \in Places /\ until \in Nat
    /\ try \in 0 .. Attempts
    /\ view \in 0 .. Tip /\ iterStart \in 0 .. now
    /\ scanned \in BOOLEAN
    /\ nonce \in Nat \cup {None}
    /\ alarm \in Alarms(1 .. Tip, 0 .. MaxTime)
    /\ queue \in Seq({"blocked", "recovered", "other"})
    /\ told \in BOOLEAN /\ run \in Nat
    /\ visited \subseteq 1 .. Tip
    /\ faults \in 0 .. MaxFaults

\* One process goes through the wakes of a round once, whatever epoch a node
\* that is behind reports (engine.py:2230-2254, the spin of 2026-08-30).
NoRoundIsVisitedTwice == pc = "ladder" => view \notin visited

\* Without a failure no round goes by undecided, and none is entered late: the
\* pass of the round before, the floor and the alerts leave room for the wakes.
NoRoundIsMissed ==
    pc = "ladder" /\ visited # {} /\ faults = 0 =>
        view = Max(visited) + 1 /\ until <= lock[view] - Ladder

\* A bet is sent for the round that is open on the chain at that moment, although
\* the handshake that named it lies minutes back (engine.py:1820-1850).
SendsAreForTheOpenRound == pc = "send" => view = Tip /\ now < lock[view]

\* A bet is signed with the next nonce of the chain, after claims that timed
\* out, sends whose answer was lost and transactions the nodes dropped.
BetHasTheNextNonce == pc = "send" => nonce = Pending

PoolWords == {i \in DOMAIN queue : queue[i] # "other"}
\* The last thing the operator has been told, or is about to be told, is whether
\* the pool has been blocked for the threshold of rounds or more.
OperatorIsTold ==
    pc # "down" =>
        (run >= Threshold <=> IF PoolWords = {} THEN told ELSE queue[Max(PoolWords)] = "blocked")

------------------------------------------------------------------------------
(* What comments say and the code does not do *)

\* No delivery of an alert reaches into the wakes before the lock (engine.py:582-588).
AlertsEndBeforeTheLadder == pc = "post" => until <= lock[view] - Ladder

\* The floor "cannot fire in normal operation" (engine.py:1025-1030).
FloorMeansStale == pc = "pace" /\ now - iterStart < Floor => faults > 0

\* Claims, too, go out with the chain's next nonce (live.py:570-575).
ClaimHasTheNextNonce == pc \in Scanning /\ nonce # None => nonce = Pending
==============================================================================
