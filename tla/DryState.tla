------------------------------- MODULE DryState -------------------------------
(* Dry mode (runtime/dry.py and the dry branches of runtime/engine.py): bets     *)
(* are simulated against a bankroll that lives in memory and in four files,      *)
(* written one after the other by a process that may die between any two.       *)
(*                                                                              *)
(* The bet-lifecycle ledger of dry mode is write-only and left out; the tracker *)
(* the settlements are forwarded to is BankrollTracker.                         *)
EXTENDS Integers, Sequences, FiniteSets, FiniteSetsExt

CONSTANTS
    LastEpoch,      \* bets may be made on the epochs 1 .. LastEpoch
    Interval,       \* ticks from one lock to the next
    Buffer,         \* buffer_seconds
    Stake,          \* bet_bnb
    Gas,            \* MAX_GAS_COST_BET_BNB, debited with the stake
    Payout,         \* what a won bet credits
    Inits,          \* the values dry_initial_bankroll_bnb may have at a start
    MaxCrashes,
    MaxFresh,       \* starts with --fresh
    MaxReads,       \* round_data calls that fail
    MaxTime

ASSUME DryAssumption ==
    /\ {LastEpoch, Interval, Stake, Payout} \subseteq Nat \ {0}
    /\ {Buffer, Gas, MaxCrashes, MaxFresh, MaxReads, MaxTime} \subseteq Nat
    /\ Inits # {} /\ Inits \subseteq Nat

VARIABLES
    now,            \* the clock, in ticks
    sec,            \* the second of the latest record; only their order matters
    oracle,         \* what the contract's operator made of each round
    pending,        \* file pending_bets.jsonl
    trades,         \* file trades.csv
    settledFile,    \* file settled_epochs.txt
    state,          \* file bankroll.json
    pc,             \* the place of the thread
    bankroll,       \* simulated_bankroll_bnb
    bets,           \* dry_bets_by_epoch
    settled,        \* dry_settled_epochs
    todo,           \* the bets the pass has still to look at
    hand,           \* the settlement in hand
    alerts,         \* history: settlement alerts sent, by epoch
    base,           \* history: the bankroll this account began with
    tied,           \* history: a crash lost a record that had the second of the last save
    half,           \* history: a --fresh start is under way
    due,            \* history: the rounds the contract was done with when the last pass began
    crashes, fresh, reads

market == <<now, oracle>>
files  == <<pending, trades, settledFile, state>>
memory == <<bankroll, bets, settled, todo, hand>>
ghosts == <<alerts, base, tied, half, due>>
limits == <<crashes, fresh, reads>>
vars   == <<market, sec, files, pc, memory, ghosts, limits>>

Epochs  == 1 .. LastEpoch
Lock(e) == e * Interval
Close(e) == Lock(e + 1)
\* The wake of _sleep_and_claim: the close of the round before, its buffer, a padding.
ClaimTs(e) == Close(e - 1) + Buffer + 1
NoState == [bankroll |-> 0, ts |-> 0, source |-> "none"]
NoHand  == [epoch |-> 0, credit |-> 0, ts |-> 0]
Save(amount, ts, source) == [bankroll |-> amount, ts |-> ts, source |-> source]
EpochsIn(file) == {file[i].epoch : i \in DOMAIN file}

-------------------------------------------------------------------------------
(* The chain and the clock.                                                     *)

\* A tick is much longer than the thread needs between two of its waits.
Tick ==
    /\ now < MaxTime
    /\ \/ pc \in {"decide", "pass", "announce", "down"}
       \/ pc = "asleep" /\ now < ClaimTs(hand.epoch)
    /\ now' = now + 1
    /\ UNCHANGED <<sec, oracle, files, pc, memory, ghosts, limits>>

\* The operator may close a round until its buffer has run out.
OracleCalls ==
    /\ \E e \in Epochs, credit \in {0, Payout} :
        /\ oracle[e] = "open"
        /\ Close(e) <= now /\ now <= Close(e) + Buffer
        /\ oracle' = [oracle EXCEPT ![e] = IF credit = 0 THEN "lost" ELSE "won"]
    /\ UNCHANGED <<now, sec, files, pc, memory, ghosts, limits>>

\* What the contract is done with: called, or refundable.
DueRounds == {e \in Epochs : oracle[e] # "open" \/ now > Close(e) + Buffer}

\* settle_from_round_data
CreditOf(e) == CASE oracle[e] = "won"  -> Payout
                 [] oracle[e] = "lost" -> 0
                 [] oracle[e] = "open" -> Stake

-------------------------------------------------------------------------------
(* A bet: memory, then the bets file, then the bankroll file.                   *)

OpenEpoch == {e \in 1 .. LastEpoch + 1 : Lock(e - 1) <= now /\ now < Lock(e)}

\* A bet is decided at a wake of its own, so never in the second of an earlier save,
\* and never below the bankroll the risk gate asks for. Mutant: below it as well.
DryRecordAnyBet ==
    /\ pc = "decide"
    /\ \E e \in (OpenEpoch \cap Epochs) \ bets : LET ts == sec + 1 IN
        /\ sec' = ts
        /\ bankroll' = bankroll - (Stake + Gas)
        /\ bets' = bets \cup {e}
        /\ pending' = Append(pending, [epoch |-> e, ts |-> ts, after |-> bankroll'])
        /\ hand' = [epoch |-> e, credit |-> 0, ts |-> ts]
    /\ pc' = "saveBet"
    /\ UNCHANGED <<market, trades, settledFile, state, settled, todo, ghosts, limits>>

DryRecordBet ==
    /\ pc = "decide"
    /\ bankroll >= Stake + Gas
    /\ \E e \in (OpenEpoch \cap Epochs) \ bets : LET ts == sec + 1 IN
        /\ sec' = ts
        /\ bankroll' = bankroll - (Stake + Gas)
        /\ bets' = bets \cup {e}
        /\ pending' = Append(pending, [epoch |-> e, ts |-> ts, after |-> bankroll'])
        /\ hand' = [epoch |-> e, credit |-> 0, ts |-> ts]
    /\ pc' = "saveBet"
    /\ UNCHANGED <<market, trades, settledFile, state, settled, todo, ghosts, limits>>

\* dry_bet_duplicate_epoch: a restart decides on a bet this process had made already.
DuplicateBet ==
    /\ pc = "decide"
    /\ OpenEpoch \cap bets # {}
    /\ pc' = "down"
    /\ bankroll' = 0 /\ bets' = {} /\ settled' = {} /\ todo' = {} /\ hand' = NoHand
    /\ UNCHANGED <<market, sec, files, ghosts, limits>>

SaveAfterBet ==
    /\ pc = "saveBet"
    /\ state' = Save(bankroll, hand.ts, "bet")
    /\ pc' = "asleep"
    /\ UNCHANGED <<market, sec, pending, trades, settledFile, memory, ghosts, limits>>

Skip ==
    /\ pc = "decide"
    /\ \E e \in OpenEpoch : hand' = [NoHand EXCEPT !.epoch = e]
    /\ pc' = "asleep"
    /\ UNCHANGED <<market, sec, files, bankroll, bets, settled, todo, ghosts, limits>>

\* A round is final once the oracle has called, or strictly after its buffer: then the
\* bet is a refund.
\* Mutant: the buffer is not waited for.
FinalEarly(e) == oracle[e] # "open" \/ Close(e) <= now
Final(e) == oracle[e] # "open" \/ Close(e) + Buffer < now
\* The claim wake. Mutant: only the bet of this iteration is looked at.
WakeForOne ==
    /\ pc = "asleep"
    /\ now >= ClaimTs(hand.epoch)
    /\ hand' = NoHand
    /\ todo' = (bets \ settled) \cap {hand.epoch}
    /\ due' = DueRounds
    /\ pc' = "pass"
    /\ UNCHANGED <<market, sec, files, bankroll, bets, settled, alerts, base, tied, half, limits>>

Wake ==
    /\ pc = "asleep"
    /\ now >= ClaimTs(hand.epoch)
    /\ hand' = NoHand
    /\ todo' = bets \ settled
    /\ due' = DueRounds
    /\ pc' = "pass"
    /\ UNCHANGED <<market, sec, files, bankroll, bets, settled, alerts, base, tied, half, limits>>

-------------------------------------------------------------------------------
(* One pass of dry_settle_available_bets, epoch by epoch.                       *)

First == Min(todo)

\* Not final, or a read that failed: the next pass looks again.
PassOver ==
    /\ pc = "pass" /\ todo # {}
    /\ \/ ~Final(First) /\ UNCHANGED reads
       \/ reads < MaxReads /\ reads' = reads + 1
    /\ todo' = todo \ {First}
    /\ UNCHANGED <<market, sec, files, pc, bankroll, bets, settled, hand, ghosts, crashes, fresh>>

\* Two settlements of one pass may fall into the same second.
Seconds == IF hand.ts = 0 THEN {sec + 1} ELSE {sec, sec + 1}

\* Memory first, then the outputs and the files. Mutant: no alert.
CreditSilently ==
    /\ pc = "pass" /\ todo # {}
    /\ Final(First)
    /\ bankroll' = bankroll + CreditOf(First)
    /\ \E ts \in Seconds :
        /\ sec' = ts
        /\ hand' = [epoch |-> First, credit |-> CreditOf(First), ts |-> ts]
    /\ todo' = todo \ {First}
    /\ pc' = "row"
    /\ UNCHANGED <<market, files, bets, settled, ghosts, limits>>

Credit ==
    /\ pc = "pass" /\ todo # {}
    /\ Final(First)
    /\ bankroll' = bankroll + CreditOf(First)
    /\ \E ts \in Seconds :
        /\ sec' = ts
        /\ hand' = [epoch |-> First, credit |-> CreditOf(First), ts |-> ts]
    /\ todo' = todo \ {First}
    /\ pc' = "announce"
    /\ UNCHANGED <<market, files, bets, settled, ghosts, limits>>

Announce ==
    /\ pc = "announce"
    /\ alerts' = [alerts EXCEPT ![hand.epoch] = @ + 1]
    /\ pc' = "row"
    /\ UNCHANGED <<market, sec, files, memory, base, tied, half, due, limits>>

AppendTrade ==
    /\ pc = "row"
    /\ trades' = Append(trades, [epoch |-> hand.epoch, ts |-> hand.ts, after |-> bankroll])
    /\ pc' = "mark"
    /\ UNCHANGED <<market, sec, pending, settledFile, state, memory, ghosts, limits>>

MarkSettled ==
    /\ pc = "mark"
    /\ settled' = settled \cup {hand.epoch}
    /\ settledFile' = settledFile \cup {hand.epoch}
    /\ pc' = "saveSettle"
    /\ UNCHANGED <<market, sec, pending, trades, state, bankroll, bets, todo, hand, ghosts,
                   limits>>

SaveAfterSettle ==
    /\ pc = "saveSettle"
    /\ state' = Save(bankroll, hand.ts, "settle")
    /\ hand' = [NoHand EXCEPT !.ts = hand.ts]
    /\ pc' = "pass"
    /\ UNCHANGED <<market, sec, pending, trades, settledFile, bankroll, bets, settled, todo,
                   ghosts, limits>>

EndPass ==
    /\ pc = "pass" /\ todo = {}
    /\ pc' = "decide"
    /\ hand' = NoHand
    /\ UNCHANGED <<market, sec, files, bankroll, bets, settled, todo, ghosts, limits>>

-------------------------------------------------------------------------------
(* Crash, and the start that finds the files.                                   *)

\* The record in hand is in its log and not in bankroll.json yet.
Unsaved == \/ pc = "saveBet"
           \/ pc \in {"mark", "saveSettle"}

Crash ==
    /\ crashes < MaxCrashes
    /\ pc # "down"
    /\ crashes' = crashes + 1
    /\ tied' = (tied \/ (Unsaved /\ hand.ts = state.ts))
    /\ pc' = "down"
    /\ bankroll' = 0 /\ bets' = {} /\ settled' = {} /\ todo' = {} /\ hand' = NoHand
    /\ UNCHANGED <<market, sec, files, alerts, base, half, due, fresh, reads>>

\* _recover_dry_bankroll_state_from_logs: the first record of the latest second.
Logs == pending \o trades
Recovered ==
    LET last == Min({i \in DOMAIN Logs : \A j \in DOMAIN Logs : Logs[j].ts <= Logs[i].ts})
    IN  IF Logs = <<>> THEN NoState ELSE Save(Logs[last].after, Logs[last].ts, "recovered")

\* _resolve_initial_dry_bankroll_state
Resolve(init) ==
    LET seed == state.source = "configured_init" /\ Recovered = NoState
        keep == state # NoState /\ ~seed /\ (Recovered = NoState \/ state.ts >= Recovered.ts)
    IN  CASE keep                           -> state
          [] ~keep /\ Recovered # NoState   -> Recovered
          [] OTHER                          -> Save(init, sec, "configured_init")

\* The epochs that count as settled. Mutant: the trades file is not asked.
LoadSettledFromMarks == settledFile
LoadSettled == settledFile \cup EpochsIn(trades)

InitRuntimeState ==
    /\ pc = "down"
    /\ \E init \in Inits :
        /\ state' = Resolve(init)
        /\ IF state'.source = "configured_init"
             THEN base' = init /\ half' = FALSE
             ELSE UNCHANGED <<base, half>>
    /\ bankroll' = state'.bankroll
    /\ bets' = EpochsIn(pending)
    /\ settled' = LoadSettled
    /\ todo' = bets' \ settled'
    /\ pc' = "pass"
    /\ UNCHANGED <<market, sec, pending, trades, settledFile, hand, alerts, tied, limits>>
    /\ due' = DueRounds

\* --fresh: the files are archived in the order of _dry_runtime_state_files; until the
\* start that follows, another one may find what is left.
FreshStart ==
    /\ pc = "down"
    /\ fresh < MaxFresh
    /\ fresh' = fresh + 1
    /\ half' = TRUE
    /\ pc' = "archive"
    /\ UNCHANGED <<market, sec, files, memory, alerts, base, tied, due, crashes, reads>>

Archive ==
    /\ pc = "archive"
    /\ \/ pending # <<>> /\ pending' = <<>> /\ UNCHANGED <<settledFile, trades, state, pc>>
       \/ /\ pending = <<>> /\ settledFile # {}
          /\ settledFile' = {}
          /\ UNCHANGED <<pending, trades, state, pc>>
       \/ /\ pending = <<>> /\ settledFile = {} /\ trades # <<>>
          /\ trades' = <<>>
          /\ UNCHANGED <<pending, settledFile, state, pc>>
       \/ /\ pending = <<>> /\ settledFile = {} /\ trades = <<>>
          /\ state' = NoState
          /\ pc' = "down"
          /\ UNCHANGED <<pending, settledFile, trades>>
    /\ UNCHANGED <<market, sec, memory, ghosts, limits>>

Init ==
    /\ now = 0 /\ sec = 1
    /\ oracle = [e \in Epochs |-> "open"]
    /\ pending = <<>> /\ trades = <<>> /\ settledFile = {} /\ state = NoState
    /\ pc = "down"
    /\ bankroll = 0 /\ bets = {} /\ settled = {} /\ todo = {} /\ hand = NoHand
    /\ alerts = [e \in Epochs |-> 0]
    /\ base = 0 /\ tied = FALSE /\ half = FALSE /\ due = {}
    /\ crashes = 0 /\ fresh = 0 /\ reads = 0

Next ==
    \/ Tick \/ OracleCalls
    \/ DryRecordBet \/ DuplicateBet \/ SaveAfterBet \/ Skip \/ Wake
    \/ PassOver \/ Credit \/ Announce \/ AppendTrade \/ MarkSettled \/ SaveAfterSettle \/ EndPass
    \/ Crash \/ InitRuntimeState \/ FreshStart \/ Archive

Spec == Init /\ [][Next]_vars

-------------------------------------------------------------------------------
(* Properties.                                                                  *)

TypeOK ==
    /\ now \in 0 .. MaxTime /\ sec \in Nat /\ bankroll \in Nat
    /\ oracle \in [Epochs -> {"open", "lost", "won"}]
    /\ bets \cup settled \cup todo \cup settledFile \subseteq Epochs
    /\ EpochsIn(trades) \subseteq Epochs /\ EpochsIn(pending) \subseteq Epochs
    /\ hand.epoch \in 0 .. LastEpoch + 1

AtRest == pc \in {"pass", "decide", "asleep"}

\* What CreditOf says of some epochs, added up.
Credits(epochs) == Payout * Cardinality({e \in epochs : oracle[e] = "won"})
                   + Stake * Cardinality({e \in epochs : oracle[e] = "open"})

\* Every simulated bet is debited once and credited once with what the contract would
\* have paid, whatever crash came between the five writes of a settlement. A crash may
\* lose a record that carries the second of the save before it (tied), and a start
\* that finds a half-done --fresh finds no account (half).
Accounted == base - (Stake + Gas) * Cardinality(bets) + Credits(settled)
BankrollAddsUp == AtRest /\ ~tied /\ ~half => bankroll = Accounted

\* ... without the exception for a record of the same second.
NoRecordIsLost == AtRest /\ ~half => bankroll = Accounted

\* A settlement that is on file was announced, and announced again only for a crash.
SettlementsAreAnnounced ==
    \A e \in EpochsIn(trades) : alerts[e] \in 1 .. crashes + 1

\* A pass leaves no bet behind that was due when it began, unless a read failed: neither
\* one the oracle has called nor one that is due as a refund, whichever iteration made it
\* (dry_settle_available_bets looks at every open bet).
PassIsComplete == pc = "decide" /\ reads = 0 => bets \cap due \subseteq settled

\* dry.py: simulated_bankroll_bnb is credited and debited at settlement "and is
\* therefore ALREADY on a settled basis", so no open stake is missing from it.
BankrollIsOnSettledBasis ==
    AtRest /\ ~tied /\ ~half =>
        bankroll = base - (Stake + Gas) * Cardinality(settled) + Credits(settled)

===============================================================================
