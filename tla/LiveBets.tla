------------------------------ MODULE LiveBets ------------------------------
(***************************************************************************)
(* The life of a live bet: run_realtime_loop and _run_one_iteration of     *)
(* runtime/engine.py drive the send, the receipt classification, the       *)
(* settlement against the chain (bet_ledger.reconcile) and the claim scan  *)
(* (live.claim_scan_cursor), all on one thread.  Between two steps of the  *)
(* bot the chain moves, the process may crash, an append may fail and an   *)
(* RPC call may fail.  What survives a crash is the bet ledger and the     *)
(* claim cursor; everything else is process memory.                        *)
(***************************************************************************)
EXTENDS PredictionMarket

CONSTANTS
    Padding,    \* _RPC_ALIGNMENT_PADDING_SECONDS
    MaxPerTx,   \* _MAX_CLAIM_EPOCHS_PER_TX
    FaultKinds, \* the faults that may happen
    MaxFaults   \* how many of them may happen (bound of the model)

ASSUME BotAssumption ==
    /\ Padding \in Nat /\ MaxPerTx \in Nat \ {0} /\ MaxFaults \in Nat
    /\ FaultKinds \subseteq {"crash", "append", "reconcile", "scan",
                        "partial", "timeout", "postpone", "pause"}
    /\ Buffer + Padding < Interval

VARIABLES
    \* --- on disk ---
    status,     \* bets ledger: latest status of each epoch, "absent" if none
    sized,      \* epochs whose merged record holds the side and the amount
    gas,        \* gas_paid_bnb of the merged record
    cursor,     \* claim cursor file: rounds of userRounds already scanned
    torn,       \* the last line of the bets ledger was written in part
    \* --- process memory ---
    pc,         \* where the thread is
    started,    \* closed.claim_scan_initialized
    snap,       \* the rounds the last _epoch_handshake returned
    bet,        \* epoch being bet on, 0 if none
    receipt,    \* what the receipt wait returned for it
    wake,       \* epoch _sleep_and_claim waits for
    todo,       \* epochs the reconcile pass has not reached
    recNow,     \* now_ts of the reconcile pass
    seen,       \* the recheck found a receipt
    edge,       \* claim scan: cursor plus the number of rounds scanned
    pending,    \* pending_claims of the claim scan
    marking,    \* epochs of the confirmed claim left to alert and mark
    \* --- seen by the operator; history variables ---
    alerts,     \* how often each alert was sent for an epoch
    excuse,     \* why the cursor moved past an epoch without claiming it
    tears,      \* how often a line of the ledger was left in part
    faults      \* faults so far

diskVars == <<status, sized, gas, cursor>>
lineVars == <<torn, tears>>
betVars == <<bet, receipt>>
passVars == <<todo, recNow, seen>>
scanVars == <<edge, pending, marking>>
historyVars == <<alerts, excuse>>
vars == <<marketVars, diskVars, lineVars, pc, started, snap, wake, betVars, passVars,
          scanVars, historyVars, faults>>

Statuses == {"absent", "SUBMITTED", "CONFIRMED", "LATE", "REVERTED", "DROPPED",
             "SETTLED_WON", "SETTLED_LOST", "SETTLED_REFUND", "CLAIMED"}
OpenStatuses == {"SUBMITTED", "CONFIRMED"}
RecheckStatuses == {"SUBMITTED", "DROPPED"}
Settled == {"SETTLED_WON", "SETTLED_LOST", "SETTLED_REFUND"}
GasValues == {"unset", "null", "zero", "paid"}
AlertKinds == {"LOST", "WON", "REFUND"}
Excuses == {"none", "revert", "partial", "boundary"}
PCs == {"down", "handshake", "decide", "sent", "submitted", "classify", "asleep",
        "reconcile", "recheck", "settle", "alertLost", "scan", "claim",
        "claimWait", "alertClaim", "markClaim"}

\* Where the thread is between the broadcast of a bet and its last record.
Betting == {"sent", "submitted", "classify"}

TypeOK ==
    /\ MarketTypeOK
    /\ status \in [Epochs -> Statuses]
    /\ sized \in SUBSET Epochs
    /\ gas \in [Epochs -> GasValues]
    /\ cursor \in Nat
    /\ pc \in PCs
    /\ started \in BOOLEAN
    /\ snap \in Epochs
    /\ bet \in IF pc \in Betting THEN Epochs ELSE {0}
    /\ receipt \in TxStates \ {"pool"}
    /\ wake \in Nat
    /\ todo \in SUBSET Epochs
    /\ recNow \in Nat
    /\ seen \in BOOLEAN
    /\ edge \in Nat
    /\ pending \in SUBSET Epochs
    /\ marking \in SUBSET Epochs
    /\ alerts \in [Epochs -> [AlertKinds -> Nat]]
    /\ excuse \in [Epochs -> Excuses]
    /\ faults \in 0 .. MaxFaults
    /\ torn \in BOOLEAN /\ tears \in 0 .. faults

Init ==
    /\ MarketInit
    /\ status = [e \in Epochs |-> "absent"]
    /\ sized = {}
    /\ gas = [e \in Epochs |-> "unset"]
    /\ cursor = 0
    /\ pc = "handshake" /\ started = FALSE
    /\ snap = 2 /\ bet = 0 /\ receipt = "none" /\ wake = 1
    /\ todo = {} /\ recNow = 0 /\ seen = FALSE
    /\ edge = 0 /\ pending = {} /\ marking = {}
    /\ alerts = [e \in Epochs |-> [k \in AlertKinds |-> 0]]
    /\ excuse = [e \in Epochs |-> "none"]
    /\ faults = 0
    /\ torn = FALSE /\ tears = 0

-----------------------------------------------------------------------------
(* Faults, crashes and the handshake.                                      *)

Fault(kind) ==
    /\ kind \in FaultKinds
    /\ faults < MaxFaults
    /\ faults' = faults + 1

\* The epoch the reconcile pass is at.
This == Min(todo)

\* Mutant: the refund gate is dropped.
NeverNotDue(e) == FALSE

\* Not refundable yet by the contract's own, strict rule.
NotDue(e) == ~OracleCalled(e) /\ closeTs[e] + Buffer >= recNow

Settling ==
    \/ pc = "settle"
    \/ pc = "reconcile" /\ todo # {} /\ status[This] = "CONFIRMED"

\* A bet that is not registered is recorded as dropped unless it is already,
\* with its gas.
Unresolved == status[This] = "SUBMITTED" \/ gas[This] = "null"

\* The next record of the thread, so that a kill may cut it.
Appending ==
    \/ pc \in {"submitted", "classify", "markClaim"}
    \/ pc = "recheck" /\ (Registered(This) \/ Unresolved)
    \/ Settling /\ ~NotDue(This)

ForgetMemory ==
    /\ pc' = "down" /\ started' = FALSE
    /\ snap' = 2 /\ bet' = 0 /\ receipt' = "none" /\ wake' = 1
    /\ todo' = {} /\ recNow' = 0 /\ seen' = FALSE
    /\ edge' = 0 /\ pending' = {} /\ marking' = {}

\* _append_record writes one line and looks at no other.  A record behind a
\* line that was left in part lands on that line: it is reported as written and
\* load_ledger skips it.  A write that fails may leave a part of its own.
Cut == torn' = TRUE /\ tears' = IF torn THEN tears ELSE tears + 1
Appended == ~torn /\ UNCHANGED <<lineVars, faults>>
Glued == torn /\ torn' = FALSE /\ UNCHANGED <<tears, faults>>
Failed == Fault("append") /\ (Cut \/ UNCHANGED lineVars)

\* The process dies: also what an uncaught TransientRpcError of the bet
\* submission or of its receipt wait does.
Crash ==
    /\ pc # "down"
    /\ Fault("crash")
    /\ (UNCHANGED lineVars) \/ (Appending /\ Cut)
    /\ ForgetMemory
    /\ UNCHANGED <<marketVars, diskVars, historyVars>>

\* systemd restarts the bot, which starts a fresh loop.
Restart ==
    /\ pc = "down"
    /\ pc' = "handshake"
    /\ UNCHANGED <<marketVars, diskVars, lineVars, started, snap, wake, betVars,
                   passVars, scanVars, historyVars, faults>>

\* _epoch_handshake ran out of retries: InvariantError ends the process.
HandshakeExhausted ==
    /\ \/ pc = "handshake"
       \/ pc = "asleep" /\ now >= closeTs[wake] + Buffer + Padding
    /\ ~Coherent
    /\ ForgetMemory
    /\ UNCHANGED <<marketVars, diskVars, lineVars, historyVars, faults>>

\* Mutant: a bet given up as dropped is never looked at again.
ExaminedOpen == {e \in sized : status[e] \in OpenStatuses}

\* Statuses reconcile examines; a record without side or amount is left for
\* manual inspection.
Examined == {e \in sized : status[e] \in OpenStatuses \cup RecheckStatuses}

StartReconcile ==
    /\ pc' = "reconcile"
    /\ todo' = Examined
    /\ recNow' = now

\* Top of _run_one_iteration.  The first iteration of a process reconciles
\* and scans for claims before it goes on.
Handshake ==
    /\ pc = "handshake"
    /\ Coherent
    /\ snap' = cur
    /\ IF started THEN pc' = "decide" /\ UNCHANGED <<todo, recNow>>
                  ELSE StartReconcile
    /\ UNCHANGED <<marketVars, diskVars, lineVars, started, betVars, wake, seen,
                   scanVars, historyVars, faults>>

-----------------------------------------------------------------------------
(* One iteration: skip, bet, or first claim what has just closed.          *)

SleepUntilClaim(e) == pc' = "asleep" /\ wake' = e

\* The round before the locked one becomes claimable before the next cutoff:
\* wait for it and claim first.  (Round 1 has no predecessor in the model.)
ClaimFirst ==
    /\ pc = "decide"
    /\ snap > 2
    /\ now < lockTs[snap - 1] + Buffer + Padding
    /\ lockTs[snap - 1] + Buffer + Padding < lockTs[snap]
    /\ SleepUntilClaim(snap - 2)
    /\ UNCHANGED <<marketVars, diskVars, lineVars, started, snap, betVars, passVars,
                   scanVars, historyVars, faults>>

\* Every terminal SKIP exit, reached at the wakes just before the lock or later.
SkipRound ==
    /\ pc = "decide"
    /\ now >= lockTs[snap] - 1
    /\ SleepUntilClaim(snap - 1)
    /\ UNCHANGED <<marketVars, diskVars, lineVars, started, snap, betVars, passVars,
                   scanVars, historyVars, faults>>

\* The timing guard passed: the bet is broadcast in the last tick before the
\* lock.  A restart takes longer than that, so no round is bet on twice.
SendBet ==
    /\ pc = "decide"
    /\ snap \in BetEpochs /\ betTx[snap] = "none"
    /\ lockTs[snap] - 1 <= now /\ now < lockTs[snap]
    /\ betTx' = [betTx EXCEPT ![snap] = "pool"]
    /\ bet' = snap
    /\ pc' = "sent"
    /\ UNCHANGED <<now, cur, priced, lockTs, closeTs, outcome, userRounds,
                   paid, claimPool, claimRes, diskVars, lineVars, started, snap, receipt, wake,
                   passVars, scanVars, historyVars, faults>>

\* wait_for_transaction_receipt returns a receipt, or its time runs out.
WaitReceipt ==
    /\ pc = "sent"
    /\ \/ Mined(bet) /\ receipt' = betTx[bet]
       \/ receipt' = "none"
    /\ pc' = "submitted"
    /\ UNCHANGED <<marketVars, diskVars, lineVars, started, snap, bet, wake, passVars,
                   scanVars, historyVars, faults>>

\* record_submitted; a failed append is logged and ignored.
RecordSubmitted ==
    /\ pc = "submitted"
    /\ \/ /\ Appended
          /\ status' = [status EXCEPT ![bet] = "SUBMITTED"]
          /\ gas' = [gas EXCEPT ![bet] = "null"]
          /\ sized' = sized \cup {bet}
       \/ (Glued \/ Failed) /\ UNCHANGED <<status, gas, sized>>
    /\ pc' = "classify"
    /\ UNCHANGED <<marketVars, cursor, started, snap, wake, betVars,
                   passVars, scanVars, historyVars>>

\* Mutant: no receipt is taken for a confirmation.
ClassifyOptimist(r) ==
    CASE r \in {"none", "ok"} -> "CONFIRMED"
      [] r = "late" -> "LATE"
      [] r = "reverted" -> "REVERTED"

\* classify_confirmation, on the receipt the wait returned.
Classify(r) ==
    CASE r = "none" -> "DROPPED"
      [] r = "ok" -> "CONFIRMED"
      [] r = "late" -> "LATE"
      [] r = "reverted" -> "REVERTED"

\* record_confirmation, then the post-receipt alert and _sleep_and_claim.
RecordConfirmation ==
    /\ pc = "classify"
    /\ \/ /\ Appended
          /\ status' = [status EXCEPT ![bet] = Classify(receipt)]
          /\ gas' = [gas EXCEPT ![bet] = IF receipt = "none" THEN "null" ELSE "paid"]
       \/ (Glued \/ Failed) /\ UNCHANGED <<status, gas>>
    /\ SleepUntilClaim(snap - 1)
    /\ bet' = 0 /\ receipt' = "none"
    /\ UNCHANGED <<marketVars, sized, cursor, started, snap, passVars,
                   scanVars, historyVars>>

\* _sleep_and_claim: wait for the buffer to pass, refresh the epochs, settle.
Wake ==
    /\ pc = "asleep"
    /\ now >= closeTs[wake] + Buffer + Padding
    /\ Coherent
    /\ snap' = cur
    /\ StartReconcile
    /\ UNCHANGED <<marketVars, diskVars, lineVars, started, betVars, wake, seen,
                   scanVars, historyVars, faults>>
-----------------------------------------------------------------------------
(* bet_ledger.reconcile: one epoch after the other, in ascending order.    *)

NextEpoch == todo' = todo \ {This} /\ pc' = "reconcile"

\* try_get_receipt, for an entry whose registration is uncertain.
LookUpReceipt ==
    /\ pc = "reconcile" /\ todo # {}
    /\ status[This] \in RecheckStatuses
    /\ seen' = Mined(This)
    /\ pc' = "recheck"
    /\ UNCHANGED <<marketVars, diskVars, lineVars, started, snap, wake, betVars, todo, recNow,
                   scanVars, historyVars, faults>>

\* read_bet_amount says the stake is in: CONFIRMED, then settle it.
RecheckRegistered ==
    /\ pc = "recheck"
    /\ Registered(This)
    /\ \/ /\ Appended
          /\ status' = [status EXCEPT ![This] = "CONFIRMED"]
          /\ gas' = [gas EXCEPT ![This] = IF seen THEN "paid" ELSE "null"]
       \/ Glued /\ UNCHANGED <<status, gas>>
    /\ pc' = "settle"
    /\ UNCHANGED <<marketVars, sized, cursor, started, snap, wake, betVars, passVars,
                   scanVars, historyVars>>

\* It is not in: SUBMITTED becomes DROPPED, and a gas field still unknown is
\* resolved, once.
RecheckUnregistered ==
    /\ pc = "recheck"
    /\ ~Registered(This)
    /\ \/ /\ Unresolved /\ Appended
          /\ status' = [status EXCEPT ![This] = "DROPPED"]
          /\ gas' = [gas EXCEPT ![This] = IF seen THEN "paid" ELSE "zero"]
       \/ Unresolved /\ Glued /\ UNCHANGED <<status, gas>>
       \/ ~Unresolved /\ UNCHANGED <<status, gas, lineVars, faults>>
    /\ NextEpoch
    /\ UNCHANGED <<marketVars, sized, cursor, started, snap, wake, betVars, recNow,
                   seen, scanVars, historyVars>>

\* The round read by settle_from_round_data, for the stake being settled.
Settlement(e) ==
    CASE outcome[e] = "win" -> "SETTLED_WON"
      [] outcome[e] = "lose" -> "SETTLED_LOST"
      [] outcome[e] = "none" -> "SETTLED_REFUND"

LeaveOpen ==
    /\ Settling
    /\ NotDue(This)
    /\ NextEpoch
    /\ UNCHANGED <<marketVars, diskVars, lineVars, started, snap, wake, betVars, recNow, seen,
                   scanVars, historyVars, faults>>

\* record_settled first; a LOSS is alerted only once it counts as written.
Settle ==
    /\ Settling
    /\ ~NotDue(This)
    /\ \/ Appended /\ status' = [status EXCEPT ![This] = Settlement(This)]
       \/ Glued /\ UNCHANGED status
    /\ IF Settlement(This) = "SETTLED_LOST" THEN pc' = "alertLost" /\ UNCHANGED todo
                                            ELSE NextEpoch
    /\ UNCHANGED <<marketVars, sized, gas, cursor, started, snap, wake, betVars, recNow,
                   seen, scanVars, historyVars>>

AlertLost ==
    /\ pc = "alertLost"
    /\ alerts' = [alerts EXCEPT ![This]["LOST"] = @ + 1]
    /\ NextEpoch
    /\ UNCHANGED <<marketVars, diskVars, lineVars, started, snap, wake, betVars, recNow, seen,
                   scanVars, excuse, faults>>

\* A failed call or a failed append defers the epoch to the next pass.
DeferEpoch ==
    /\ pc \in {"reconcile", "recheck", "settle"} /\ todo # {}
    /\ (Fault("reconcile") /\ UNCHANGED lineVars) \/ (Appending /\ Failed)
    /\ NextEpoch
    /\ UNCHANGED <<marketVars, diskVars, started, snap, wake, betVars, recNow, seen,
                   scanVars, historyVars>>

EndReconcile ==
    /\ pc = "reconcile" /\ todo = {}
    /\ pc' = "scan"
    /\ UNCHANGED <<marketVars, diskVars, lineVars, started, snap, wake, betVars, passVars,
                   scanVars, historyVars, faults>>

-----------------------------------------------------------------------------
(* live.claim_scan_cursor.                                                 *)

EndScan ==
    /\ pc' = IF started THEN "handshake" ELSE "decide"
    /\ started' = TRUE
    /\ edge' = 0 /\ pending' = {}

NothingToScan ==
    /\ pc = "scan"
    /\ cursor >= Len(userRounds)
    /\ EndScan
    /\ UNCHANGED <<marketVars, diskVars, lineVars, snap, wake, betVars, passVars, marking,
                   historyVars, faults>>

\* A round is scanned unless it is live or its buffer has not passed.  "blind"
\* holds the rounds whose close_ts call failed inside the batch.
Scannable(e, blind) ==
    /\ e \notin {snap - 1, snap}
    /\ e \in blind \/ now - closeTs[e] >= Buffer

\* The scan runs from the cursor to the first round it may not scan yet.
ScanEdge(n, blind) ==
    /\ \A i \in cursor + 1 .. n : Scannable(userRounds[i], blind)
    /\ n < Len(userRounds) => ~Scannable(userRounds[n + 1], blind)

\* Scan the rounds after the cursor.  A batch is one HTTP call, but each call
\* in it may fail alone: its result is then None, read as "no close_ts known"
\* (blind) or as "neither claimable nor refundable" (mute).
ScanRounds ==
    /\ pc = "scan"
    /\ cursor < Len(userRounds)
    /\ \E n \in cursor .. Len(userRounds) :
       \E blind, mute \in SUBSET {userRounds[i] : i \in cursor + 1 .. Len(userRounds)} :
          LET passed == {userRounds[i] : i \in cursor + 1 .. n}
              found == {e \in passed \ mute : Entitled(e)}
          IN  /\ ScanEdge(n, blind)
              /\ IF blind \cup mute = {} THEN UNCHANGED faults ELSE Fault("partial")
              /\ edge' = n
              /\ pending' = found
              /\ excuse' = [e \in Epochs |->
                    IF e \in passed \ (found \cup paid)
                    THEN IF e \in blind \cup mute THEN "partial"
                         ELSE IF OracleCalled(e) THEN excuse[e] ELSE "boundary"
                    ELSE excuse[e]]
    /\ pc' = "claim"
    /\ UNCHANGED <<marketVars, diskVars, lineVars, started, snap, wake, betVars, passVars,
                   marking, alerts>>

\* The oldest MaxPerTx pending claims go into one transaction.
Chunk == {e \in pending : Cardinality({d \in pending : d < e}) < MaxPerTx}

SendClaim ==
    /\ pc = "claim" /\ pending # {}
    /\ claimPool' = Append(claimPool, Chunk)
    /\ claimRes' = "pool"
    /\ pc' = "claimWait"
    /\ UNCHANGED <<now, cur, priced, lockTs, closeTs, outcome, betTx, userRounds, paid,
                   diskVars, lineVars, started, snap, wake, betVars, passVars, scanVars,
                   historyVars, faults>>

\* Mutant: every claimed epoch is announced, settled or not.
AnnounceAll == Chunk

\* Only what reconcile has settled is announced; the rest is left to it.
Announced == {e \in Chunk : status[e] \in {"SETTLED_WON", "SETTLED_REFUND"}}

ClaimConfirmed ==
    /\ pc = "claimWait" /\ claimRes = "success"
    /\ marking' = Announced
    /\ pending' = pending \ Chunk
    /\ pc' = "alertClaim"
    /\ UNCHANGED <<marketVars, diskVars, lineVars, started, snap, wake, betVars, passVars, edge,
                   historyVars, faults>>

\* Mutant: the reverted chunk is tried again.
RetryReverted ==
    /\ pc = "claimWait" /\ claimRes = "revert"
    /\ pc' = "claim"
    /\ UNCHANGED <<marketVars, diskVars, lineVars, started, snap, wake, betVars, passVars, scanVars,
                   historyVars, faults>>

\* The reverted chunk is passed over; the next chunk is tried.
ClaimReverted ==
    /\ pc = "claimWait" /\ claimRes = "revert"
    /\ excuse' = [e \in Epochs |-> IF e \in Chunk THEN "revert" ELSE excuse[e]]
    /\ pending' = pending \ Chunk
    /\ pc' = "claim"
    /\ UNCHANGED <<marketVars, diskVars, lineVars, started, snap, wake, betVars, passVars, edge,
                   marking, alerts, faults>>

\* Mutant: the cursor never parks.
NeverPark == cursor' = edge

\* The cursor parks at the first pending claim, or moves past the scan.
WriteCursor ==
    IF pending = {} THEN cursor' = edge
    ELSE \E n \in 0 .. Len(userRounds) - 1 :
            userRounds[n + 1] = Min(pending) /\ cursor' = n

\* No receipt in time, or the send caches or the gas cap stop the flush.
StopFlush ==
    /\ \/ pc = "claimWait" /\ Fault("timeout")
       \/ pc = "claim" /\ pending # {} /\ Fault("postpone")
    /\ WriteCursor
    /\ EndScan
    /\ UNCHANGED <<marketVars, status, sized, gas, lineVars, snap, wake, betVars, passVars,
                   marking, historyVars>>

FinishScan ==
    /\ pc = "claim" /\ pending = {}
    /\ WriteCursor
    /\ EndScan
    /\ UNCHANGED <<marketVars, status, sized, gas, lineVars, snap, wake, betVars, passVars,
                   marking, historyVars, faults>>

\* A TransientRpcError leaves the scan before the cursor is written.
ScanFails ==
    /\ pc \in {"scan", "claim", "claimWait"}
    /\ Fault("scan")
    /\ EndScan
    /\ UNCHANGED <<marketVars, diskVars, lineVars, snap, wake, betVars, passVars, marking,
                   historyVars>>

-----------------------------------------------------------------------------
(* live.fire_claim_settled_alerts: refunds one by one, then all the wins.  *)

Refunds == {e \in marking : status[e] = "SETTLED_REFUND"}
Group == IF Refunds # {} THEN {e \in Refunds : \A d \in Refunds : e <= d} ELSE marking

AlertClaim ==
    /\ pc = "alertClaim" /\ marking # {}
    /\ alerts' = [e \in Epochs |->
          IF e \notin Group THEN alerts[e]
          ELSE [alerts[e] EXCEPT ![IF Refunds # {} THEN "REFUND" ELSE "WON"] = @ + 1]]
    /\ pc' = "markClaim"
    /\ UNCHANGED <<marketVars, diskVars, lineVars, started, snap, wake, betVars, passVars,
                   scanVars, excuse, faults>>

\* record_claimed, one epoch of the alert after the other; a failed append is
\* logged and ignored.
MarkClaim ==
    /\ pc = "markClaim"
    /\ \E e \in Group :
        /\ \A d \in Group : e <= d
        /\ \/ Appended /\ status' = [status EXCEPT ![e] = "CLAIMED"]
           \/ (Glued \/ Failed) /\ UNCHANGED status
        /\ marking' = marking \ {e}
    /\ pc' = IF Refunds = {} /\ marking' # {} THEN "markClaim" ELSE "alertClaim"
    /\ UNCHANGED <<marketVars, sized, gas, cursor, started, snap, wake, betVars,
                   passVars, edge, pending, historyVars>>

EndMarking ==
    /\ pc = "alertClaim" /\ marking = {}
    /\ pc' = "claim"
    /\ UNCHANGED <<marketVars, diskVars, lineVars, started, snap, wake, betVars, passVars,
                   scanVars, historyVars, faults>>

-----------------------------------------------------------------------------
(* The specification.                                                      *)

\* Steps the bot takes unless it dies first.
BotStep ==
    \/ Restart \/ Handshake \/ HandshakeExhausted
    \/ ClaimFirst \/ SkipRound \/ SendBet
    \/ WaitReceipt \/ RecordSubmitted \/ RecordConfirmation \/ Wake
    \/ LookUpReceipt \/ RecheckRegistered \/ RecheckUnregistered
    \/ LeaveOpen \/ Settle \/ AlertLost \/ EndReconcile
    \/ NothingToScan \/ ScanRounds \/ SendClaim \/ ClaimConfirmed \/ ClaimReverted
    \/ FinishScan \/ AlertClaim \/ MarkClaim \/ EndMarking

\* Faults.
FaultStep == Crash \/ DeferEpoch \/ StopFlush \/ ScanFails

\* A pause of the contract counts as a fault.
ChainStep ==
    /\ \/ (Tick \/ ExecuteRound \/ GenesisLock \/ MineClaim) /\ UNCHANGED faults
       \/ \E e \in BetEpochs : MineBet(e) /\ UNCHANGED faults
       \/ GenesisStart /\ Fault("pause")
    /\ UNCHANGED <<diskVars, lineVars, pc, started, snap, wake, betVars, passVars, scanVars,
                   historyVars>>

Next == BotStep \/ FaultStep \/ ChainStep

Spec == Init /\ [][Next]_vars

\* The thread is never blocked by anything but a sleep or a receipt wait, and
\* a claim transaction is mined or times out.
FairSpec ==
    /\ Spec
    /\ WF_vars(BotStep)
    /\ WF_vars(MineClaim /\ ChainStep)

-----------------------------------------------------------------------------
(* Properties.                                                             *)

\* What the ledger says of a bet is what the chain did to it, and stays so:
\* a round is never booked as refunded that the oracle may still resolve, and
\* nothing is booked as settled that never registered (reconcile's re-check
\* and its refund gate).
LedgerMatchesChain ==
    \A e \in Epochs :
        /\ status[e] \in {"CONFIRMED"} \cup Settled => Registered(e)
        /\ status[e] = "SETTLED_WON" => outcome[e] = "win"
        /\ status[e] = "SETTLED_LOST" => outcome[e] = "lose"
        /\ status[e] = "SETTLED_REFUND" => outcome[e] = "none"
        /\ status[e] = "CLAIMED" => e \in paid
        /\ status[e] \in {"LATE", "REVERTED"} => Mined(e) /\ ~Registered(e)

\* Money behind the claim cursor is never looked at again, so the scan may
\* only leave it there for the three reasons its code has: the transaction
\* reverted, a call of its batch failed alone, or the round was scanned in the
\* very tick its buffer ran out (claim_scan_cursor, _flush_pending).
NothingLostBehindCursor ==
    \A i \in 1 .. cursor :
        Entitled(userRounds[i]) => excuse[userRounds[i]] # "none"

\* A win or a refund is announced at most once and only when the money is in the
\* wallet, whatever crashes and failed appends come between the record and the
\* alert.  A loss is announced at most once and once more for each line of the
\* ledger that was left in part: the record behind it counts as written, and no
\* reader accepts it (reconcile, _append_record, load_ledger).
SettlementAnnouncedOnce ==
    \A e \in Epochs :
        /\ alerts[e]["LOST"] <= 1 + tears
        /\ alerts[e]["WON"] + alerts[e]["REFUND"] <= 1
        /\ alerts[e]["LOST"] > 0 => outcome[e] = "lose"
        /\ alerts[e]["WON"] > 0 => outcome[e] = "win" /\ e \in paid
        /\ alerts[e]["REFUND"] > 0 => outcome[e] = "none" /\ e \in paid

\* Without a fault, the stake the drawdown check adds back (open_stake_bnb) is
\* complete when the next bet is decided: a stake that left the wallet for a
\* round still undecided is counted, unless its receipt timed out.
InPlayStakeIsCounted ==
    pc = "decide" /\ faults = 0 =>
        \A e \in BetEpochs :
            Registered(e) /\ ~OracleCalled(e) /\ now <= closeTs[e] + Buffer =>
                \/ status[e] = "DROPPED"
                \/ status[e] \in OpenStatuses /\ e \in sized

\* Without a fault, a pass of reconcile and of the claim scan settles every
\* bet and claims all the money that were due when it began.
PassIsComplete ==
    pc = "handshake" /\ started /\ faults = 0 =>
        \A e \in BetEpochs :
            Registered(e) /\ closeTs[e] + Buffer < recNow =>
                e \in paid \/ status[e] = "SETTLED_LOST"

\* A pass that has begun comes to an end: no fault of a call, an append or a
\* claim can hold the loop in reconcile or in the claim scan.
PassEnds == pc = "reconcile" ~> pc \in {"handshake", "decide", "down"}

\* The ledger of LiveBets keeps the promise of BetBook.
Fate(e) ==
    CASE e \in paid -> "paid"
      [] e \notin paid /\ ~Mined(e) -> "unknown"
      [] e \notin paid /\ Mined(e) /\ ~Registered(e) -> "void"
      [] e \notin paid /\ Registered(e) /\ outcome[e] = "win" -> "won"
      [] e \notin paid /\ Registered(e) /\ outcome[e] = "lose" -> "lost"
      [] e \notin paid /\ Registered(e) /\ ~OracleCalled(e) ->
            IF now > closeTs[e] + Buffer THEN "refundable" ELSE "staked"

Entry(e) ==
    CASE status[e] = "absent" -> "none"
      [] status[e] \in OpenStatuses -> "open"
      [] status[e] = "DROPPED" -> "dropped"
      [] status[e] \in {"LATE", "REVERTED"} -> "void"
      [] status[e] = "SETTLED_WON" -> "won"
      [] status[e] = "SETTLED_LOST" -> "lost"
      [] status[e] = "SETTLED_REFUND" -> "refund"
      [] status[e] = "CLAIMED" -> "claimed"

Book == INSTANCE BetBook WITH
            Bets <- Epochs,
            fate <- [e \in Epochs |-> Fate(e)],
            book <- [e \in Epochs |-> Entry(e)]

KeepsBook == Book!Spec

=============================================================================
