-------------------------- MODULE PredictionMarket --------------------------
(***************************************************************************)
(* The chain as the bot sees it: the rounds of the PancakeSwap Prediction  *)
(* V2 contract, the bot's bet and claim transactions in the mempool, and   *)
(* the calls the bot reads them with.  The contract is not part of the     *)
(* repository; every rule here is one that pancakebot/ relies on: the      *)
(* fields of RoundData and the transaction calls (chain/                   *)
(* prediction_contract.py), the settlement rules of settlement.py, and the *)
(* comments of runtime/bet_ledger.py and runtime/live.py on when a stake   *)
(* registers, is claimable and is refundable.                              *)
(*                                                                         *)
(* Time is an integer number of ticks; Interval and Buffer are the         *)
(* contract's intervalSeconds and bufferSeconds in ticks.                  *)
(***************************************************************************)
EXTENDS Integers, Sequences, FiniteSets, FiniteSetsExt

CONSTANTS
    LastEpoch,      \* rounds are 1..LastEpoch (bound of the model)
    LastBetEpoch,   \* the bot may bet on rounds 2..LastBetEpoch
    Interval,       \* intervalSeconds
    Buffer,         \* bufferSeconds
    MaxTime         \* the clock stops here (bound of the model)

ASSUME MarketAssumption ==
    /\ LastEpoch \in Nat /\ LastBetEpoch \in Nat
    /\ 2 <= LastBetEpoch /\ LastBetEpoch <= LastEpoch
    /\ Interval \in Nat /\ Buffer \in Nat /\ MaxTime \in Nat
    /\ 0 < Buffer /\ Buffer < Interval

VARIABLES
    now,        \* block timestamp and (NTP-disciplined) wall clock
    cur,        \* currentEpoch()
    priced,     \* rounds whose lockPrice has been written
    lockTs,     \* rounds(e).lockTimestamp, 0 before the round starts
    closeTs,    \* rounds(e).closeTimestamp, 0 before the round starts
    outcome,    \* oracleCalled and the prices, read for the side the bot took
    betTx,      \* the bot's bet transaction on a round
    userRounds, \* getUserRounds(wallet): rounds in the order of their bets
    paid,       \* rounds whose stake or winnings the wallet has claimed
    claimPool,  \* claim transactions in the mempool, in nonce order
    claimRes    \* fate of the claim transaction the bot sent last

marketVars == <<now, cur, priced, lockTs, closeTs, outcome, betTx,
                userRounds, paid, claimPool, claimRes>>

Epochs == 1 .. LastEpoch
BetEpochs == 2 .. LastBetEpoch

\* "pool": broadcast, not mined (perhaps never); "ok": mined, the stake is in;
\* "late": reverted at or after the lock; "reverted": reverted before it.
TxStates == {"none", "pool", "ok", "late", "reverted"}
Outcomes == {"none", "win", "lose"}
ClaimResults == {"none", "pool", "success", "revert"}

MarketTypeOK ==
    /\ now \in Nat
    /\ cur \in Epochs
    /\ priced \in SUBSET Epochs
    /\ lockTs \in [Epochs -> Nat]
    /\ closeTs \in [Epochs -> Nat]
    /\ outcome \in [Epochs -> Outcomes]
    /\ betTx \in [Epochs -> TxStates]
    /\ userRounds \in Seq(Epochs)
    /\ paid \in SUBSET Epochs
    /\ claimPool \in Seq(SUBSET Epochs)
    /\ claimRes \in ClaimResults

\* Round 1 is locked and round 2 open, the first state epoch_handshake accepts.
MarketInit ==
    /\ now = 0
    /\ cur = 2
    /\ priced = {1}
    /\ lockTs = [e \in Epochs |-> IF e = 2 THEN Interval ELSE 0]
    /\ closeTs = [e \in Epochs |-> IF e = 1 THEN Interval
                                   ELSE IF e = 2 THEN 2 * Interval ELSE 0]
    /\ outcome = [e \in Epochs |-> "none"]
    /\ betTx = [e \in Epochs |-> "none"]
    /\ userRounds = <<>>
    /\ paid = {}
    /\ claimPool = <<>>
    /\ claimRes = "none"

-----------------------------------------------------------------------------
(* What the read calls return.                                             *)

\* ledger(e, wallet).amount > 0, what read_bet_amount returns.
Registered(e) == betTx[e] = "ok"

\* get_transaction_receipt finds the transaction.
Mined(e) == betTx[e] \in {"ok", "late", "reverted"}

OracleCalled(e) == outcome[e] # "none"

\* claimable(e, wallet): the oracle was called and the bot's side won.
Claimable(e) == Registered(e) /\ e \notin paid /\ outcome[e] = "win"

\* refundable(e, wallet): strictly after the close plus the buffer.
Refundable(e) ==
    Registered(e) /\ e \notin paid /\ ~OracleCalled(e) /\ now > closeTs[e] + Buffer

Entitled(e) == Claimable(e) \/ Refundable(e)

\* The snapshot _epoch_handshake accepts: the locked round has its price and
\* the open round is still open.
Coherent == cur - 1 \in priced /\ lockTs[cur] > now

-----------------------------------------------------------------------------
(* The contract's own steps.                                               *)

Tick ==
    /\ now < MaxTime
    /\ now' = now + 1
    /\ UNCHANGED <<cur, priced, lockTs, closeTs, outcome, betTx, userRounds,
                   paid, claimPool, claimRes>>

OpenNext(e) ==
    /\ cur' = e + 1
    /\ lockTs' = [lockTs EXCEPT ![e + 1] = now + Interval]

\* executeRound: locks the open round, ends the locked one, opens the next.
\* Both must happen within the buffer.  Only a round the bot bet on has an
\* outcome that matters.
ExecuteRound ==
    /\ cur < LastEpoch
    /\ cur - 1 \in priced
    /\ lockTs[cur] <= now /\ now <= lockTs[cur] + Buffer
    /\ closeTs[cur - 1] <= now /\ now <= closeTs[cur - 1] + Buffer
    /\ \E o \in IF Registered(cur - 1) THEN {"win", "lose"} ELSE {"lose"} :
          outcome' = [outcome EXCEPT ![cur - 1] = o]
    /\ priced' = priced \cup {cur}
    /\ closeTs' = [closeTs EXCEPT ![cur] = now + Interval,
                                  ![cur + 1] = now + 2 * Interval]
    /\ OpenNext(cur)
    /\ UNCHANGED <<now, betTx, userRounds, paid, claimPool, claimRes>>

\* After a pause the operator opens a fresh round: the two rounds in progress
\* never get an outcome and become refundable.
GenesisStart ==
    /\ cur < LastEpoch
    /\ closeTs' = [closeTs EXCEPT ![cur + 1] = now + 2 * Interval]
    /\ OpenNext(cur)
    /\ UNCHANGED <<now, priced, outcome, betTx, userRounds, paid, claimPool, claimRes>>

\* genesisLockRound: locks the fresh round; there is no earlier one to end.
GenesisLock ==
    /\ cur < LastEpoch
    /\ cur - 1 \notin priced
    /\ lockTs[cur] <= now /\ now <= lockTs[cur] + Buffer
    /\ priced' = priced \cup {cur}
    /\ closeTs' = [closeTs EXCEPT ![cur] = now + Interval,
                                  ![cur + 1] = now + 2 * Interval]
    /\ OpenNext(cur)
    /\ UNCHANGED <<now, outcome, betTx, userRounds, paid, claimPool, claimRes>>

\* A bet transaction is mined.  The stake registers only while its round is
\* open; otherwise the transaction reverts and rolls the stake back.
MineBet(e) ==
    /\ betTx[e] = "pool"
    /\ \/ /\ e = cur /\ now < lockTs[e]
          /\ betTx' = [betTx EXCEPT ![e] = "ok"]
          /\ userRounds' = Append(userRounds, e)
       \/ /\ now < lockTs[e]   \* paused, below the minimum, round replaced ...
          /\ betTx' = [betTx EXCEPT ![e] = "reverted"]
          /\ UNCHANGED userRounds
       \/ /\ now >= lockTs[e]
          /\ betTx' = [betTx EXCEPT ![e] = "late"]
          /\ UNCHANGED userRounds
    /\ UNCHANGED <<now, cur, priced, lockTs, closeTs, outcome, paid, claimPool, claimRes>>

\* claim(epochs) is all or nothing: one epoch that is neither claimable nor
\* refundable reverts the whole transaction.
MineClaim ==
    /\ claimPool # <<>>
    /\ LET ok == \A e \in Head(claimPool) : Entitled(e)
       IN  /\ paid' = IF ok THEN paid \cup Head(claimPool) ELSE paid
           /\ claimRes' = IF Len(claimPool) > 1 THEN claimRes
                          ELSE IF ok THEN "success" ELSE "revert"
    /\ claimPool' = Tail(claimPool)
    /\ UNCHANGED <<now, cur, priced, lockTs, closeTs, outcome, betTx, userRounds>>
=============================================================================
