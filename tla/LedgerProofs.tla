---------------------------- MODULE LedgerProofs ----------------------------
(***************************************************************************)
(* LiveBets is well typed and its bet ledger matches the chain, for every  *)
(* value of the constants.  LedgerMatchesChain is not inductive, LedgerInv *)
(* is.  What has to be added is what the code relies on without saying so: *)
(* a round past its buffer never gets an outcome, what the thread          *)
(* remembers between two calls is behind the chain and not ahead of it,    *)
(* and the claim it waits for is the last one it has sent.                 *)
(*                                                                         *)
(* The ledger also implements BetBook: an entry only moves along the life  *)
(* cycle of bet_ledger.py, and only when the chain bears it out.           *)
(* LedgerInv says what an entry means; the refinement also needs to know   *)
(* where an entry can stand when the thread is about to write it, which is *)
(* what BookInv adds.                                                      *)
(*                                                                         *)
(* The rest is about the settlement path: a claim is announced at most     *)
(* once, and a loss once more for each line of the ledger left in part;    *)
(* money is left behind the claim cursor only for a reason the code has;   *)
(* and as long as nothing fails the stakes in play are counted and a pass  *)
(* settles and claims all that is due.  The first rests on the claim being *)
(* all or nothing and on a loss being announced before another line can be *)
(* left in part, the second on the rounds of the wallet being in the order *)
(* of their bets, the others on the rounds following each other in time.   *)
(***************************************************************************)
EXTENDS LiveBets, SequenceTheorems, TLAPS, WellFoundedInduction, NaturalsInduction

-----------------------------------------------------------------------------
(* Type correctness, the chain's part first.                               *)

\* The initial state of the chain model is well typed.
LEMMA MarketInitTyped == MarketInit => MarketTypeOK
  BY MarketAssumption DEF MarketInit, MarketTypeOK, Epochs, TxStates, Outcomes, ClaimResults

\* Every step of the contract, and the mining of a bet or of a claim, keeps
\* the chain's variables well typed.
LEMMA MarketStepTyped ==
    ASSUME MarketTypeOK,
           \/ Tick \/ ExecuteRound \/ GenesisStart \/ GenesisLock \/ MineClaim
           \/ \E e \in BetEpochs : MineBet(e)
    PROVE  MarketTypeOK'
  <1> USE DEF MarketTypeOK
  <1>1. /\ now + Interval \in Nat /\ now + 2 * Interval \in Nat
        /\ cur < LastEpoch => cur + 1 \in Epochs
        /\ BetEpochs \subseteq Epochs
    BY MarketAssumption DEF Epochs, BetEpochs
  <1>2. CASE Tick
    BY <1>2 DEF Tick
  <1>3. CASE ExecuteRound
    <2>1. PICK o \in {"win", "lose"} : outcome' = [outcome EXCEPT ![cur - 1] = o]
      BY <1>3 DEF ExecuteRound
    <2>2. outcome' \in [Epochs -> Outcomes]
      BY <2>1 DEF Outcomes
    <2>3. priced' \in SUBSET Epochs /\ cur' \in Epochs
      BY <1>1, <1>3 DEF ExecuteRound, OpenNext
    <2>4. lockTs' \in [Epochs -> Nat]
      BY <1>1, <1>3 DEF ExecuteRound, OpenNext
    <2>5. closeTs' \in [Epochs -> Nat]
      BY <1>1, <1>3 DEF ExecuteRound
    <2>6. QED
      BY <1>3, <2>2, <2>3, <2>4, <2>5 DEF ExecuteRound
  <1>4. CASE GenesisStart
    BY <1>1, <1>4 DEF GenesisStart, OpenNext
  <1>5. CASE GenesisLock
    <2>1. priced' \in SUBSET Epochs /\ cur' \in Epochs
      BY <1>1, <1>5 DEF GenesisLock, OpenNext
    <2>2. lockTs' \in [Epochs -> Nat]
      BY <1>1, <1>5 DEF GenesisLock, OpenNext
    <2>3. closeTs' \in [Epochs -> Nat]
      BY <1>1, <1>5 DEF GenesisLock
    <2>4. QED
      BY <1>5, <2>1, <2>2, <2>3 DEF GenesisLock
  <1>6. CASE MineClaim
    <2>1. Head(claimPool) \in SUBSET Epochs /\ Tail(claimPool) \in Seq(SUBSET Epochs)
      BY <1>6 DEF MineClaim
    <2>2. paid' \in SUBSET Epochs
      BY <1>6, <2>1 DEF MineClaim
    <2>3. claimRes' \in ClaimResults
      BY <1>6 DEF MineClaim, ClaimResults
    <2>4. claimPool' \in Seq(SUBSET Epochs)
      BY <1>6, <2>1 DEF MineClaim
    <2>5. UNCHANGED <<now, cur, priced, lockTs, closeTs, outcome, betTx, userRounds>>
      BY <1>6 DEF MineClaim
    <2>6. QED
      BY <2>2, <2>3, <2>4, <2>5
  <1>7. ASSUME NEW e \in BetEpochs, MineBet(e) PROVE MarketTypeOK'
    <2>1. betTx' \in [Epochs -> TxStates]
      BY <1>7 DEF MineBet, TxStates
    <2>2. Append(userRounds, e) \in Seq(Epochs)
      BY <1>1
    <2>3. userRounds' = userRounds \/ userRounds' = Append(userRounds, e)
      BY <1>7 DEF MineBet
    <2>4. QED
      BY <1>7, <2>1, <2>2, <2>3 DEF MineBet
  <1>8. QED
    BY <1>2, <1>3, <1>4, <1>5, <1>6, <1>7

-----------------------------------------------------------------------------
(* Type correctness of the whole specification.                            *)

\* The initial state is well typed.
LEMMA InitTyped == Init => TypeOK
  <1> SUFFICES ASSUME Init PROVE TypeOK
    OBVIOUS
  <1>1. MarketTypeOK
    BY MarketInitTyped DEF Init
  <1>2. 2 \in Epochs
    BY MarketAssumption DEF Epochs
  <1>3. alerts \in [Epochs -> [AlertKinds -> Nat]]
    BY DEF Init
  <1>4. /\ status \in [Epochs -> Statuses] /\ gas \in [Epochs -> GasValues]
        /\ excuse \in [Epochs -> Excuses]
    BY DEF Init, Statuses, GasValues, Excuses
  <1>5. pc \in PCs /\ receipt = "none"
    BY DEF Init, PCs
  <1>6. faults \in 0 .. MaxFaults /\ torn \in BOOLEAN /\ tears \in 0 .. faults
    <2>1. faults = 0 /\ tears = 0
      BY DEF Init
    <2>2. torn \in BOOLEAN
      BY Zenon DEF Init
    <2>3. faults \in 0 .. MaxFaults /\ tears \in 0 .. faults
      BY <2>1, BotAssumption
    <2>4. QED
      BY <2>2, <2>3
  <1>7. QED
    BY <1>1, <1>2, <1>3, <1>4, <1>5, <1>6 DEF Init, TypeOK, Betting, TxStates

\* A step that leaves the chain alone leaves its variables well typed.
LEMMA MarketUnchangedTyped ==
    ASSUME MarketTypeOK, UNCHANGED marketVars
    PROVE  MarketTypeOK'
  BY DEF MarketTypeOK, marketVars

\* The last line of the ledger, and the faults and the lines left in part so far.
LinesTyped == faults \in 0 .. MaxFaults /\ torn \in BOOLEAN /\ tears \in 0 .. faults

\* A fault that may leave a line in part.
Stumbled ==
    /\ faults' = faults + 1 /\ faults < MaxFaults
    /\ UNCHANGED <<torn, tears>> \/ Cut

\* A step leaves the last line alone, ends it or leaves it in part; only a fault
\* does the last.
LinesMove == UNCHANGED <<torn, tears, faults>> \/ Glued \/ Stumbled

\* The clock, the rounds and the mempool are the chain's: a step of it leaves
\* the bot's part of the type invariant alone.
LEMMA ChainStepTyped == ASSUME TypeOK, ChainStep PROVE TypeOK'
  <1>1. MarketTypeOK'
    BY MarketStepTyped DEF TypeOK, ChainStep
  <1>2. UNCHANGED <<diskVars, lineVars, pc, started, snap, wake, betVars, passVars, scanVars,
                    historyVars>>
    BY DEF ChainStep
  <1>3. faults' = faults \/ (faults' = faults + 1 /\ faults < MaxFaults)
    BY Zenon DEF ChainStep, Fault
  <1>4. LinesTyped'
    <2>1. LinesTyped /\ UNCHANGED <<torn, tears>>
      BY <1>2 DEF TypeOK, LinesTyped, lineVars
    <2>2. QED
      BY <1>3, <2>1, BotAssumption DEF LinesTyped
  <1>5. QED
    BY <1>1, <1>2, <1>4
    DEF TypeOK, Betting, LinesTyped, diskVars, betVars, passVars, scanVars, historyVars

\* Every step of the bot and every fault moves the last line as LinesMove says.
LEMMA BotMovesLines == ASSUME BotStep \/ FaultStep PROVE LinesMove
  <1>0. /\ \A k : Fault(k) => faults' = faults + 1 /\ faults < MaxFaults
        /\ Appended => UNCHANGED <<torn, tears, faults>>
        /\ Failed => Stumbled
    BY DEF Fault, Appended, Failed, Stumbled, lineVars
  <1>1. CASE \/ Restart \/ Handshake \/ HandshakeExhausted \/ ClaimFirst \/ SkipRound \/ SendBet
             \/ WaitReceipt \/ Wake \/ LookUpReceipt \/ LeaveOpen \/ AlertLost \/ EndReconcile
             \/ NothingToScan \/ SendClaim \/ ClaimConfirmed \/ ClaimReverted \/ FinishScan
             \/ AlertClaim \/ EndMarking
    <2>1. UNCHANGED <<torn, tears, faults>>
      BY <1>1 DEF Restart, Handshake, HandshakeExhausted, ClaimFirst, SkipRound, SendBet,
         WaitReceipt, Wake, LookUpReceipt, LeaveOpen, AlertLost, EndReconcile, NothingToScan,
         SendClaim, ClaimConfirmed, ClaimReverted, FinishScan, AlertClaim, EndMarking, lineVars
    <2>2. QED
      BY <2>1 DEF LinesMove
  <1>2. CASE ScanRounds
    <2>1. UNCHANGED <<torn, tears>> /\ (UNCHANGED faults \/ Fault("partial"))
      BY <1>2 DEF ScanRounds, lineVars
    <2>2. QED
      BY <1>0, <2>1 DEF LinesMove, Stumbled
  <1>3. CASE \/ RecordSubmitted \/ RecordConfirmation \/ RecheckRegistered
             \/ RecheckUnregistered \/ Settle \/ MarkClaim
    <2>1. Appended \/ Glued \/ Failed \/ UNCHANGED <<lineVars, faults>>
      BY <1>3 DEF RecordSubmitted, RecordConfirmation, RecheckRegistered, RecheckUnregistered,
         Settle, MarkClaim
    <2>2. QED
      BY <1>0, <2>1 DEF LinesMove, lineVars
  <1>4. CASE FaultStep
    <2>1. (\E k : Fault(k)) /\ (UNCHANGED lineVars \/ Cut)
      BY <1>4 DEF FaultStep, Crash, DeferEpoch, Failed, StopFlush, ScanFails
    <2>2. QED
      BY <1>0, <2>1 DEF LinesMove, Stumbled, lineVars
  <1>5. QED
    BY <1>1, <1>2, <1>3, <1>4 DEF BotStep

\* Every step of the bot and every fault keeps the types.
LEMMA BotStepTyped == ASSUME TypeOK, BotStep \/ FaultStep PROVE TypeOK'
  <1>l. LinesTyped'
    <2>1. LinesTyped /\ LinesMove
      BY BotMovesLines DEF TypeOK, LinesTyped
    <2>2. CASE UNCHANGED <<torn, tears, faults>> \/ Glued
      BY <2>1, <2>2 DEF LinesTyped, Glued
    <2>3. CASE Stumbled
      <3>1. /\ faults' = faults + 1 /\ faults < MaxFaults
            /\ torn' \in BOOLEAN /\ tears' \in {tears, tears + 1}
        BY <2>1, <2>3, Zenon DEF LinesTyped, Stumbled, Cut
      <3>2. QED
        BY <2>1, <3>1, BotAssumption DEF LinesTyped
    <2>4. QED
      BY <2>1, <2>2, <2>3 DEF LinesMove
  <1>m. faults' \in 0 .. MaxFaults /\ torn' \in BOOLEAN /\ tears' \in 0 .. faults'
    BY <1>l DEF LinesTyped
  <1> USE DEF TypeOK, Betting, diskVars, betVars, passVars, scanVars, historyVars
  <1>a. /\ 2 \in Epochs /\ cur \in Epochs /\ snap \in Epochs /\ now \in Nat
        /\ snap - 1 \in Nat /\ (snap > 2 => snap - 2 \in Nat)
        /\ BetEpochs \subseteq Epochs
    BY MarketAssumption DEF MarketTypeOK, Epochs, BetEpochs
  <1>c. Examined \subseteq Epochs /\ Chunk \subseteq Epochs
    BY DEF Examined, Chunk
  <1>d. ASSUME UNCHANGED marketVars PROVE MarketTypeOK'
    BY <1>d, MarketUnchangedTyped
  <1>1. CASE Restart
    BY <1>a, <1>c, <1>d, <1>m, <1>1 DEF Restart, PCs
  <1>2. CASE Handshake
    BY <1>a, <1>c, <1>d, <1>m, <1>2 DEF Handshake, StartReconcile, PCs
  <1>3. CASE HandshakeExhausted
    BY <1>a, <1>c, <1>d, <1>m, <1>3 DEF HandshakeExhausted, ForgetMemory, PCs, TxStates
  <1>4. CASE ClaimFirst
    BY <1>a, <1>c, <1>d, <1>m, <1>4 DEF ClaimFirst, SleepUntilClaim, PCs
  <1>5. CASE SkipRound
    BY <1>a, <1>c, <1>d, <1>m, <1>5 DEF SkipRound, SleepUntilClaim, PCs
  <1>6. CASE SendBet
    <2>1. betTx' \in [Epochs -> TxStates] /\ bet' = snap
      BY <1>a, <1>6 DEF SendBet, MarketTypeOK, TxStates
    <2>2. MarketTypeOK'
      BY <1>6, <2>1 DEF SendBet, MarketTypeOK
    <2>3. pc' \in PCs
      BY <1>6 DEF SendBet, PCs
    <2>4. QED
      BY <1>6, <1>m, <2>1, <2>2, <2>3 DEF SendBet
  <1>7. CASE WaitReceipt
    <2>1. receipt' \in TxStates \ {"pool"}
      BY <1>7 DEF WaitReceipt, Mined, TxStates
    <2>2. pc' \in PCs
      BY <1>7 DEF WaitReceipt, PCs
    <2>3. QED
      BY <1>7, <1>d, <1>m, <2>1, <2>2 DEF WaitReceipt
  <1>8. CASE RecordSubmitted
    <2>1. status' \in [Epochs -> Statuses] /\ gas' \in [Epochs -> GasValues]
      BY <1>8 DEF RecordSubmitted, Statuses, GasValues
    <2>2. sized' \in SUBSET Epochs
      BY <1>8 DEF RecordSubmitted
    <2>3. pc = "submitted" /\ pc' = "classify"
      BY <1>8 DEF RecordSubmitted
    <2>4. UNCHANGED <<marketVars, cursor, started, snap, wake, betVars, passVars, scanVars,
                      historyVars>>
      BY <1>8 DEF RecordSubmitted
    <2>5. MarketTypeOK' /\ pc' \in PCs /\ bet' \in IF pc' \in Betting THEN Epochs ELSE {0}
      BY <1>d, <2>3, <2>4 DEF PCs
    <2>6. /\ cursor' \in Nat /\ started' \in BOOLEAN /\ snap' \in Epochs /\ wake' \in Nat
          /\ receipt' \in TxStates \ {"pool"}
      BY <2>4
    <2>7. /\ todo' \in SUBSET Epochs /\ recNow' \in Nat /\ seen' \in BOOLEAN
          /\ edge' \in Nat /\ pending' \in SUBSET Epochs /\ marking' \in SUBSET Epochs
          /\ alerts' \in [Epochs -> [AlertKinds -> Nat]] /\ excuse' \in [Epochs -> Excuses]
      BY <2>4
    <2>8. QED
      BY <1>m, <2>1, <2>2, <2>5, <2>6, <2>7
  <1>9. CASE RecordConfirmation
    <2>1. Classify(receipt) \in Statuses
      BY DEF Classify, Statuses, TxStates
    <2>2. status' \in [Epochs -> Statuses] /\ gas' \in [Epochs -> GasValues]
      <3>1. \/ /\ status' = [status EXCEPT ![bet] = Classify(receipt)]
               /\ \E g \in {"null", "paid"} : gas' = [gas EXCEPT ![bet] = g]
            \/ UNCHANGED <<status, gas>>
        BY <1>9 DEF RecordConfirmation
      <3>2. QED
        BY <2>1, <3>1 DEF GasValues
    <2>3. pc' = "asleep" /\ wake' \in Nat /\ bet' = 0 /\ receipt' = "none"
      BY <1>a, <1>9 DEF RecordConfirmation, SleepUntilClaim, TxStates
    <2>4. UNCHANGED <<marketVars, sized, cursor, started, snap, passVars, scanVars, historyVars>>
      BY <1>9 DEF RecordConfirmation
    <2>5. QED
      BY <1>d, <1>m, <2>2, <2>3, <2>4 DEF PCs, TxStates
  <1>10. CASE Wake
    BY <1>a, <1>c, <1>d, <1>m, <1>10 DEF Wake, StartReconcile, PCs
  <1>11. CASE LookUpReceipt
    <2>1. seen' \in BOOLEAN
      BY <1>11 DEF LookUpReceipt, Mined
    <2>2. QED
      BY <1>11, <1>d, <1>m, <2>1 DEF LookUpReceipt, PCs
  <1>12. CASE RecheckRegistered
    BY <1>a, <1>c, <1>d, <1>m, <1>12 DEF RecheckRegistered, Statuses, GasValues, PCs
  <1>13. CASE RecheckUnregistered
    BY <1>a, <1>c, <1>d, <1>m, <1>13 DEF RecheckUnregistered, Statuses, GasValues, PCs, NextEpoch
  <1>14. CASE LeaveOpen
    BY <1>a, <1>c, <1>d, <1>m, <1>14 DEF LeaveOpen, Settling, NextEpoch, PCs
  <1>15. CASE Settle
    <2>1. Settlement(This) \in Statuses \/ This \notin Epochs
      BY DEF Settlement, Statuses, MarketTypeOK, Outcomes
    <2>2. status' \in [Epochs -> Statuses]
      BY <1>15, <2>1 DEF Settle
    <2>3. pc' \in PCs \ Betting /\ pc \notin Betting /\ todo' \in SUBSET Epochs
      BY <1>15 DEF Settle, Settling, NextEpoch, PCs
    <2>4. QED
      BY <1>15, <1>d, <1>m, <2>2, <2>3 DEF Settle
  <1>16. CASE AlertLost
    <2>1. alerts' \in [Epochs -> [AlertKinds -> Nat]]
      <3>1. ASSUME This \in Epochs
            PROVE  [alerts[This] EXCEPT !["LOST"] = @ + 1] \in [AlertKinds -> Nat]
        BY <3>1 DEF AlertKinds
      <3>2. alerts' = [alerts EXCEPT ![This] = [alerts[This] EXCEPT !["LOST"] = @ + 1]]
        BY <1>16 DEF AlertLost
      <3>3. QED
        BY <3>1, <3>2
    <2>2. QED
      BY <1>16, <1>d, <1>m, <2>1 DEF AlertLost, NextEpoch, PCs
  <1>17. CASE EndReconcile
    BY <1>a, <1>c, <1>d, <1>m, <1>17 DEF EndReconcile, PCs
  <1>18. CASE NothingToScan
    BY <1>a, <1>c, <1>d, <1>m, <1>18 DEF NothingToScan, EndScan, PCs
  <1>19. CASE ScanRounds
    <2>1. PICK n \in cursor .. Len(userRounds),
             blind \in SUBSET {userRounds[i] : i \in cursor + 1 .. Len(userRounds)},
             mute \in SUBSET {userRounds[i] : i \in cursor + 1 .. Len(userRounds)} :
                /\ edge' = n
                /\ pending' = {e \in {userRounds[i] : i \in cursor + 1 .. n} \ mute : Entitled(e)}
      BY <1>19 DEF ScanRounds
    <2>2. excuse' \in [Epochs -> Excuses]
      BY <1>19 DEF ScanRounds, Excuses
    <2>3. edge' \in Nat
      <3>1. Len(userRounds) \in Nat
        BY DEF MarketTypeOK
      <3>2. QED
        BY <2>1, <3>1
    <2>4. \A i \in cursor + 1 .. n : userRounds[i] \in Epochs
      BY <2>1 DEF MarketTypeOK
    <2>5. pending' \in SUBSET Epochs
      BY <2>1, <2>4
    <2>6. QED
      BY <1>19, <1>d, <1>m, <2>2, <2>3, <2>5 DEF ScanRounds, PCs
  <1>20. CASE SendClaim
    <2>1. claimPool' \in Seq(SUBSET Epochs)
      BY <1>c, <1>20 DEF SendClaim, MarketTypeOK
    <2>2. MarketTypeOK'
      BY <1>20, <2>1 DEF SendClaim, MarketTypeOK, ClaimResults
    <2>3. QED
      BY <1>20, <1>m, <2>2 DEF SendClaim, PCs
  <1>21. CASE ClaimConfirmed
    <2>1. marking' \in SUBSET Epochs /\ pending' \in SUBSET Epochs
      BY <1>21, <1>c DEF ClaimConfirmed, Announced
    <2>2. QED
      BY <1>21, <1>d, <1>m, <2>1 DEF ClaimConfirmed, PCs
  <1>22. CASE ClaimReverted
    <2>1. excuse' \in [Epochs -> Excuses]
      BY <1>22 DEF ClaimReverted, Excuses
    <2>2. QED
      BY <1>22, <1>d, <1>m, <2>1 DEF ClaimReverted, PCs
  <1>23. CASE FinishScan
    <2>1. cursor' \in Nat /\ pc' \in PCs
      BY <1>23 DEF FinishScan, WriteCursor, EndScan, PCs
    <2>2. QED
      BY <1>23, <1>d, <1>m, <2>1 DEF FinishScan, EndScan
  <1>24. CASE AlertClaim
    <2>1. alerts' \in [Epochs -> [AlertKinds -> Nat]]
      <3>1. ASSUME NEW e \in Epochs, NEW k \in AlertKinds
            PROVE  [alerts[e] EXCEPT ![k] = @ + 1] \in [AlertKinds -> Nat]
        OBVIOUS
      <3>2. QED
        BY <1>24, <3>1 DEF AlertClaim, AlertKinds
    <2>2. QED
      BY <1>24, <1>d, <1>m, <2>1 DEF AlertClaim, PCs
  <1>25. CASE MarkClaim
    <2>1. status' \in [Epochs -> Statuses] /\ marking' \in SUBSET Epochs
      BY <1>25 DEF MarkClaim, Statuses
    <2>2. pc' \in PCs \ Betting /\ pc \notin Betting
      BY <1>25 DEF MarkClaim, PCs
    <2>3. QED
      BY <1>25, <1>d, <1>m, <2>1, <2>2 DEF MarkClaim
  <1>26. CASE EndMarking
    BY <1>a, <1>c, <1>d, <1>m, <1>26 DEF EndMarking, PCs
  <1>27. CASE Crash
    BY <1>27, <1>a, <1>d, <1>m DEF Crash, ForgetMemory, PCs, TxStates
  <1>28. CASE DeferEpoch
    BY <1>28, <1>a, <1>d, <1>m DEF DeferEpoch, NextEpoch, PCs
  <1>29. CASE StopFlush
    <2>1. cursor' \in Nat /\ pc' \in PCs
      BY <1>29 DEF StopFlush, WriteCursor, EndScan, PCs
    <2>2. QED
      BY <1>29, <1>d, <1>m, <2>1 DEF StopFlush, EndScan
  <1>30. CASE ScanFails
    BY <1>30, <1>a, <1>d, <1>m DEF ScanFails, EndScan, PCs
  <1>31. QED
    BY <1>1, <1>2, <1>3, <1>4, <1>5, <1>6, <1>7, <1>8, <1>9, <1>10,
       <1>11, <1>12, <1>13, <1>14, <1>15, <1>16, <1>17, <1>18, <1>19,
       <1>20, <1>21, <1>22, <1>23, <1>24, <1>25, <1>26, <1>27, <1>28,
       <1>29, <1>30
    DEF BotStep, FaultStep

\* Every variable of the bot, of its files and of the chain keeps its type,
\* whatever the faults and the interleaving.
THEOREM TypeCorrect == Spec => []TypeOK
  <1>1. TypeOK /\ [Next]_vars => TypeOK'
    <2> SUFFICES ASSUME TypeOK, [Next]_vars PROVE TypeOK'
      OBVIOUS
    <2>1. CASE Next
      BY <2>1, BotStepTyped, ChainStepTyped DEF Next
    <2>2. CASE UNCHANGED vars
      BY <2>2, MarketUnchangedTyped
         DEF TypeOK, Betting, vars, diskVars, lineVars, betVars, passVars, scanVars, historyVars
    <2>3. QED
      BY <2>1, <2>2
  <1>2. QED
    BY InitTyped, <1>1, PTL DEF Spec

-----------------------------------------------------------------------------
(* The ledger and the chain.                                               *)

\* The rounds in progress have no outcome, the rounds to come no bet, and the
\* open round closes one interval after its lock.
RoundsInv ==
    /\ cur >= 2
    /\ closeTs[cur] = lockTs[cur] + Interval
    /\ \A e \in Epochs : e >= cur - 1 => outcome[e] = "none"
    /\ \A e \in Epochs : e > cur => betTx[e] = "none"

\* What the thread remembers is behind the chain, never ahead of it: the open
\* round, the time, the receipt of the bet and the entry being settled.
MemoryInv ==
    /\ snap <= cur
    /\ recNow <= now
    /\ receipt # "none" => pc \in Betting /\ receipt = betTx[bet]
    /\ pc = "settle" /\ This \in Epochs => Registered(This)

\* The claim being waited for is the last one of the mempool until it is
\* mined, and what is marked after it has been paid.
ClaimInv ==
    /\ marking \subseteq paid
    /\ pc = "claimWait" =>
          /\ claimRes = "pool" => claimPool # <<>> /\ claimPool[Len(claimPool)] = Chunk
          /\ claimRes # "pool" => claimPool = <<>>
          /\ claimRes = "success" => Chunk \subseteq paid

\* A round booked as refunded is past the time its oracle may be called.
RefundsAreFinal ==
    \A e \in Epochs : status[e] = "SETTLED_REFUND" => now > closeTs[e] + Buffer

LedgerInv ==
    RoundsInv /\ MemoryInv /\ ClaimInv /\ RefundsAreFinal /\ LedgerMatchesChain

-----------------------------------------------------------------------------
(* The initial state and the steps of the chain.                           *)

\* Nothing is recorded, remembered or claimed at the start.
LEMMA InitLedger == Init => LedgerInv
  <1> SUFFICES ASSUME Init PROVE LedgerInv
    OBVIOUS
  <1>1. RoundsInv
    BY MarketAssumption DEF Init, MarketInit, RoundsInv, Epochs
  <1>2. MemoryInv /\ ClaimInv
    BY DEF Init, MarketInit, MemoryInv, ClaimInv
  <1>3. RefundsAreFinal /\ LedgerMatchesChain
    BY DEF Init, RefundsAreFinal, LedgerMatchesChain, Settled
  <1>4. QED
    BY <1>1, <1>2, <1>3 DEF LedgerInv

\* A step of the chain changes nothing the ledger has settled: a round past
\* its buffer gets no outcome, a registered stake stays, a payment stays.
LEMMA ChainStepLedger == ASSUME TypeOK, LedgerInv, ChainStep PROVE LedgerInv'
  <1> DEFINE botVars == <<diskVars, pc, started, snap, wake, betVars, passVars, scanVars>>
  <1> USE DEF diskVars, betVars, passVars, scanVars
  <1>1. UNCHANGED botVars
    BY DEF ChainStep, historyVars
  <1>2. /\ now \in Nat /\ cur \in Epochs /\ Epochs = 1 .. LastEpoch /\ LastEpoch \in Nat
        /\ lockTs \in [Epochs -> Nat] /\ closeTs \in [Epochs -> Nat]
        /\ betTx \in [Epochs -> TxStates] /\ outcome \in [Epochs -> Outcomes]
        /\ paid \subseteq Epochs /\ claimPool \in Seq(SUBSET Epochs)
        /\ claimRes \in ClaimResults /\ status \in [Epochs -> Statuses]
        /\ snap \in Epochs /\ recNow \in Nat /\ Interval \in Nat /\ Buffer \in Nat /\ Buffer > 0
        /\ Interval > Buffer
    BY MarketAssumption DEF TypeOK, MarketTypeOK, Epochs
  <1>2a. Len(claimPool) \in Nat /\ (claimPool # <<>> => Len(claimPool) > 0) /\ Len(<<>>) = 0
    <2>1. claimPool \in Seq(SUBSET Epochs)
      BY <1>2
    <2>2. QED
      BY <2>1, EmptySeq, LenProperties
  <1>3. RoundsInv /\ MemoryInv /\ ClaimInv /\ RefundsAreFinal /\ LedgerMatchesChain
    BY DEF LedgerInv
  <1>4. This' = This /\ Chunk' = Chunk
    BY <1>1 DEF This, Chunk
  <1>4a. ASSUME NEW e \in Epochs, status[e] = "SETTLED_REFUND"
         PROVE  e <= cur /\ now > closeTs[e] + Buffer /\ (e = cur => now > lockTs[cur] + Buffer)
    <2>1. now > closeTs[e] + Buffer /\ betTx[e] = "ok"
      BY <1>3, <1>4a DEF RefundsAreFinal, LedgerMatchesChain, Settled, Registered
    <2>2. e <= cur
      BY <1>2, <1>3, <2>1 DEF RoundsInv
    <2>3. e = cur => now > lockTs[cur] + Buffer
      BY <1>2, <1>3, <2>1 DEF RoundsInv
    <2>4. QED
      BY <2>1, <2>2, <2>3
  <1>5. ASSUME UNCHANGED <<betTx, outcome, closeTs, paid>>, now' >= now, now' \in Nat
        PROVE  RefundsAreFinal' /\ LedgerMatchesChain'
    BY <1>1, <1>2, <1>3, <1>5 DEF RefundsAreFinal, LedgerMatchesChain, Registered, Mined
  <1>6. ASSUME UNCHANGED betTx, cur' >= cur, cur' \in Epochs, now' >= now, now' \in Nat
        PROVE  MemoryInv'
    BY <1>1, <1>2, <1>3, <1>4, <1>6 DEF MemoryInv, Registered
  <1>7. ASSUME UNCHANGED <<paid, claimPool, claimRes>> PROVE ClaimInv'
    BY <1>1, <1>3, <1>4, <1>7 DEF ClaimInv
  <1>8. ASSUME cur < LastEpoch, OpenNext(cur), closeTs'[cur + 1] = now + 2 * Interval
        PROVE  cur + 1 \in Epochs /\ cur' = cur + 1 /\ closeTs'[cur'] = lockTs'[cur'] + Interval
    BY <1>2, <1>8 DEF OpenNext
  <1>9. CASE Tick
    <2>1. UNCHANGED <<cur, lockTs, closeTs, outcome, betTx, paid, claimPool, claimRes>> /\ now' = now + 1
      BY <1>9 DEF Tick
    <2>2. RoundsInv'
      BY <1>3, <2>1 DEF RoundsInv
    <2>3. QED
      BY <1>2, <1>5, <1>6, <1>7, <2>1, <2>2 DEF LedgerInv
  <1>10. CASE ExecuteRound
    <2>1. /\ cur < LastEpoch /\ now <= lockTs[cur] + Buffer /\ now <= closeTs[cur - 1] + Buffer
          /\ closeTs' = [closeTs EXCEPT ![cur] = now + Interval, ![cur + 1] = now + 2 * Interval]
          /\ OpenNext(cur) /\ UNCHANGED <<now, betTx, paid, claimPool, claimRes>>
      BY <1>10 DEF ExecuteRound
    <2>2. PICK o \in {"win", "lose"} : outcome' = [outcome EXCEPT ![cur - 1] = o]
      BY <1>10 DEF ExecuteRound
    <2>3. /\ cur + 1 \in Epochs /\ cur' = cur + 1
          /\ closeTs'[cur + 1] = now + 2 * Interval
          /\ closeTs'[cur'] = lockTs'[cur'] + Interval
      BY <1>2, <1>8, <2>1 DEF OpenNext
    <2>4. RoundsInv'
      <3>1. \A e \in Epochs : e >= cur' - 1 => outcome'[e] = "none"
        BY <1>2, <1>3, <2>2, <2>3 DEF RoundsInv
      <3>2. \A e \in Epochs : e > cur' => betTx'[e] = "none"
        BY <1>2, <1>3, <2>1, <2>3 DEF RoundsInv
      <3>3. QED
        BY <1>2, <1>3, <2>3, <3>1, <3>2 DEF RoundsInv
    <2>5. \A e \in Epochs : status[e] = "SETTLED_REFUND" => e < cur - 1
      <3>1. ASSUME NEW e \in Epochs, status[e] = "SETTLED_REFUND" PROVE e < cur - 1
        <4>1. e <= cur /\ now > closeTs[e] + Buffer /\ (e = cur => now > lockTs[cur] + Buffer)
          BY <1>4a, <3>1
        <4>2. e # cur
          BY <1>2, <2>1, <4>1
        <4>3. e # cur - 1
          <5>1. now <= closeTs[cur - 1] + Buffer
            BY <2>1
          <5>2. e = cur - 1 => closeTs[e] = closeTs[cur - 1] /\ closeTs[e] \in Nat
            BY <1>2
          <5>3. QED
            BY <1>2, <4>1, <5>1, <5>2
        <4>4. QED
          BY <1>2, <4>1, <4>2, <4>3
      <3>2. QED
        BY <3>1
    <2>6. RefundsAreFinal'
      BY <1>1, <1>2, <1>3, <2>1, <2>5 DEF RefundsAreFinal
    <2>7. \A e \in Epochs : status[e] \in Settled => e # cur - 1
      BY <1>2, <1>3, <2>5 DEF RoundsInv, LedgerMatchesChain, Settled
    <2>8. LedgerMatchesChain'
      BY <1>1, <1>2, <1>3, <2>1, <2>2, <2>7 DEF LedgerMatchesChain, Registered, Mined, Settled
    <2>9. QED
      BY <1>2, <1>6, <1>7, <2>1, <2>3, <2>4, <2>6, <2>8 DEF LedgerInv
  <1>11. CASE GenesisStart
    <2>1. /\ cur < LastEpoch /\ closeTs' = [closeTs EXCEPT ![cur + 1] = now + 2 * Interval]
          /\ OpenNext(cur) /\ UNCHANGED <<now, outcome, betTx, paid, claimPool, claimRes>>
      BY <1>11 DEF GenesisStart
    <2>2. /\ cur + 1 \in Epochs /\ cur' = cur + 1
          /\ closeTs'[cur'] = lockTs'[cur'] + Interval
      BY <1>2, <1>8, <2>1 DEF OpenNext
    <2>3. RoundsInv'
      BY <1>2, <1>3, <2>1, <2>2 DEF RoundsInv
    <2>4. RefundsAreFinal'
      <3>1. \A e \in Epochs : status[e] = "SETTLED_REFUND" => closeTs'[e] = closeTs[e]
        BY <1>2, <1>4a, <2>1
      <3>2. QED
        BY <1>1, <1>3, <2>1, <3>1 DEF RefundsAreFinal
    <2>5. LedgerMatchesChain'
      BY <1>1, <1>3, <2>1 DEF LedgerMatchesChain, Registered, Mined
    <2>6. QED
      BY <1>2, <1>6, <1>7, <2>1, <2>2, <2>3, <2>4, <2>5 DEF LedgerInv
  <1>12. CASE GenesisLock
    <2>1. /\ cur < LastEpoch /\ now <= lockTs[cur] + Buffer
          /\ closeTs' = [closeTs EXCEPT ![cur] = now + Interval, ![cur + 1] = now + 2 * Interval]
          /\ OpenNext(cur) /\ UNCHANGED <<now, outcome, betTx, paid, claimPool, claimRes>>
      BY <1>12 DEF GenesisLock
    <2>2. /\ cur + 1 \in Epochs /\ cur' = cur + 1
          /\ closeTs'[cur + 1] = now + 2 * Interval
          /\ closeTs'[cur'] = lockTs'[cur'] + Interval
      BY <1>2, <1>8, <2>1 DEF OpenNext
    <2>3. RoundsInv'
      BY <1>2, <1>3, <2>1, <2>2, SMTT(30) DEF RoundsInv
    <2>4. \A e \in Epochs : status[e] = "SETTLED_REFUND" => e < cur
      BY <1>2, <1>4a, <2>1
    <2>5. RefundsAreFinal'
      BY <1>1, <1>2, <1>3, <2>1, <2>4 DEF RefundsAreFinal
    <2>6. LedgerMatchesChain'
      BY <1>1, <1>3, <2>1 DEF LedgerMatchesChain, Registered, Mined
    <2>7. QED
      BY <1>2, <1>6, <1>7, <2>1, <2>2, <2>3, <2>5, <2>6 DEF LedgerInv
  <1>13. ASSUME NEW e \in BetEpochs, MineBet(e) PROVE LedgerInv'
    <2>1. /\ e \in Epochs /\ betTx[e] = "pool"
          /\ \E r \in {"ok", "reverted", "late"} : betTx' = [betTx EXCEPT ![e] = r]
          /\ UNCHANGED <<now, cur, lockTs, closeTs, outcome, paid, claimPool, claimRes>>
      BY <1>13, MarketAssumption DEF MineBet, BetEpochs, Epochs
    <2>2. RoundsInv'
      BY <1>2, <1>3, <2>1 DEF RoundsInv
    <2>3. MemoryInv'
      BY <1>1, <1>2, <1>3, <1>4, <2>1 DEF MemoryInv, TypeOK, Registered
    <2>4. RefundsAreFinal'
      BY <1>1, <1>3, <2>1 DEF RefundsAreFinal
    <2>5. LedgerMatchesChain'
      <3>1. \A d \in Epochs : /\ Registered(d) => Registered(d)' /\ Mined(d)
                              /\ Mined(d) => Mined(d)' /\ (Registered(d)' => Registered(d))
        BY <1>2, <2>1 DEF Registered, Mined
      <3>2. QED
        BY <1>1, <1>3, <2>1, <3>1 DEF LedgerMatchesChain
    <2>6. QED
      BY <1>7, <2>1, <2>2, <2>3, <2>4, <2>5 DEF LedgerInv
  <1>14. CASE MineClaim
    <2>1. /\ claimPool # <<>> /\ claimPool' = Tail(claimPool)
          /\ UNCHANGED <<now, cur, lockTs, closeTs, outcome, betTx>>
      BY <1>14 DEF MineClaim
    <2>2. /\ paid' = paid \/ paid' = paid \cup Head(claimPool)
          /\ Len(claimPool) > 1 => claimRes' = claimRes
          /\ ~(Len(claimPool) > 1) => \/ claimRes' = "success" /\ paid' = paid \cup Head(claimPool)
                                     \/ claimRes' = "revert"
      BY <1>14 DEF MineClaim
    <2>3. RoundsInv'
      BY <1>3, <2>1 DEF RoundsInv
    <2>4. MemoryInv'
      BY <1>2, <1>6, <2>1
    <2>5. RefundsAreFinal' /\ LedgerMatchesChain'
      BY <1>1, <1>2, <1>3, <2>1, <2>2 DEF RefundsAreFinal, LedgerMatchesChain, Registered, Mined
    <2>6. ASSUME pc = "claimWait"
          PROVE  /\ claimRes' = "pool" => claimPool' # <<>> /\ claimPool'[Len(claimPool')] = Chunk
                 /\ claimRes' # "pool" => claimPool' = <<>>
                 /\ claimRes' = "success" => Chunk \subseteq paid'
      <3>1. claimRes = "pool" /\ claimPool[Len(claimPool)] = Chunk
        BY <1>3, <2>1, <2>6 DEF ClaimInv
      <3>2. CASE Len(claimPool) > 1
        <4>1. Len(Tail(claimPool)) = Len(claimPool) - 1 /\ Len(claimPool) \in Nat
          BY <1>2, <2>1, HeadTailProperties
        <4>2. Tail(claimPool)[Len(Tail(claimPool))] = claimPool[Len(claimPool)]
          BY <1>2, <2>1, <3>2, <4>1, HeadTailProperties
        <4>3. Tail(claimPool) # <<>>
          <5>1. Len(Tail(claimPool)) # 0
            BY <1>2a, <2>1, <3>2, <4>1
          <5>2. QED
            BY <1>2a, <5>1, Zenon
        <4>4. QED
          BY <2>1, <2>2, <3>1, <3>2, <4>2, <4>3
      <3>3. CASE ~(Len(claimPool) > 1)
        <4>1. Len(claimPool) = 1 /\ Head(claimPool) = Chunk /\ claimPool' = <<>>
          <5>1. Len(claimPool) = 1
            BY <1>2a, <2>1, <3>3
          <5>2. Len(Tail(claimPool)) = 0 /\ Tail(claimPool) \in Seq(SUBSET Epochs)
            BY <1>2, <2>1, <5>1, HeadTailProperties
          <5>3. QED
            BY <2>1, <3>1, <5>1, <5>2
        <4>2. QED
          BY <2>2, <3>3, <4>1
      <3>4. QED
        BY <3>2, <3>3
    <2>7. ClaimInv'
      BY <1>1, <1>3, <1>4, <2>2, <2>6 DEF ClaimInv
    <2>8. QED
      BY <2>3, <2>4, <2>5, <2>7 DEF LedgerInv
  <1>15. QED
    BY <1>9, <1>10, <1>11, <1>12, <1>13, <1>14 DEF ChainStep

-----------------------------------------------------------------------------
(* The steps of the bot and the faults.                                    *)

\* A step that leaves the chain alone leaves its rounds alone, and what the
\* ledger says of it as far as the ledger is left alone.
LEMMA RoundsFrame ==
    ASSUME LedgerInv, UNCHANGED marketVars
    PROVE  RoundsInv' /\ (UNCHANGED status => RefundsAreFinal' /\ LedgerMatchesChain')
  BY DEF LedgerInv, marketVars, RoundsInv, RefundsAreFinal, LedgerMatchesChain, Registered, Mined

\* Nothing is paid or sent by such a step; outside the wait for a claim only
\* the epochs being marked matter.
LEMMA ClaimFrame ==
    ASSUME LedgerInv, UNCHANGED marketVars, pc' # "claimWait", marking' \subseteq marking
    PROVE  ClaimInv'
  BY DEF LedgerInv, marketVars, ClaimInv

\* The thread remembers what it did, or what it has just read, or nothing.
LEMMA MemoryFrame ==
    ASSUME TypeOK, LedgerInv, UNCHANGED marketVars, pc' # "settle",
           recNow' \in {0, recNow, now}, snap' \in {2, snap, cur},
           receipt' = "none" \/ (UNCHANGED <<bet, receipt>> /\ (pc \in Betting => pc' \in Betting))
    PROVE  MemoryInv'
  <1>1. now \in Nat /\ cur >= 2 /\ MemoryInv
    BY DEF TypeOK, MarketTypeOK, LedgerInv, RoundsInv
  <1>2. UNCHANGED <<cur, now, betTx>>
    BY DEF marketVars
  <1>3. snap' <= cur' /\ recNow' <= now'
    BY <1>1, <1>2 DEF MemoryInv, TypeOK, MarketTypeOK, Epochs
  <1>4. receipt' # "none" => pc' \in Betting /\ receipt' = betTx'[bet']
    BY <1>1, <1>2 DEF MemoryInv
  <1>5. QED
    BY <1>3, <1>4 DEF MemoryInv

\* Most steps write nothing to the ledger, send no transaction, start no
\* settlement and confirm no claim: they keep the invariant.
LEMMA QuietStep ==
    ASSUME TypeOK, LedgerInv, UNCHANGED <<marketVars, status>>,
           pc' \notin {"claimWait", "settle"}, marking' \in {marking, {}},
           recNow' \in {0, recNow, now}, snap' \in {2, snap, cur},
           receipt' = "none" \/ (UNCHANGED <<bet, receipt>> /\ (pc \in Betting => pc' \in Betting))
    PROVE  LedgerInv'
  BY RoundsFrame, ClaimFrame, MemoryFrame DEF LedgerInv

\* No step of the bot, and no fault, makes the ledger say what the chain does
\* not bear out.
LEMMA BotStepLedger == ASSUME TypeOK, LedgerInv, BotStep \/ FaultStep PROVE LedgerInv'
  <1> USE DEF diskVars, betVars, passVars, scanVars, historyVars, Betting
  <1>a. /\ RoundsInv /\ MemoryInv /\ ClaimInv /\ RefundsAreFinal /\ LedgerMatchesChain
        /\ status \in [Epochs -> Statuses] /\ betTx \in [Epochs -> TxStates]
    BY DEF LedgerInv, TypeOK, MarketTypeOK
  <1>b. receipt # "none" => pc \in Betting /\ receipt = betTx[bet] /\ bet \in Epochs
    BY <1>a DEF MemoryInv, TypeOK
  <1>1. CASE Restart
    <2>1. /\ UNCHANGED <<marketVars, status>> /\ pc' \notin {"claimWait", "settle"}
          /\ marking' \in {marking, {}} /\ recNow' \in {0, recNow, now}
          /\ snap' \in {2, snap, cur} /\ receipt' = "none"
      BY <1>1, <1>b DEF Restart
    <2>2. QED
      BY <2>1, QuietStep
  <1>2. CASE Handshake
    <2>1. /\ UNCHANGED <<marketVars, status>> /\ pc' \notin {"claimWait", "settle"}
          /\ marking' \in {marking, {}} /\ recNow' \in {0, recNow, now}
          /\ snap' \in {2, snap, cur} /\ receipt' = "none"
      BY <1>2, <1>b DEF Handshake, StartReconcile
    <2>2. QED
      BY <2>1, QuietStep
  <1>3. CASE HandshakeExhausted
    <2>1. /\ UNCHANGED <<marketVars, status>> /\ pc' \notin {"claimWait", "settle"}
          /\ marking' \in {marking, {}} /\ recNow' \in {0, recNow, now}
          /\ snap' \in {2, snap, cur} /\ receipt' = "none"
      BY <1>3, <1>b DEF HandshakeExhausted, ForgetMemory
    <2>2. QED
      BY <2>1, QuietStep
  <1>4. CASE ClaimFirst
    <2>1. /\ UNCHANGED <<marketVars, status>> /\ pc' \notin {"claimWait", "settle"}
          /\ marking' \in {marking, {}} /\ recNow' \in {0, recNow, now}
          /\ snap' \in {2, snap, cur} /\ receipt' = "none"
      BY <1>4, <1>b DEF ClaimFirst, SleepUntilClaim
    <2>2. QED
      BY <2>1, QuietStep
  <1>5. CASE SkipRound
    <2>1. /\ UNCHANGED <<marketVars, status>> /\ pc' \notin {"claimWait", "settle"}
          /\ marking' \in {marking, {}} /\ recNow' \in {0, recNow, now}
          /\ snap' \in {2, snap, cur} /\ receipt' = "none"
      BY <1>5, <1>b DEF SkipRound, SleepUntilClaim
    <2>2. QED
      BY <2>1, QuietStep
  <1>6. CASE SendBet
    <2>1. /\ snap \in Epochs /\ betTx[snap] = "none" /\ betTx' = [betTx EXCEPT ![snap] = "pool"]
          /\ pc = "decide" /\ pc' = "sent"
          /\ UNCHANGED <<now, cur, lockTs, closeTs, outcome, paid, claimPool, claimRes, status,
                         snap, recNow, receipt, marking>>
      BY <1>6 DEF SendBet, TypeOK
    <2>2. RoundsInv'
      <3>1. snap <= cur /\ snap \in Nat /\ cur \in Nat
        BY <1>a, MarketAssumption DEF MemoryInv, TypeOK, MarketTypeOK, Epochs
      <3>2. \A e \in Epochs : e > cur => e # snap
        BY <3>1 DEF Epochs
      <3>3. QED
        BY <1>a, <2>1, <3>2 DEF RoundsInv
    <2>3. MemoryInv'
      BY <1>a, <2>1 DEF MemoryInv
    <2>4. ClaimInv' /\ RefundsAreFinal'
      BY <1>a, <2>1 DEF ClaimInv, RefundsAreFinal
    <2>5. LedgerMatchesChain'
      BY <1>a, <2>1 DEF LedgerMatchesChain, Registered, Mined
    <2>6. QED
      BY <2>2, <2>3, <2>4, <2>5 DEF LedgerInv
  <1>7. CASE WaitReceipt
    <2>1. /\ UNCHANGED <<marketVars, status, marking, snap, recNow, bet>> /\ pc' = "submitted"
          /\ receipt' # "none" => receipt' = betTx[bet]
      BY <1>7 DEF WaitReceipt
    <2>2. MemoryInv'
      BY <1>a, <2>1 DEF MemoryInv, marketVars
    <2>3. QED
      BY <2>1, <2>2, RoundsFrame, ClaimFrame DEF LedgerInv
  <1>8. CASE RecordSubmitted
    <2>1. /\ UNCHANGED <<marketVars, marking, snap, recNow, bet, receipt>> /\ pc' = "classify"
          /\ status' = status \/ status' = [status EXCEPT ![bet] = "SUBMITTED"]
      BY <1>8 DEF RecordSubmitted
    <2>2. LedgerMatchesChain' /\ RefundsAreFinal'
      BY <1>a, <2>1 DEF LedgerMatchesChain, RefundsAreFinal, Registered, Mined, Settled, marketVars
    <2>3. QED
      BY <2>1, <2>2, RoundsFrame, ClaimFrame, MemoryFrame DEF LedgerInv
  <1>9. CASE RecordConfirmation
    <2>1. /\ UNCHANGED <<marketVars, marking, snap, recNow>> /\ pc' = "asleep" /\ receipt' = "none"
          /\ status' = status \/ status' = [status EXCEPT ![bet] = Classify(receipt)]
      BY <1>9 DEF RecordConfirmation, SleepUntilClaim
    <2>2. /\ Classify(receipt) \in {"DROPPED", "CONFIRMED", "LATE", "REVERTED"}
          /\ Classify(receipt) = "CONFIRMED" => betTx[bet] = "ok"
          /\ Classify(receipt) \in {"LATE", "REVERTED"} => betTx[bet] \in {"late", "reverted"}
      BY <1>b DEF Classify, TypeOK, TxStates
    <2>3. LedgerMatchesChain' /\ RefundsAreFinal'
      BY <1>a, <2>1, <2>2 DEF LedgerMatchesChain, RefundsAreFinal, Registered, Mined, Settled, marketVars
    <2>4. QED
      BY <2>1, <2>3, RoundsFrame, ClaimFrame, MemoryFrame DEF LedgerInv
  <1>10. CASE Wake
    <2>1. /\ UNCHANGED <<marketVars, status>> /\ pc' \notin {"claimWait", "settle"}
          /\ marking' \in {marking, {}} /\ recNow' \in {0, recNow, now}
          /\ snap' \in {2, snap, cur} /\ receipt' = "none"
      BY <1>10, <1>b DEF Wake, StartReconcile
    <2>2. QED
      BY <2>1, QuietStep
  <1>11. CASE LookUpReceipt
    <2>1. /\ UNCHANGED <<marketVars, status>> /\ pc' \notin {"claimWait", "settle"}
          /\ marking' \in {marking, {}} /\ recNow' \in {0, recNow, now}
          /\ snap' \in {2, snap, cur} /\ receipt' = "none"
      BY <1>11, <1>b DEF LookUpReceipt
    <2>2. QED
      BY <2>1, QuietStep
  <1>12. CASE RecheckRegistered
    <2>1. /\ UNCHANGED <<marketVars, marking, snap, recNow, bet, receipt, todo>> /\ pc = "recheck"
          /\ pc' = "settle" /\ Registered(This)
          /\ status' = status \/ status' = [status EXCEPT ![This] = "CONFIRMED"]
      BY <1>12 DEF RecheckRegistered
    <2>2. LedgerMatchesChain' /\ RefundsAreFinal'
      BY <1>a, <2>1 DEF LedgerMatchesChain, RefundsAreFinal, Registered, Mined, Settled, marketVars
    <2>3. This' = This
      BY <2>1 DEF This
    <2>4. MemoryInv'
      BY <1>a, <1>b, <2>1, <2>3 DEF MemoryInv, marketVars, Registered
    <2>5. QED
      BY <2>1, <2>2, <2>4, RoundsFrame, ClaimFrame DEF LedgerInv
  <1>13. CASE RecheckUnregistered
    <2>1. /\ UNCHANGED <<marketVars, marking, snap, recNow, bet, receipt>> /\ pc = "recheck"
          /\ pc' = "reconcile"
          /\ status' = status \/ status' = [status EXCEPT ![This] = "DROPPED"]
      BY <1>13 DEF RecheckUnregistered, NextEpoch
    <2>2. LedgerMatchesChain' /\ RefundsAreFinal'
      BY <1>a, <2>1 DEF LedgerMatchesChain, RefundsAreFinal, Registered, Mined, Settled, marketVars
    <2>3. receipt' = "none"
      BY <1>b, <2>1
    <2>4. QED
      BY <2>1, <2>2, <2>3, RoundsFrame, ClaimFrame, MemoryFrame DEF LedgerInv
  <1>14. CASE LeaveOpen
    <2>1. /\ UNCHANGED <<marketVars, status>> /\ pc' \notin {"claimWait", "settle"}
          /\ marking' \in {marking, {}} /\ recNow' \in {0, recNow, now}
          /\ snap' \in {2, snap, cur} /\ receipt' = "none"
      BY <1>14, <1>b DEF LeaveOpen, Settling, NextEpoch
    <2>2. QED
      BY <2>1, QuietStep
  <1>15. CASE Settle
    <2>1. /\ UNCHANGED <<marketVars, marking, snap, recNow, bet, receipt>>
          /\ pc \in {"settle", "reconcile"} /\ pc' \in {"reconcile", "alertLost"}
          /\ ~NotDue(This)
          /\ status' = status \/ status' = [status EXCEPT ![This] = Settlement(This)]
          /\ pc = "reconcile" => status[This] = "CONFIRMED"
      BY <1>15 DEF Settle, Settling, NextEpoch
    <2>2. ASSUME This \in Epochs
          PROVE  /\ betTx[This] = "ok"
                 /\ \/ Settlement(This) = "SETTLED_WON" /\ outcome[This] = "win"
                    \/ Settlement(This) = "SETTLED_LOST" /\ outcome[This] = "lose"
                    \/ /\ Settlement(This) = "SETTLED_REFUND" /\ outcome[This] = "none"
                       /\ now > closeTs[This] + Buffer
      <3>1. betTx[This] = "ok"
        BY <1>a, <2>1, <2>2 DEF LedgerMatchesChain, MemoryInv, Registered
      <3>2. outcome[This] \in {"none", "win", "lose"}
        BY <2>2 DEF TypeOK, MarketTypeOK, Outcomes
      <3>3. outcome[This] = "none" => closeTs[This] + Buffer < recNow
        BY <2>1, <2>2, MarketAssumption DEF NotDue, OracleCalled, TypeOK, MarketTypeOK
      <3>4. closeTs[This] \in Nat /\ Buffer \in Nat
        BY <2>2, MarketAssumption DEF TypeOK, MarketTypeOK
      <3>5. recNow <= now /\ recNow \in Nat /\ now \in Nat
        BY <1>a DEF MemoryInv, TypeOK, MarketTypeOK
      <3>6. outcome[This] = "none" => now > closeTs[This] + Buffer
        BY <3>3, <3>4, <3>5
      <3>7. CASE outcome[This] = "none"
        BY <3>1, <3>6, <3>7 DEF Settlement
      <3>8. CASE outcome[This] = "win"
        BY <3>1, <3>8 DEF Settlement
      <3>9. CASE outcome[This] = "lose"
        BY <3>1, <3>9 DEF Settlement
      <3>10. QED
        BY <3>2, <3>7, <3>8, <3>9
    <2>3. LedgerMatchesChain' /\ RefundsAreFinal'
      BY <1>a, <2>1, <2>2 DEF LedgerMatchesChain, RefundsAreFinal, Registered, Mined, Settled, marketVars
    <2>4. receipt' = "none"
      BY <1>b, <2>1
    <2>5. QED
      BY <2>1, <2>3, <2>4, RoundsFrame, ClaimFrame, MemoryFrame DEF LedgerInv
  <1>16. CASE AlertLost
    <2>1. /\ UNCHANGED <<marketVars, status>> /\ pc' \notin {"claimWait", "settle"}
          /\ marking' \in {marking, {}} /\ recNow' \in {0, recNow, now}
          /\ snap' \in {2, snap, cur} /\ receipt' = "none"
      BY <1>16, <1>b DEF AlertLost, NextEpoch
    <2>2. QED
      BY <2>1, QuietStep
  <1>17. CASE EndReconcile
    <2>1. /\ UNCHANGED <<marketVars, status>> /\ pc' \notin {"claimWait", "settle"}
          /\ marking' \in {marking, {}} /\ recNow' \in {0, recNow, now}
          /\ snap' \in {2, snap, cur} /\ receipt' = "none"
      BY <1>17, <1>b DEF EndReconcile
    <2>2. QED
      BY <2>1, QuietStep
  <1>18. CASE NothingToScan
    <2>1. /\ UNCHANGED <<marketVars, status>> /\ pc' \notin {"claimWait", "settle"}
          /\ marking' \in {marking, {}} /\ recNow' \in {0, recNow, now}
          /\ snap' \in {2, snap, cur} /\ receipt' = "none"
      BY <1>18, <1>b DEF NothingToScan, EndScan
    <2>2. QED
      BY <2>1, QuietStep
  <1>19. CASE ScanRounds
    <2>1. /\ UNCHANGED <<marketVars, status>> /\ pc' \notin {"claimWait", "settle"}
          /\ marking' \in {marking, {}} /\ recNow' \in {0, recNow, now}
          /\ snap' \in {2, snap, cur} /\ receipt' = "none"
      BY <1>19, <1>b DEF ScanRounds
    <2>2. QED
      BY <2>1, QuietStep
  <1>20. CASE SendClaim
    <2>1. /\ UNCHANGED <<now, cur, lockTs, closeTs, outcome, betTx, paid, status, snap, recNow,
                         bet, receipt, marking, pending>>
          /\ pc = "claim" /\ pc' = "claimWait" /\ claimRes' = "pool"
          /\ claimPool' = Append(claimPool, Chunk)
      BY <1>20 DEF SendClaim
    <2>2. RoundsInv' /\ RefundsAreFinal' /\ LedgerMatchesChain'
      BY <1>a, <2>1 DEF RoundsInv, RefundsAreFinal, LedgerMatchesChain, Registered, Mined
    <2>3. MemoryInv'
      BY <1>a, <1>b, <2>1 DEF MemoryInv
    <2>4. Chunk' = Chunk /\ Chunk \in SUBSET Epochs
      BY <2>1 DEF Chunk, TypeOK
    <2>5. claimPool' # <<>> /\ claimPool'[Len(claimPool')] = Chunk
      <3>1. claimPool \in Seq(SUBSET Epochs)
        BY DEF TypeOK, MarketTypeOK
      <3>2. QED
        BY <2>1, <2>4, <3>1, AppendProperties
    <2>6. ClaimInv'
      BY <1>a, <2>1, <2>4, <2>5 DEF ClaimInv
    <2>7. QED
      BY <2>2, <2>3, <2>6 DEF LedgerInv
  <1>21. CASE ClaimConfirmed
    <2>1. /\ UNCHANGED <<marketVars, status, snap, recNow, bet, receipt>> /\ pc = "claimWait"
          /\ pc' = "alertClaim" /\ claimRes = "success" /\ marking' \subseteq Chunk
      BY <1>21 DEF ClaimConfirmed, Announced
    <2>2. ClaimInv'
      BY <1>a, <2>1 DEF ClaimInv, marketVars
    <2>3. receipt' = "none"
      BY <1>b, <2>1
    <2>4. QED
      BY <2>1, <2>2, <2>3, RoundsFrame, MemoryFrame DEF LedgerInv
  <1>22. CASE ClaimReverted
    <2>1. /\ UNCHANGED <<marketVars, status>> /\ pc' \notin {"claimWait", "settle"}
          /\ marking' \in {marking, {}} /\ recNow' \in {0, recNow, now}
          /\ snap' \in {2, snap, cur} /\ receipt' = "none"
      BY <1>22, <1>b DEF ClaimReverted
    <2>2. QED
      BY <2>1, QuietStep
  <1>23. CASE FinishScan
    <2>1. /\ UNCHANGED <<marketVars, status>> /\ pc' \notin {"claimWait", "settle"}
          /\ marking' \in {marking, {}} /\ recNow' \in {0, recNow, now}
          /\ snap' \in {2, snap, cur} /\ receipt' = "none"
      BY <1>23, <1>b DEF FinishScan, EndScan
    <2>2. QED
      BY <2>1, QuietStep
  <1>24. CASE AlertClaim
    <2>1. /\ UNCHANGED <<marketVars, status>> /\ pc' \notin {"claimWait", "settle"}
          /\ marking' \in {marking, {}} /\ recNow' \in {0, recNow, now}
          /\ snap' \in {2, snap, cur} /\ receipt' = "none"
      BY <1>24, <1>b DEF AlertClaim
    <2>2. QED
      BY <2>1, QuietStep
  <1>25. CASE MarkClaim
    <2>1. /\ UNCHANGED <<marketVars, snap, recNow, bet, receipt>> /\ pc = "markClaim"
          /\ pc' \in {"markClaim", "alertClaim"} /\ marking' \subseteq marking
      BY <1>25 DEF MarkClaim
    <2>2. PICK e \in Group : status' = status \/ status' = [status EXCEPT ![e] = "CLAIMED"]
      BY <1>25 DEF MarkClaim
    <2>3. e \in paid
      BY <1>a, <2>2 DEF Group, Refunds, ClaimInv
    <2>4. LedgerMatchesChain' /\ RefundsAreFinal'
      BY <1>a, <2>1, <2>2, <2>3 DEF LedgerMatchesChain, RefundsAreFinal, Registered, Mined, Settled, marketVars
    <2>5. receipt' = "none"
      BY <1>b, <2>1
    <2>6. QED
      BY <2>1, <2>4, <2>5, RoundsFrame, ClaimFrame, MemoryFrame DEF LedgerInv
  <1>26. CASE EndMarking
    <2>1. /\ UNCHANGED <<marketVars, status>> /\ pc' \notin {"claimWait", "settle"}
          /\ marking' \in {marking, {}} /\ recNow' \in {0, recNow, now}
          /\ snap' \in {2, snap, cur} /\ receipt' = "none"
      BY <1>26, <1>b DEF EndMarking
    <2>2. QED
      BY <2>1, QuietStep
  <1>27. CASE Crash
    <2>1. /\ UNCHANGED <<marketVars, status>> /\ pc' \notin {"claimWait", "settle"}
          /\ marking' \in {marking, {}} /\ recNow' \in {0, recNow, now}
          /\ snap' \in {2, snap, cur} /\ receipt' = "none"
      BY <1>27, <1>b DEF Crash, ForgetMemory
    <2>2. QED
      BY <2>1, QuietStep
  <1>28. CASE DeferEpoch
    <2>1. /\ UNCHANGED <<marketVars, status>> /\ pc' \notin {"claimWait", "settle"}
          /\ marking' \in {marking, {}} /\ recNow' \in {0, recNow, now}
          /\ snap' \in {2, snap, cur} /\ receipt' = "none"
      BY <1>28, <1>b DEF DeferEpoch, NextEpoch
    <2>2. QED
      BY <2>1, QuietStep
  <1>29. CASE StopFlush
    <2>1. /\ UNCHANGED <<marketVars, status>> /\ pc' \notin {"claimWait", "settle"}
          /\ marking' \in {marking, {}} /\ recNow' \in {0, recNow, now}
          /\ snap' \in {2, snap, cur} /\ receipt' = "none"
      BY <1>29, <1>b DEF StopFlush, EndScan
    <2>2. QED
      BY <2>1, QuietStep
  <1>30. CASE ScanFails
    <2>1. /\ UNCHANGED <<marketVars, status>> /\ pc' \notin {"claimWait", "settle"}
          /\ marking' \in {marking, {}} /\ recNow' \in {0, recNow, now}
          /\ snap' \in {2, snap, cur} /\ receipt' = "none"
      BY <1>30, <1>b DEF ScanFails, EndScan
    <2>2. QED
      BY <2>1, QuietStep
  <1>31. QED
    BY <1>1, <1>2, <1>3, <1>4, <1>5, <1>6, <1>7, <1>8, <1>9, <1>10,
       <1>11, <1>12, <1>13, <1>14, <1>15, <1>16, <1>17, <1>18, <1>19,
       <1>20, <1>21, <1>22, <1>23, <1>24, <1>25, <1>26, <1>27, <1>28,
       <1>29, <1>30
    DEF BotStep, FaultStep

-----------------------------------------------------------------------------
(* The theorem.                                                            *)

\* LedgerInv is inductive: it holds in every reachable state.
THEOREM LedgerInvariant == Spec => []LedgerInv
  <1>1. TypeOK /\ LedgerInv /\ [Next]_vars => LedgerInv'
    <2> SUFFICES ASSUME TypeOK, LedgerInv, [Next]_vars PROVE LedgerInv'
      OBVIOUS
    <2>1. CASE Next
      BY <2>1, BotStepLedger, ChainStepLedger DEF Next
    <2>2. CASE UNCHANGED vars
      BY <2>2 DEF vars, marketVars, diskVars, betVars, passVars, scanVars, LedgerInv,
         RoundsInv, MemoryInv, ClaimInv, RefundsAreFinal, LedgerMatchesChain, Registered,
         Mined, This, Chunk
    <2>3. QED
      BY <2>1, <2>2
  <1>2. QED
    BY InitLedger, TypeCorrect, <1>1, PTL DEF Spec

\* Whatever crashes, fails, is lost or comes late, the bet ledger never says of
\* a bet what the chain did not do to it: no bet is booked as settled that never
\* registered, no round as refunded that may still be resolved, nothing as
\* claimed that was not paid (bet_ledger.reconcile, live.claim_scan_cursor).
THEOREM LedgerIsSound == Spec => []LedgerMatchesChain
  <1>1. LedgerInv => LedgerMatchesChain
    BY DEF LedgerInv
  <1>2. QED
    BY LedgerInvariant, <1>1, PTL

-----------------------------------------------------------------------------
(* The refinement of the abstract book of stakes.                          *)

\* What has been paid was won, or refunded past the time of the oracle.
PaidInv ==
    \A e \in paid :
        /\ Registered(e) /\ outcome[e] # "lose"
        /\ outcome[e] = "none" => now > closeTs[e] + Buffer

\* What an entry may be when it is settled.
Settleable == {"CONFIRMED"} \cup RecheckStatuses

\* A bet that was never sent has no record.
UnsentInv == \A e \in Epochs : betTx[e] = "none" => status[e] = "absent"

\* The bet being recorded was sent, and has no more than its first record.
SendingInv ==
    /\ pc \in Betting => betTx[bet] # "none"
    /\ pc \in {"sent", "submitted"} => status[bet] = "absent"
    /\ pc = "classify" => status[bet] \in {"absent", "SUBMITTED"}

\* The entry being re-checked is one reconcile re-checks, the one being settled
\* is confirmed unless its confirmation was lost behind a line left in part, and
\* the entries being marked as claimed are settled as won or refunded.
PassInv ==
    /\ pc = "recheck" /\ This \in Epochs => status[This] \in RecheckStatuses
    /\ pc = "settle" /\ This \in Epochs => status[This] \in Settleable
    /\ marking # {} => pc \in {"alertClaim", "markClaim"}
    /\ \A e \in marking : status[e] \in {"SETTLED_WON", "SETTLED_REFUND"}

BookInv == PaidInv /\ UnsentInv /\ SendingInv /\ PassInv

-----------------------------------------------------------------------------
(* What the steps do to the chain and to the ledger.                       *)

\* The steps of an entry, each with what the chain says of its bet.
EntryMoves(e) ==
    \/ status'[e] = status[e]
    \/ status[e] = "absent" /\ status'[e] = "SUBMITTED"
    \/ status[e] \in {"absent", "SUBMITTED", "DROPPED"} /\ status'[e] = "DROPPED"
    \/ status[e] \in {"absent", "SUBMITTED", "DROPPED"} /\ status'[e] = "CONFIRMED" /\ Registered(e)
    \/ /\ status[e] \in {"absent", "SUBMITTED"} /\ status'[e] \in {"LATE", "REVERTED"}
       /\ betTx[e] \in {"late", "reverted"}
    \/ /\ status[e] \in Settleable /\ Registered(e)
       /\ status'[e] = Settlement(e) /\ ~NotDue(e)
    \/ /\ status[e] \in {"SETTLED_WON", "SETTLED_REFUND"} /\ status'[e] = "CLAIMED"
       /\ e \in paid

\* The steps that write nothing to the ledger, send nothing and neither start
\* a bet, a re-check nor a marking.
Calm ==
    \/ Restart \/ Handshake \/ HandshakeExhausted \/ ClaimFirst \/ SkipRound \/ Wake
    \/ LeaveOpen \/ AlertLost \/ EndReconcile \/ NothingToScan \/ ScanRounds
    \/ ClaimReverted \/ FinishScan \/ EndMarking \/ FaultStep

\* A calm step leaves the bets and the ledger as they are.
LEMMA CalmStep ==
    ASSUME TypeOK, BookInv, Calm
    PROVE  /\ UNCHANGED <<marketVars, status>>
           /\ pc' \notin Betting \cup {"recheck", "settle", "alertClaim", "markClaim"}
           /\ marking' = {}
  <1> USE DEF diskVars, betVars, passVars, scanVars, historyVars, Betting
  <1>1. pc \notin {"alertClaim", "markClaim"} => marking = {}
    BY DEF BookInv, PassInv
  <1>2. CASE Restart \/ Handshake \/ HandshakeExhausted \/ Wake
    BY <1>1, <1>2 DEF Restart, Handshake, HandshakeExhausted, Wake, StartReconcile, ForgetMemory
  <1>3. CASE ClaimFirst \/ SkipRound
    BY <1>1, <1>3 DEF ClaimFirst, SkipRound, SleepUntilClaim
  <1>4. CASE LeaveOpen \/ AlertLost \/ EndReconcile
    BY <1>1, <1>4 DEF LeaveOpen, Settling, AlertLost, EndReconcile, NextEpoch
  <1>5. CASE NothingToScan \/ FinishScan
    BY <1>1, <1>5 DEF NothingToScan, FinishScan, EndScan, WriteCursor
  <1>6. CASE ScanRounds
    BY <1>1, <1>6 DEF ScanRounds
  <1>7. CASE ClaimReverted \/ EndMarking
    BY <1>1, <1>7 DEF ClaimReverted, EndMarking
  <1>8. CASE Crash \/ DeferEpoch
    BY <1>1, <1>8 DEF Crash, ForgetMemory, DeferEpoch, NextEpoch
  <1>9. CASE StopFlush \/ ScanFails
    BY <1>1, <1>9 DEF StopFlush, ScanFails, EndScan, WriteCursor
  <1>10. QED
    BY <1>2, <1>3, <1>4, <1>5, <1>6, <1>7, <1>8, <1>9 DEF Calm, FaultStep

\* A step that leaves the market, the ledger and the marking alone keeps the
\* invariant, as far as where the thread stands allows.
LEMMA CalmFrame ==
    ASSUME BookInv, UNCHANGED <<marketVars, status>>,
           pc' \notin Betting \cup {"recheck", "settle", "alertClaim", "markClaim"}, marking' = {}
    PROVE  BookInv' /\ \A e \in Epochs : EntryMoves(e)
  BY DEF BookInv, PaidInv, UnsentInv, SendingInv, PassInv, EntryMoves, Betting, marketVars, Registered

\* A step that leaves the market alone keeps what has been paid.
LEMMA PaidFrame ==
    ASSUME BookInv, UNCHANGED marketVars PROVE PaidInv'
  BY DEF BookInv, PaidInv, marketVars, Registered

\* The bot never writes an entry but along its life cycle, and never on a
\* round it did not bet on.
LEMMA BotStepBook ==
    ASSUME TypeOK, LedgerInv, BookInv, BotStep \/ FaultStep
    PROVE  BookInv' /\ \A e \in Epochs : EntryMoves(e)
  <1> USE DEF diskVars, betVars, passVars, scanVars, historyVars
  <1>a. /\ PaidInv /\ UnsentInv /\ SendingInv /\ PassInv
        /\ MemoryInv /\ ClaimInv /\ LedgerMatchesChain
        /\ status \in [Epochs -> Statuses] /\ betTx \in [Epochs -> TxStates]
        /\ marking \subseteq Epochs /\ pc \in PCs
    BY DEF BookInv, LedgerInv, TypeOK, MarketTypeOK
  <1>b. pc \in Betting => bet \in Epochs
    BY DEF TypeOK
  <1>c. pc \notin {"alertClaim", "markClaim"} => marking = {}
    BY <1>a DEF PassInv
  <1>1. CASE Calm
    BY <1>1, CalmStep, CalmFrame
  <1>2. CASE SendBet
    <2>1. /\ snap \in Epochs /\ betTx[snap] = "none" /\ betTx' = [betTx EXCEPT ![snap] = "pool"]
          /\ pc = "decide" /\ pc' = "sent" /\ bet' = snap
          /\ UNCHANGED <<now, closeTs, outcome, paid, status, marking>>
      BY <1>2 DEF SendBet, TypeOK
    <2>2. PaidInv' /\ UnsentInv'
      BY <1>a, <2>1 DEF PaidInv, UnsentInv, Registered, TypeOK, MarketTypeOK
    <2>3. SendingInv' /\ PassInv'
      BY <1>a, <2>1 DEF UnsentInv, SendingInv, PassInv, Betting
    <2>4. \A e \in Epochs : EntryMoves(e)
      BY <2>1 DEF EntryMoves
    <2>5. QED
      BY <2>2, <2>3, <2>4 DEF BookInv
  <1>3. CASE WaitReceipt
    <2>1. /\ UNCHANGED <<marketVars, status, bet, marking>> /\ pc = "sent" /\ pc' = "submitted"
      BY <1>3 DEF WaitReceipt
    <2>2. UnsentInv' /\ SendingInv' /\ PassInv' /\ \A e \in Epochs : EntryMoves(e)
      BY <1>a, <2>1 DEF UnsentInv, SendingInv, PassInv, Betting, EntryMoves, marketVars
    <2>3. QED
      BY <2>1, <2>2, PaidFrame DEF BookInv
  <1>4. CASE RecordSubmitted
    <2>1. /\ UNCHANGED <<marketVars, bet, marking>> /\ pc = "submitted" /\ pc' = "classify"
          /\ status' = status \/ status' = [status EXCEPT ![bet] = "SUBMITTED"]
      BY <1>4 DEF RecordSubmitted
    <2>2. bet \in Epochs /\ status[bet] = "absent" /\ betTx[bet] # "none"
      BY <1>a, <1>b, <2>1 DEF SendingInv, Betting
    <2>3. UnsentInv' /\ SendingInv' /\ PassInv' /\ \A e \in Epochs : EntryMoves(e)
      BY <1>a, <1>c, <2>1, <2>2 DEF UnsentInv, SendingInv, PassInv, Betting, EntryMoves, marketVars
    <2>4. QED
      BY <2>1, <2>3, PaidFrame DEF BookInv
  <1>5. CASE RecordConfirmation
    <2>1. /\ UNCHANGED <<marketVars, marking>> /\ pc = "classify" /\ pc' = "asleep"
          /\ status' = status \/ status' = [status EXCEPT ![bet] = Classify(receipt)]
      BY <1>5 DEF RecordConfirmation, SleepUntilClaim
    <2>2. bet \in Epochs /\ status[bet] \in {"absent", "SUBMITTED"} /\ betTx[bet] # "none"
      BY <1>a, <1>b, <2>1 DEF SendingInv, Betting
    <2>3. receipt # "none" => receipt = betTx[bet]
      BY <1>a DEF MemoryInv
    <2>4. /\ Classify(receipt) \in {"DROPPED", "CONFIRMED", "LATE", "REVERTED"}
          /\ Classify(receipt) = "CONFIRMED" => betTx[bet] = "ok"
          /\ Classify(receipt) \in {"LATE", "REVERTED"} => betTx[bet] \in {"late", "reverted"}
      BY <2>3 DEF Classify, TypeOK, TxStates
    <2>5. UnsentInv' /\ SendingInv' /\ PassInv'
      BY <1>a, <1>c, <2>1, <2>2 DEF UnsentInv, SendingInv, PassInv, Betting, marketVars
    <2>6. \A e \in Epochs : EntryMoves(e)
      BY <1>a, <2>1, <2>2, <2>4 DEF EntryMoves, Registered
    <2>7. QED
      BY <2>1, <2>5, <2>6, PaidFrame DEF BookInv
  <1>6. CASE LookUpReceipt
    <2>1. /\ UNCHANGED <<marketVars, status, marking, todo>> /\ pc = "reconcile" /\ pc' = "recheck"
          /\ status[This] \in RecheckStatuses
      BY <1>6 DEF LookUpReceipt
    <2>2. This' = This
      BY <2>1 DEF This
    <2>3. UnsentInv' /\ SendingInv' /\ PassInv' /\ \A e \in Epochs : EntryMoves(e)
      BY <1>a, <1>c, <2>1, <2>2 DEF UnsentInv, SendingInv, PassInv, Betting, EntryMoves, marketVars
    <2>4. QED
      BY <2>1, <2>3, PaidFrame DEF BookInv
  <1>7. ASSUME NEW s, UNCHANGED <<marketVars, marking>>, pc \notin {"alertClaim", "markClaim"},
               pc' \in {"settle", "reconcile", "alertLost"},
               status' = status \/ status' = [status EXCEPT ![This] = s],
               This \in Epochs => status[This] # "absent",
               pc' = "settle" =>
                  This' = This /\ (This \in Epochs => status'[This] \in Settleable)
        PROVE  PaidInv' /\ UnsentInv' /\ SendingInv' /\ PassInv'
    <2>1. UnsentInv'
      BY <1>a, <1>7 DEF UnsentInv, marketVars
    <2>2. SendingInv' /\ PassInv'
      BY <1>c, <1>7 DEF SendingInv, PassInv, Betting
    <2>3. QED
      BY <1>7, <2>1, <2>2, PaidFrame
  <1>8. CASE RecheckRegistered \/ RecheckUnregistered
    <2>1. /\ UNCHANGED <<marketVars, marking>> /\ pc = "recheck"
          /\ \/ /\ pc' = "settle" /\ UNCHANGED todo /\ Registered(This)
                /\ status' = status \/ status' = [status EXCEPT ![This] = "CONFIRMED"]
             \/ /\ pc' = "reconcile"
                /\ status' = status \/ status' = [status EXCEPT ![This] = "DROPPED"]
      BY <1>8 DEF RecheckRegistered, RecheckUnregistered, NextEpoch
    <2>2. This \in Epochs => status[This] \in {"SUBMITTED", "DROPPED"}
      BY <1>a, <2>1 DEF PassInv, RecheckStatuses
    <2>3. PaidInv' /\ UnsentInv' /\ SendingInv' /\ PassInv'
      <3>1. CASE pc' = "settle"
        <4>1. This' = This
          BY <2>1, <3>1 DEF This
        <4>2. This \in Epochs => status'[This] \in Settleable
          BY <1>a, <2>1, <2>2, <3>1 DEF Settleable, RecheckStatuses
        <4>3. status' = status \/ status' = [status EXCEPT ![This] = "CONFIRMED"]
          BY <2>1, <3>1
        <4>4. QED
          BY <1>7, <2>1, <2>2, <3>1, <4>1, <4>2, <4>3
      <3>2. CASE pc' = "reconcile"
        BY <1>7, <2>1, <2>2, <3>2
      <3>3. QED
        BY <2>1, <3>1, <3>2
    <2>4. \A e \in Epochs : EntryMoves(e)
      BY <1>a, <2>1, <2>2 DEF EntryMoves
    <2>5. QED
      BY <2>3, <2>4 DEF BookInv
  <1>9. CASE Settle
    <2>1. /\ UNCHANGED <<marketVars, marking>> /\ pc \in {"settle", "reconcile"}
          /\ pc' \in {"reconcile", "alertLost"} /\ ~NotDue(This)
          /\ status' = status \/ status' = [status EXCEPT ![This] = Settlement(This)]
          /\ pc = "reconcile" => status[This] = "CONFIRMED"
      BY <1>9 DEF Settle, Settling, NextEpoch
    <2>2. This \in Epochs => status[This] \in Settleable /\ Registered(This)
      BY <1>a, <2>1 DEF MemoryInv, PassInv, LedgerMatchesChain, Settleable
    <2>3. PaidInv' /\ UnsentInv' /\ SendingInv' /\ PassInv'
      <3>1. This \in Epochs => status[This] # "absent"
        BY <2>2 DEF Settleable, RecheckStatuses
      <3>2. QED
        BY <1>7, <2>1, <3>1
    <2>4. \A e \in Epochs : EntryMoves(e)
      BY <1>a, <2>1, <2>2 DEF EntryMoves
    <2>5. QED
      BY <2>3, <2>4 DEF BookInv
  <1>10. CASE SendClaim
    <2>1. /\ UNCHANGED <<now, closeTs, outcome, betTx, paid, status, marking>>
          /\ pc = "claim" /\ pc' = "claimWait"
      BY <1>10 DEF SendClaim
    <2>2. PaidInv' /\ UnsentInv' /\ SendingInv' /\ PassInv' /\ \A e \in Epochs : EntryMoves(e)
      BY <1>a, <1>c, <2>1 DEF PaidInv, UnsentInv, SendingInv, PassInv, Betting, EntryMoves, Registered
    <2>3. QED
      BY <2>2 DEF BookInv
  <1>11. CASE ClaimConfirmed
    <2>1. /\ UNCHANGED <<marketVars, status>> /\ pc = "claimWait" /\ pc' = "alertClaim"
          /\ marking' = Announced
      BY <1>11 DEF ClaimConfirmed
    <2>2. UnsentInv' /\ SendingInv' /\ PassInv' /\ \A e \in Epochs : EntryMoves(e)
      BY <1>a, <2>1 DEF UnsentInv, SendingInv, PassInv, Betting, EntryMoves, marketVars, Announced
    <2>3. QED
      BY <2>1, <2>2, PaidFrame DEF BookInv
  <1>12. CASE AlertClaim
    <2>1. UNCHANGED <<marketVars, status, marking>> /\ pc = "alertClaim" /\ pc' = "markClaim"
      BY <1>12 DEF AlertClaim
    <2>2. UnsentInv' /\ SendingInv' /\ PassInv' /\ \A e \in Epochs : EntryMoves(e)
      BY <1>a, <2>1 DEF UnsentInv, SendingInv, PassInv, Betting, EntryMoves, marketVars
    <2>3. QED
      BY <2>1, <2>2, PaidFrame DEF BookInv
  <1>13. CASE MarkClaim
    <2>1. PICK m \in Group :
             /\ status' = status \/ status' = [status EXCEPT ![m] = "CLAIMED"]
             /\ marking' = marking \ {m}
      BY <1>13 DEF MarkClaim
    <2>2. UNCHANGED marketVars /\ pc' \in {"markClaim", "alertClaim"}
      BY <1>13 DEF MarkClaim
    <2>3. Group \subseteq marking /\ marking \subseteq paid
      BY <1>a DEF Group, Refunds, ClaimInv
    <2>4. \A e \in marking : status[e] \in {"SETTLED_WON", "SETTLED_REFUND"} /\ e \in Epochs
      BY <1>a DEF PassInv
    <2>5. UnsentInv' /\ SendingInv' /\ PassInv'
      BY <1>a, <2>1, <2>2, <2>3, <2>4 DEF UnsentInv, SendingInv, PassInv, Betting, marketVars
    <2>6. \A e \in Epochs : EntryMoves(e)
      BY <1>a, <2>1, <2>3, <2>4 DEF EntryMoves
    <2>7. QED
      BY <2>2, <2>5, <2>6, PaidFrame DEF BookInv
  <1>14. QED
    BY <1>1, <1>2, <1>3, <1>4, <1>5, <1>6, <1>8, <1>9, <1>10, <1>11, <1>12, <1>13
    DEF Calm, BotStep, FaultStep

-----------------------------------------------------------------------------
(* What the chain does to a stake.                                         *)

\* A stake on the chain moves as BetBook says.
FateMoves(e) == Fate(e)' = Fate(e) \/ <<Fate(e), Fate(e)'>> \in Book!FateSteps

\* What a fate stands for.
LEMMA FateMeans ==
    ASSUME NEW e \in Epochs, outcome[e] \in Outcomes, betTx[e] \in TxStates
    PROVE  /\ e \in paid => Fate(e) = "paid"
           /\ e \notin paid /\ betTx[e] \in {"none", "pool"} => Fate(e) = "unknown"
           /\ e \notin paid /\ betTx[e] \in {"late", "reverted"} => Fate(e) = "void"
           /\ e \notin paid /\ betTx[e] = "ok" /\ outcome[e] = "win" => Fate(e) = "won"
           /\ e \notin paid /\ betTx[e] = "ok" /\ outcome[e] = "lose" => Fate(e) = "lost"
           /\ e \notin paid /\ betTx[e] = "ok" /\ outcome[e] = "none" =>
                 /\ now > closeTs[e] + Buffer => Fate(e) = "refundable"
                 /\ ~(now > closeTs[e] + Buffer) => Fate(e) = "staked"
  BY DEF Fate, Mined, Registered, OracleCalled, Outcomes, TxStates

\* ... and what it stands for after the step.
LEMMA FateMeansNext ==
    ASSUME NEW e \in Epochs, outcome'[e] \in Outcomes, betTx'[e] \in TxStates
    PROVE  /\ e \in paid' => Fate(e)' = "paid"
           /\ e \notin paid' /\ betTx'[e] \in {"none", "pool"} => Fate(e)' = "unknown"
           /\ e \notin paid' /\ betTx'[e] \in {"late", "reverted"} => Fate(e)' = "void"
           /\ e \notin paid' /\ betTx'[e] = "ok" /\ outcome'[e] = "win" => Fate(e)' = "won"
           /\ e \notin paid' /\ betTx'[e] = "ok" /\ outcome'[e] = "lose" => Fate(e)' = "lost"
           /\ e \notin paid' /\ betTx'[e] = "ok" /\ outcome'[e] = "none" =>
                 /\ now' > closeTs'[e] + Buffer => Fate(e)' = "refundable"
                 /\ ~(now' > closeTs'[e] + Buffer) => Fate(e)' = "staked"
  BY DEF Fate, Mined, Registered, OracleCalled, Outcomes, TxStates

\* A stake that is in belongs to a round that has begun, and the open round is
\* never past its buffer when it is locked.
LEMMA RegisteredRound ==
    ASSUME TypeOK, LedgerInv, NEW e \in Epochs, Registered(e)
    PROVE  /\ e <= cur /\ (e = cur => closeTs[e] = lockTs[cur] + Interval)
           /\ e >= cur - 1 => outcome[e] = "none"
  <1>1. RoundsInv /\ cur \in Nat /\ e \in Nat
    BY MarketAssumption DEF LedgerInv, TypeOK, MarketTypeOK, Epochs
  <1>2. QED
    BY <1>1 DEF RoundsInv, Registered

\* When a round is locked, only the stakes of three rounds can notice: the one
\* that ends may get its outcome, the locked and the new one their close.
LockEffects ==
    /\ cur < LastEpoch
    /\ now <= lockTs[cur] + Buffer
    /\ closeTs' = [closeTs EXCEPT ![cur] = now + Interval, ![cur + 1] = now + 2 * Interval]
    /\ \/ outcome' = outcome
       \/ /\ now <= closeTs[cur - 1] + Buffer
          /\ \E o \in IF Registered(cur - 1) THEN {"win", "lose"} ELSE {"lose"} :
                outcome' = [outcome EXCEPT ![cur - 1] = o]
    /\ UNCHANGED <<now, betTx, paid>>

LEMMA LockStep == ASSUME TypeOK, ExecuteRound \/ GenesisLock PROVE LockEffects
  BY DEF ExecuteRound, GenesisLock, LockEffects, OpenNext

\* Locking a round gives an outcome to no round past its buffer, and no round
\* with a stake in it leaves or enters its buffer by it.
LEMMA LockRounds ==
    ASSUME TypeOK, LedgerInv, LockEffects, NEW e \in Epochs, Registered(e)
    PROVE  /\ outcome'[e] # outcome[e] => outcome[e] = "none" /\ outcome'[e] \in {"win", "lose"}
                                          /\ now <= closeTs[e] + Buffer
           /\ outcome'[e] = outcome[e] =>
                 (now > closeTs'[e] + Buffer <=> now > closeTs[e] + Buffer)
  <1>0. /\ now \in Nat /\ cur \in Epochs /\ cur \in Nat /\ Epochs \subseteq Nat /\ cur >= 2
        /\ cur - 1 \in Epochs
        /\ lockTs \in [Epochs -> Nat] /\ closeTs \in [Epochs -> Nat]
        /\ betTx \in [Epochs -> TxStates] /\ outcome \in [Epochs -> Outcomes]
        /\ paid \subseteq Epochs
        /\ Interval \in Nat /\ Buffer \in Nat /\ Interval > Buffer
    BY MarketAssumption, SMTT(30) DEF TypeOK, MarketTypeOK, LedgerInv, RoundsInv, Epochs
  <1>1. /\ e <= cur /\ (e = cur => closeTs[e] = lockTs[cur] + Interval)
        /\ e >= cur - 1 => outcome[e] = "none"
    BY RegisteredRound
  <1>2. e # cur + 1 /\ e \in Nat
    BY <1>0, <1>1
  <1>3. outcome'[e] # outcome[e] => /\ e = cur - 1 /\ now <= closeTs[cur - 1] + Buffer
                                    /\ outcome'[e] \in {"win", "lose"}
    BY <1>0 DEF LockEffects
  <1>4. CASE e = cur
    <2>1. closeTs'[e] = now + Interval /\ now <= lockTs[cur] + Buffer
      BY <1>0, <1>4 DEF LockEffects
    <2>2. lockTs[cur] \in Nat
      BY <1>0
    <2>3. ~(now > closeTs'[e] + Buffer) /\ ~(now > closeTs[e] + Buffer)
      BY <1>0, <1>1, <1>4, <2>1, <2>2
    <2>4. outcome'[e] = outcome[e]
      BY <1>0, <1>3, <1>4
    <2>5. QED
      BY <2>3, <2>4
  <1>5. CASE e # cur
    <2>1. closeTs'[e] = closeTs[e]
      BY <1>0, <1>2, <1>5 DEF LockEffects
    <2>2. QED
      BY <1>1, <1>3, <2>1, <1>0
  <1>6. QED
    BY <1>4, <1>5

\* Locking a round keeps what has been paid and moves stakes along their life.
LEMMA LockKeeps ==
    ASSUME TypeOK, LedgerInv, BookInv, LockEffects
    PROVE  PaidInv' /\ \A e \in Epochs : FateMoves(e)
  <1>1. /\ now \in Nat /\ cur \in Epochs /\ cur \in Nat /\ Epochs \subseteq Nat /\ cur >= 2
        /\ cur - 1 \in Epochs
        /\ lockTs \in [Epochs -> Nat] /\ closeTs \in [Epochs -> Nat]
        /\ betTx \in [Epochs -> TxStates] /\ outcome \in [Epochs -> Outcomes]
        /\ paid \subseteq Epochs
        /\ Interval \in Nat /\ Buffer \in Nat /\ Interval > Buffer
    BY MarketAssumption DEF TypeOK, MarketTypeOK, LedgerInv, RoundsInv, Epochs
  <1>3. UNCHANGED <<now, betTx, paid>>
    BY DEF LockEffects
  <1>4. \A e \in Epochs : outcome'[e] \in Outcomes
    BY <1>1 DEF LockEffects, Outcomes
  <1>5. PaidInv'
    <2>1. ASSUME NEW e \in paid
          PROVE  /\ Registered(e) /\ outcome'[e] # "lose"
                 /\ outcome'[e] = "none" => now > closeTs'[e] + Buffer
      <3>1. /\ e \in Epochs /\ Registered(e) /\ outcome[e] # "lose"
            /\ outcome[e] = "none" => now > closeTs[e] + Buffer
        BY <1>1 DEF BookInv, PaidInv
      <3>2. closeTs[e] \in Nat
        BY <1>1, <3>1
      <3>3. QED
        BY <1>1, LockRounds, <3>1, <3>2
    <2>2. QED
      BY <1>3, <2>1 DEF PaidInv, Registered
  <1>6. ASSUME NEW e \in Epochs PROVE FateMoves(e)
    <2>1. /\ betTx'[e] = betTx[e] /\ betTx[e] \in TxStates /\ (e \in paid' <=> e \in paid)
          /\ outcome[e] \in Outcomes /\ outcome'[e] \in Outcomes /\ closeTs[e] \in Nat
          /\ now' = now
      BY <1>1, <1>3, <1>4
    <2>2. CASE ~Registered(e) \/ e \in paid
      BY <2>1, <2>2, FateMeans, FateMeansNext DEF FateMoves, Registered, TxStates
    <2>3. CASE Registered(e) /\ e \notin paid
      <3>1. CASE outcome'[e] # outcome[e]
        <4>1. Fate(e) = "staked"
          BY <1>1, LockRounds, <2>1, <2>3, <3>1, FateMeans DEF Registered
        <4>2. Fate(e)' \in {"won", "lost"}
          BY LockRounds, <2>1, <2>3, <3>1, FateMeansNext DEF Registered
        <4>3. QED
          BY <4>1, <4>2 DEF FateMoves, Book!FateSteps
      <3>2. CASE outcome'[e] = outcome[e]
        <4>1. now' > closeTs'[e] + Buffer <=> now > closeTs[e] + Buffer
          BY LockRounds, <2>1, <2>3, <3>2
        <4>2. Fate(e)' = Fate(e)
          BY <2>1, <2>3, <3>2, <4>1, FateMeans, FateMeansNext DEF Registered, Outcomes
        <4>3. QED
          BY <4>2 DEF FateMoves
      <3>3. QED
        BY <3>1, <3>2
    <2>4. QED
      BY <2>2, <2>3
  <1>7. QED
    BY <1>5, <1>6
\* A step that changes no bet, payment or outcome, and no close of a round with
\* a stake in it, may only let the buffer of a round run out.
LEMMA TimeKeeps ==
    ASSUME TypeOK, BookInv, UNCHANGED <<outcome, betTx, paid>>,
           now' \in {now, now + 1},
           \A e \in Epochs : Registered(e) => closeTs'[e] = closeTs[e]
    PROVE  PaidInv' /\ \A e \in Epochs : FateMoves(e)
  <1>1. /\ now \in Nat /\ now' \in Nat /\ now' >= now /\ Buffer \in Nat
        /\ closeTs \in [Epochs -> Nat] /\ paid \subseteq Epochs
        /\ betTx \in [Epochs -> TxStates] /\ outcome \in [Epochs -> Outcomes]
    BY MarketAssumption DEF TypeOK, MarketTypeOK
  <1>2. PaidInv'
    <2>1. ASSUME NEW e \in paid
          PROVE  /\ Registered(e) /\ outcome[e] # "lose"
                 /\ outcome[e] = "none" => now' > closeTs'[e] + Buffer
      <3>1. /\ e \in Epochs /\ Registered(e) /\ outcome[e] # "lose" /\ closeTs[e] \in Nat
            /\ outcome[e] = "none" => now > closeTs[e] + Buffer
        BY <1>1 DEF BookInv, PaidInv
      <3>2. QED
        BY <1>1, <3>1
    <2>2. QED
      BY <2>1 DEF PaidInv, Registered
  <1>3. ASSUME NEW e \in Epochs PROVE FateMoves(e)
    <2>1. /\ betTx'[e] = betTx[e] /\ betTx[e] \in TxStates /\ (e \in paid' <=> e \in paid)
          /\ outcome'[e] = outcome[e] /\ outcome[e] \in Outcomes /\ closeTs[e] \in Nat
      BY <1>1
    <2>2. CASE e \in paid \/ ~Registered(e) \/ outcome[e] # "none"
      BY <2>1, <2>2, FateMeans, FateMeansNext DEF FateMoves, Registered, TxStates, Outcomes
    <2>3. CASE e \notin paid /\ Registered(e) /\ outcome[e] = "none"
      <3>1. closeTs'[e] = closeTs[e]
        BY <2>3
      <3>2. Fate(e) = "refundable" => Fate(e)' = "refundable"
        BY <1>1, <2>1, <2>3, <3>1, FateMeans, FateMeansNext DEF Registered
      <3>3. Fate(e) \in {"staked", "refundable"} /\ Fate(e)' \in {"staked", "refundable"}
        BY <2>1, <2>3, FateMeans, FateMeansNext DEF Registered
      <3>4. QED
        BY <3>2, <3>3 DEF FateMoves, Book!FateSteps
    <2>4. QED
      BY <2>2, <2>3
  <1>4. QED
    BY <1>2, <1>3

\* A stake that registers does so in the open round, which has no outcome.
LEMMA MineBetKeeps ==
    ASSUME TypeOK, LedgerInv, BookInv, NEW b \in BetEpochs, MineBet(b)
    PROVE  PaidInv' /\ \A e \in Epochs : FateMoves(e)
  <1>1. /\ b \in Epochs /\ betTx \in [Epochs -> TxStates] /\ outcome \in [Epochs -> Outcomes]
        /\ closeTs \in [Epochs -> Nat] /\ lockTs \in [Epochs -> Nat]
        /\ now \in Nat /\ Buffer \in Nat /\ Interval \in Nat /\ paid \subseteq Epochs
    BY MarketAssumption DEF TypeOK, MarketTypeOK, BetEpochs, Epochs
  <1>2. UNCHANGED <<now, outcome, closeTs, paid>> /\ betTx[b] = "pool"
    BY DEF MineBet
  <1>3. PICK s \in {"ok", "reverted", "late"} :
           betTx' = [betTx EXCEPT ![b] = s] /\ (s = "ok" => b = cur /\ now < lockTs[b])
    BY DEF MineBet
  <1>4. b \notin paid
    BY <1>2 DEF BookInv, PaidInv, Registered
  <1>5. PaidInv'
    BY <1>1, <1>2, <1>3, <1>4 DEF BookInv, PaidInv, Registered
  <1>6. ASSUME NEW e \in Epochs, e # b PROVE FateMoves(e)
    <2>1. /\ betTx'[e] = betTx[e] /\ betTx[e] \in TxStates /\ (e \in paid' <=> e \in paid)
          /\ outcome'[e] = outcome[e] /\ outcome[e] \in Outcomes /\ now' = now
          /\ closeTs'[e] = closeTs[e]
      BY <1>1, <1>2, <1>3, <1>6
    <2>2. QED
      BY <2>1, FateMeans, FateMeansNext DEF FateMoves, Outcomes, TxStates
  <1>7. FateMoves(b)
    <2>1. Fate(b) = "unknown"
      BY <1>1, <1>2, <1>4, FateMeans
    <2>2. /\ betTx'[b] = s /\ s \in TxStates /\ b \notin paid' /\ outcome'[b] \in Outcomes
          /\ outcome' = outcome /\ now' = now /\ closeTs' = closeTs
      BY <1>1, <1>2, <1>3, <1>4 DEF TxStates
    <2>3. s \in {"reverted", "late"} => Fate(b)' = "void"
      BY <1>1, <2>2, FateMeansNext
    <2>4. s = "ok" => Fate(b)' = "staked"
      <3>1. SUFFICES ASSUME s = "ok" PROVE Fate(b)' = "staked"
        OBVIOUS
      <3>2. b = cur /\ now < lockTs[cur] /\ lockTs[cur] \in Nat
        BY <1>1, <1>3, <3>1
      <3>3. outcome[b] = "none" /\ closeTs[b] = lockTs[cur] + Interval
        BY <1>1, <3>2, MarketAssumption DEF LedgerInv, RoundsInv, Epochs
      <3>4. ~(now > closeTs[b] + Buffer)
        BY <1>1, <3>2, <3>3
      <3>5. QED
        BY <1>1, <2>2, <3>1, <3>3, <3>4, FateMeansNext
    <2>5. QED
      BY <1>3, <2>1, <2>3, <2>4 DEF FateMoves, Book!FateSteps
  <1>8. QED
    BY <1>5, <1>6, <1>7

\* A claim pays what was won or is refundable, and nothing else.
LEMMA MineClaimKeeps ==
    ASSUME TypeOK, BookInv, MineClaim
    PROVE  PaidInv' /\ \A e \in Epochs : FateMoves(e)
  <1>1. UNCHANGED <<now, outcome, closeTs, betTx>>
    BY DEF MineClaim
  <1>2. paid \subseteq paid' /\ \A e \in paid' \ paid : Entitled(e)
    BY DEF MineClaim
  <1>3. /\ betTx \in [Epochs -> TxStates] /\ outcome \in [Epochs -> Outcomes]
    BY DEF TypeOK, MarketTypeOK
  <1>4. \A e \in paid' : e \in paid \/ Claimable(e) \/ Refundable(e)
    BY <1>2 DEF Entitled
  <1>5. PaidInv'
    <2>1. ASSUME NEW e \in paid'
          PROVE  /\ Registered(e) /\ outcome[e] # "lose"
                 /\ outcome[e] = "none" => now > closeTs[e] + Buffer
      BY <1>4 DEF BookInv, PaidInv, Claimable, Refundable, OracleCalled
    <2>2. QED
      BY <1>1, <2>1 DEF PaidInv, Registered
  <1>6. ASSUME NEW e \in Epochs PROVE FateMoves(e)
    <2>1. /\ betTx'[e] = betTx[e] /\ betTx[e] \in TxStates /\ outcome[e] \in Outcomes
          /\ outcome'[e] = outcome[e] /\ now' = now /\ closeTs'[e] = closeTs[e]
      BY <1>1, <1>3
    <2>2. CASE e \in paid
      BY <1>2, <2>1, <2>2, FateMeans, FateMeansNext DEF FateMoves
    <2>3. CASE e \notin paid'
      <3>1. e \notin paid
        BY <1>2, <2>3
      <3>2. QED
        BY <2>1, <2>3, <3>1, FateMeans, FateMeansNext DEF FateMoves, Outcomes, TxStates
    <2>4. CASE e \in paid' /\ e \notin paid
      <3>1. Claimable(e) \/ Refundable(e)
        BY <1>4, <2>4
      <3>2. Fate(e) \in {"won", "refundable"}
        BY <2>1, <2>4, <3>1, FateMeans DEF Claimable, Refundable, Registered, OracleCalled
      <3>3. Fate(e)' = "paid"
        BY <2>1, <2>4, FateMeansNext
      <3>4. QED
        BY <3>2, <3>3 DEF FateMoves, Book!FateSteps
    <2>5. QED
      BY <2>2, <2>3, <2>4
  <1>7. QED
    BY <1>5, <1>6

\* The chain moves stakes as BetBook says, and keeps the invariant.
LEMMA ChainStepBook ==
    ASSUME TypeOK, LedgerInv, BookInv, ChainStep
    PROVE  BookInv' /\ UNCHANGED status /\ \A e \in Epochs : FateMoves(e)
  <1>1. UNCHANGED <<status, pc, bet, todo, marking>>
    BY DEF ChainStep, diskVars, betVars, passVars, scanVars
  <1>2. \A e \in Epochs : betTx'[e] = "none" => betTx[e] = "none"
    <2>1. betTx \in [Epochs -> TxStates]
      BY DEF TypeOK, MarketTypeOK
    <2>2. QED
      BY <2>1 DEF ChainStep, Tick, ExecuteRound, GenesisLock, GenesisStart, MineBet, MineClaim
  <1>3. SendingInv' /\ UnsentInv' /\ PassInv'
    <2>1. This' = This
      BY <1>1 DEF This
    <2>2. pc \in Betting => bet \in Epochs
      BY DEF TypeOK
    <2>3. QED
      BY <1>1, <1>2, <2>1, <2>2 DEF BookInv, SendingInv, UnsentInv, PassInv, Betting
  <1>4. PaidInv' /\ \A e \in Epochs : FateMoves(e)
    <2>1. CASE Tick
      BY <2>1, TimeKeeps DEF Tick
    <2>2. CASE ExecuteRound \/ GenesisLock
      BY <2>2, LockStep, LockKeeps
    <2>3. CASE GenesisStart
      <3>1. UNCHANGED <<now, outcome, betTx, paid>>
            /\ closeTs' = [closeTs EXCEPT ![cur + 1] = now + 2 * Interval]
        BY <2>3 DEF GenesisStart
      <3>2. cur \in Nat /\ closeTs \in [Epochs -> Nat] /\ Epochs \subseteq Nat
        BY DEF TypeOK, MarketTypeOK, Epochs
      <3>3. \A e \in Epochs : Registered(e) => closeTs'[e] = closeTs[e]
        <4>1. ASSUME NEW e \in Epochs, Registered(e) PROVE e # cur + 1
          BY <3>2, <4>1, RegisteredRound
        <4>2. QED
          BY <3>1, <3>2, <4>1
      <3>4. QED
        BY <3>1, <3>3, TimeKeeps
    <2>4. CASE MineClaim
      BY <2>4, MineClaimKeeps
    <2>5. CASE \E e \in BetEpochs : MineBet(e)
      BY <2>5, MineBetKeeps
    <2>6. QED
      BY <2>1, <2>2, <2>3, <2>4, <2>5 DEF ChainStep
  <1>5. QED
    BY <1>1, <1>3, <1>4 DEF BookInv

-----------------------------------------------------------------------------
(* The theorems.                                                           *)

LEMMA InitBook == Init => BookInv
  <1> SUFFICES ASSUME Init PROVE BookInv
    OBVIOUS
  <1>1. PaidInv /\ UnsentInv /\ SendingInv /\ PassInv
    BY DEF Init, MarketInit, PaidInv, UnsentInv, SendingInv, PassInv, Betting
  <1>2. QED
    BY <1>1 DEF BookInv

\* BookInv is inductive relative to LedgerInv: it holds in every state.
THEOREM BookInvariant == Spec => []BookInv
  <1>1. TypeOK /\ LedgerInv /\ BookInv /\ [Next]_vars => BookInv'
    <2> SUFFICES ASSUME TypeOK, LedgerInv, BookInv, [Next]_vars PROVE BookInv'
      OBVIOUS
    <2>1. CASE Next
      BY <2>1, BotStepBook, ChainStepBook DEF Next
    <2>2. CASE UNCHANGED vars
      BY <2>2 DEF vars, marketVars, diskVars, betVars, passVars, scanVars, BookInv, PaidInv,
         UnsentInv, SendingInv, PassInv, Registered, This, Betting
    <2>3. QED
      BY <2>1, <2>2
  <1>2. QED
    BY InitBook, TypeCorrect, LedgerInvariant, <1>1, PTL DEF Spec
-----------------------------------------------------------------------------
(* The refinement.                                                         *)

\* No step of the bot, and no fault, moves the clock, a round or a payment.
LEMMA BotLeavesChain ==
    ASSUME TypeOK, BookInv, BotStep \/ FaultStep
    PROVE  /\ UNCHANGED <<now, closeTs, outcome, paid>>
           /\ \/ betTx' = betTx
              \/ betTx[snap] = "none" /\ betTx' = [betTx EXCEPT ![snap] = "pool"]
  <1>1. CASE Calm
    BY <1>1, CalmStep DEF marketVars
  <1>2. CASE SendBet \/ SendClaim
    BY <1>2 DEF SendBet, SendClaim
  <1>3. CASE WaitReceipt \/ RecordSubmitted \/ RecordConfirmation \/ LookUpReceipt
    BY <1>3 DEF WaitReceipt, RecordSubmitted, RecordConfirmation, LookUpReceipt, marketVars
  <1>4. CASE RecheckRegistered \/ RecheckUnregistered \/ Settle
    BY <1>4 DEF RecheckRegistered, RecheckUnregistered, Settle, marketVars
  <1>5. CASE ClaimConfirmed \/ AlertClaim \/ MarkClaim
    BY <1>5 DEF ClaimConfirmed, AlertClaim, MarkClaim, marketVars
  <1>6. QED
    BY <1>1, <1>2, <1>3, <1>4, <1>5 DEF Calm, BotStep, FaultStep

\* No step of the bot, and no fault, moves a stake: a bet it sends is unknown
\* to the chain until it is mined.
LEMMA BotLeavesFate ==
    ASSUME TypeOK, BookInv, BotStep \/ FaultStep
    PROVE  \A e \in Epochs : Fate(e)' = Fate(e)
  <1>1. betTx \in [Epochs -> TxStates] /\ snap \in Epochs
    BY DEF TypeOK, MarketTypeOK
  <1>2. /\ UNCHANGED <<now, closeTs, outcome, paid>>
        /\ betTx' = betTx \/ (betTx[snap] = "none" /\ betTx' = [betTx EXCEPT ![snap] = "pool"])
    BY BotLeavesChain
  <1>3. ASSUME NEW e \in Epochs
        PROVE  Mined(e)' = Mined(e) /\ Registered(e)' = Registered(e)
    BY <1>1, <1>2 DEF Mined, Registered, TxStates
  <1>4. QED
    BY <1>2, <1>3 DEF Fate, OracleCalled

\* An entry that moves as EntryMoves says moves as BetBook says.
LEMMA EntryRefines ==
    ASSUME TypeOK, LedgerInv, BookInv, NEW e \in Epochs, EntryMoves(e)
    PROVE  Entry(e)' = Entry(e) \/ <<Entry(e), Entry(e)'>> \in Book!BookSteps(Fate(e))
  <1>1. /\ outcome[e] \in Outcomes /\ betTx[e] \in TxStates /\ status[e] \in Statuses
        /\ recNow <= now /\ recNow \in Nat /\ now \in Nat /\ closeTs[e] \in Nat /\ Buffer \in Nat
    BY MarketAssumption DEF TypeOK, MarketTypeOK, LedgerInv, MemoryInv
  <1>2. e \in paid => betTx[e] = "ok" /\ outcome[e] # "lose"
    BY DEF BookInv, PaidInv, Registered
  <1>3. CASE status'[e] = status[e]
    BY <1>3 DEF Entry
  <1>4. CASE status[e] = "absent" /\ status'[e] = "SUBMITTED"
    BY <1>4 DEF Entry, OpenStatuses, Book!BookSteps
  <1>5. CASE status[e] \in {"absent", "SUBMITTED", "DROPPED"} /\ status'[e] = "DROPPED"
    BY <1>5 DEF Entry, OpenStatuses, Book!BookSteps
  <1>6. CASE status[e] \in {"absent", "SUBMITTED", "DROPPED"} /\ status'[e] = "CONFIRMED"
             /\ Registered(e)
    <2>1. Fate(e) \notin {"unknown", "void"}
      BY <1>1, <1>6, FateMeans DEF Registered, Outcomes
    <2>2. Entry(e) \in {"none", "open", "dropped"} /\ Entry(e)' = "open"
      BY <1>6 DEF Entry, OpenStatuses
    <2>3. QED
      BY <2>1, <2>2 DEF Book!BookSteps
  <1>7. CASE /\ status[e] \in {"absent", "SUBMITTED"} /\ status'[e] \in {"LATE", "REVERTED"}
             /\ betTx[e] \in {"late", "reverted"}
    <2>1. Fate(e) = "void"
      BY <1>1, <1>2, <1>7, FateMeans
    <2>2. Entry(e) \in {"none", "open"} /\ Entry(e)' = "void"
      BY <1>7 DEF Entry, OpenStatuses
    <2>3. QED
      BY <2>1, <2>2 DEF Book!BookSteps
  <1>8. CASE /\ status[e] \in Settleable /\ Registered(e)
             /\ status'[e] = Settlement(e) /\ ~NotDue(e)
    <2>1. Entry(e) \in {"open", "dropped"} /\ betTx[e] = "ok"
      BY <1>8 DEF Entry, OpenStatuses, Settleable, RecheckStatuses, Registered
    <2>2. CASE outcome[e] = "win"
      <3>1. Settlement(e) = "SETTLED_WON"
        BY <2>2 DEF Settlement
      <3>2. Entry(e)' = "won"
        BY <1>8, <3>1 DEF Entry, OpenStatuses
      <3>3. Fate(e) \in {"won", "paid"}
        BY <1>1, <2>1, <2>2, FateMeans
      <3>4. QED
        BY <2>1, <3>2, <3>3 DEF Book!BookSteps
    <2>3. CASE outcome[e] = "lose"
      <3>1. Settlement(e) = "SETTLED_LOST"
        BY <2>3 DEF Settlement
      <3>2. Entry(e)' = "lost"
        BY <1>8, <3>1 DEF Entry, OpenStatuses
      <3>3. Fate(e) = "lost"
        BY <1>1, <1>2, <2>1, <2>3, FateMeans
      <3>4. QED
        BY <2>1, <3>2, <3>3 DEF Book!BookSteps
    <2>4. CASE outcome[e] = "none"
      <3>1. Settlement(e) = "SETTLED_REFUND"
        BY <2>4 DEF Settlement
      <3>2. Entry(e)' = "refund"
        BY <1>8, <3>1 DEF Entry, OpenStatuses
      <3>3. now > closeTs[e] + Buffer
        BY <1>1, <1>8, <2>4 DEF NotDue, OracleCalled
      <3>4. Fate(e) \in {"refundable", "paid"}
        BY <1>1, <2>1, <2>4, <3>3, FateMeans
      <3>5. QED
        BY <2>1, <3>2, <3>4 DEF Book!BookSteps
    <2>5. QED
      BY <1>1, <2>2, <2>3, <2>4 DEF Outcomes
  <1>9. CASE /\ status[e] \in {"SETTLED_WON", "SETTLED_REFUND"} /\ status'[e] = "CLAIMED"
              /\ e \in paid
    <2>1. Fate(e) = "paid"
      BY <1>1, <1>9, FateMeans
    <2>2. Entry(e) \in {"won", "refund"} /\ Entry(e)' = "claimed"
      BY <1>9 DEF Entry, OpenStatuses
    <2>3. QED
      BY <2>1, <2>2 DEF Book!BookSteps
  <1>10. QED
    BY <1>3, <1>4, <1>5, <1>6, <1>7, <1>8, <1>9 DEF EntryMoves

\* The life cycle of every entry of the ledger, under every crash, fault and
\* order of events, is the one bet_ledger.py documents, taken only on what the
\* chain has decided: a settled, void or claimed entry is never moved again, a
\* dropped one is reopened or settled only for a stake that is in, a win, a loss and a
\* refund are booked only when they are final (bet_ledger.record_*, reconcile,
\* live.fire_claim_settled_alerts).
THEOREM LedgerKeepsBook == Spec => KeepsBook
  <1>1. Init => Book!Init
    <2> SUFFICES ASSUME Init PROVE Book!Init
      OBVIOUS
    <2>1. ASSUME NEW e \in Epochs PROVE Fate(e) = "unknown" /\ Entry(e) = "none"
      <3>1. e \notin paid /\ betTx[e] = "none" /\ outcome[e] = "none" /\ status[e] = "absent"
        BY DEF Init, MarketInit
      <3>2. Fate(e) = "unknown"
        BY <3>1, FateMeans DEF Outcomes, TxStates
      <3>3. Entry(e) = "none"
        BY <3>1 DEF Entry, OpenStatuses
      <3>4. QED
        BY <3>2, <3>3
    <2>2. QED
      BY <2>1 DEF Book!Init
  <1>2. TypeOK /\ TypeOK' /\ LedgerInv /\ BookInv /\ [Next]_vars
           => [Book!Next]_<<[e \in Epochs |-> Fate(e)], [e \in Epochs |-> Entry(e)]>>
    <2> SUFFICES ASSUME TypeOK, TypeOK', LedgerInv, BookInv, [Next]_vars
                 PROVE  [Book!Next]_<<[e \in Epochs |-> Fate(e)], [e \in Epochs |-> Entry(e)]>>
      OBVIOUS
    <2>0. \A e \in Epochs : Fate(e)' \in Book!Fates /\ Entry(e)' \in Book!Entries
      <3>1. ASSUME NEW e \in Epochs PROVE Fate(e)' \in Book!Fates
        <4>1. outcome'[e] \in Outcomes /\ betTx'[e] \in TxStates
          BY DEF TypeOK, MarketTypeOK
        <4>2. QED
          BY <4>1, FateMeansNext DEF Book!Fates, Outcomes, TxStates
      <3>2. ASSUME NEW e \in Epochs PROVE Entry(e)' \in Book!Entries
        <4>1. status'[e] \in Statuses
          BY DEF TypeOK
        <4>2. QED
          BY <4>1 DEF Entry, Statuses, OpenStatuses, Book!Entries
      <3>3. QED
        BY <3>1, <3>2
    <2>1. CASE BotStep \/ FaultStep
      <3>1. \A e \in Epochs : Fate(e)' = Fate(e)
        BY <2>1, BotLeavesFate
      <3>2. \A e \in Epochs :
               Entry(e)' = Entry(e) \/ <<Entry(e), Entry(e)'>> \in Book!BookSteps(Fate(e))
        BY <2>1, BotStepBook, EntryRefines
      <3>3. Book!BookMoves
        BY <2>0, <3>1, <3>2 DEF Book!BookMoves
      <3>4. QED
        BY <3>3 DEF Book!Next
    <2>2. CASE ChainStep
      <3>1. UNCHANGED status /\ \A e \in Epochs : FateMoves(e)
        BY <2>2, ChainStepBook
      <3>2. \A e \in Epochs : Entry(e)' = Entry(e)
        BY <3>1 DEF Entry
      <3>3. Book!ChainMoves
        BY <2>0, <3>1, <3>2 DEF Book!ChainMoves, FateMoves
      <3>4. QED
        BY <3>3 DEF Book!Next
    <2>3. CASE UNCHANGED vars
      <3>1. UNCHANGED <<status, now, closeTs, outcome, betTx, paid>>
        BY <2>3 DEF vars, marketVars, diskVars
      <3>2. \A e \in Epochs : Fate(e)' = Fate(e) /\ Entry(e)' = Entry(e)
        BY <3>1 DEF Fate, Entry, Mined, Registered, OracleCalled
      <3>3. QED
        BY <3>2
    <2>4. QED
      BY <2>1, <2>2, <2>3 DEF Next
  <1>3. QED
    BY <1>1, <1>2, TypeCorrect, LedgerInvariant, BookInvariant, PTL
    DEF Spec, KeepsBook, Book!Spec

-----------------------------------------------------------------------------
(* The settlement path.                                                    *)

\* No claim of the epoch has been announced.
Unannounced(e) == alerts[e]["WON"] = 0 /\ alerts[e]["REFUND"] = 0

\* A line left in part, that the next record will land on.
Unended == IF torn THEN 1 ELSE 0

\* A loss that counts as written, for which the next step is the announcement.
Impending(e) == IF pc = "alertLost" /\ This = e THEN 1 ELSE 0

\* A loss that is on file.
Booked(e) == IF status[e] = "SETTLED_LOST" THEN 1 ELSE 0

\* A loss is announced once it counts as written: it is on file, or its record
\* has ended a line left in part.
LossesInv ==
    /\ \A e \in Epochs : alerts[e]["LOST"] + Impending(e) + Unended <= tears + Booked(e)
    /\ \A e \in Epochs : alerts[e]["LOST"] # 0 => outcome[e] = "lose"
    /\ pc = "alertLost" /\ This \in Epochs => outcome[This] = "lose"

\* A win or a refund is announced once it is paid, each of them once.
ClaimsInv ==
    \A e \in Epochs :
        /\ alerts[e]["WON"] # 0 =>
              alerts[e]["WON"] = 1 /\ alerts[e]["REFUND"] = 0 /\ e \in paid /\ outcome[e] = "win"
        /\ alerts[e]["REFUND"] # 0 =>
              alerts[e]["REFUND"] = 1 /\ e \in paid /\ outcome[e] = "none"

\* What a confirmed claim has just paid has not been announced yet.
FreshInv ==
    /\ pc = "claimWait" /\ claimRes = "success" => \A e \in Chunk : Unannounced(e)
    /\ pc = "alertClaim" => \A e \in marking : Unannounced(e)
    /\ pc = "markClaim" => \A e \in marking \ Group : Unannounced(e)

AnnounceInv == LossesInv /\ ClaimsInv /\ FreshInv

-----------------------------------------------------------------------------
(* The announcements.                                                      *)

\* What is lost stays so, whatever the chain does.
LEMMA LosersStay ==
    ASSUME TypeOK, LedgerInv, ChainStep, NEW e \in Epochs, outcome[e] = "lose"
    PROVE  outcome'[e] = "lose"
  <1>1. /\ outcome \in [Epochs -> Outcomes] /\ cur \in Epochs
        /\ outcome[cur - 1] = "none"
    BY MarketAssumption DEF TypeOK, MarketTypeOK, LedgerInv, RoundsInv, Epochs
  <1>2. CASE ExecuteRound
    <2>1. \E o \in {"win", "lose"} : outcome' = [outcome EXCEPT ![cur - 1] = o]
      BY <1>2 DEF ExecuteRound
    <2>2. QED
      BY <1>1, <2>1
  <1>3. CASE ~ExecuteRound
    BY <1>3 DEF ChainStep, Tick, GenesisLock, GenesisStart, MineBet, MineClaim
  <1>4. QED
    BY <1>2, <1>3

\* A chain step announces nothing, and what it pays was not announced.
LEMMA ChainStepAnnounce ==
    ASSUME TypeOK, LedgerInv, BookInv, AnnounceInv, ChainStep
    PROVE  AnnounceInv'
  <1>1. UNCHANGED <<status, pc, todo, marking, pending, alerts, torn, tears>>
    BY DEF ChainStep, diskVars, lineVars, passVars, scanVars, historyVars
  <1>2. This' = This /\ Chunk' = Chunk /\ Group' = Group
    BY <1>1 DEF This, Chunk, Group, Refunds
  <1>3. /\ betTx \in [Epochs -> TxStates] /\ outcome \in [Epochs -> Outcomes]
        /\ paid \subseteq Epochs /\ closeTs \in [Epochs -> Nat]
        /\ now \in Nat /\ Buffer \in Nat /\ claimPool \in Seq(SUBSET Epochs)
    BY MarketAssumption DEF TypeOK, MarketTypeOK
  <1>4. paid \subseteq paid'
    BY DEF ChainStep, Tick, ExecuteRound, GenesisLock, GenesisStart, MineBet, MineClaim
  <1>5. ASSUME NEW e \in paid PROVE outcome'[e] = outcome[e]
    <2>1. CASE ExecuteRound \/ GenesisLock
      <3>1. /\ e \in Epochs /\ Registered(e) /\ closeTs[e] \in Nat
            /\ outcome[e] = "none" => now > closeTs[e] + Buffer
        BY <1>3 DEF BookInv, PaidInv
      <3>2. QED
        BY <1>3, <2>1, <3>1, LockStep, LockRounds
    <2>2. CASE ~(ExecuteRound \/ GenesisLock)
      BY <2>2 DEF ChainStep, Tick, GenesisStart, MineBet, MineClaim
    <2>3. QED
      BY <2>1, <2>2
  <1>6. ClaimsInv'
    BY <1>1, <1>2, <1>4, <1>5 DEF AnnounceInv, ClaimsInv
  <1>6a. LossesInv'
    <2>1. /\ Unended' = Unended
          /\ \A e \in Epochs : Impending(e)' = Impending(e) /\ Booked(e)' = Booked(e)
      BY <1>1, <1>2 DEF Unended, Impending, Booked
    <2>2. QED
      BY <1>1, <1>2, <2>1, LosersStay DEF AnnounceInv, LossesInv
  <1>7. ASSUME pc = "claimWait", claimRes' = "success" PROVE \A e \in Chunk : Unannounced(e)
    <2>1. CASE claimRes = "success"
      BY <1>7, <2>1 DEF AnnounceInv, FreshInv
    <2>2. CASE claimRes # "success"
      <3>1. MineClaim
        BY <1>7, <2>2 DEF ChainStep, Tick, ExecuteRound, GenesisLock, GenesisStart, MineBet
      <3>2. /\ ~(Len(claimPool) > 1) /\ claimPool # <<>>
            /\ \A e \in Head(claimPool) : Entitled(e)
        BY <1>7, <2>2, <3>1 DEF MineClaim
      <3>3. claimPool[Len(claimPool)] = Chunk
        BY <1>7, <2>2, <3>2 DEF LedgerInv, ClaimInv
      <3>4. Len(claimPool) = 1
        <4>1. Len(claimPool) \in Nat /\ Len(claimPool) > 0
          BY <1>3, <3>2, EmptySeq, LenProperties
        <4>2. QED
          BY <3>2, <4>1
      <3>5. Head(claimPool) = Chunk
        BY <1>3, <3>2, <3>3, <3>4, HeadTailProperties
      <3>6. ASSUME NEW e \in Chunk PROVE Unannounced(e)
        <4>1. e \notin paid
          BY <3>2, <3>5 DEF Entitled, Claimable, Refundable
        <4>2. e \in Epochs
          BY DEF Chunk, TypeOK
        <4>3. QED
          BY <4>1, <4>2 DEF AnnounceInv, ClaimsInv, Unannounced
      <3>7. QED
        BY <3>6
    <2>3. QED
      BY <2>1, <2>2
  <1>8. FreshInv'
    BY <1>1, <1>2, <1>7 DEF AnnounceInv, FreshInv, Unannounced
  <1>9. QED
    BY <1>6, <1>6a, <1>8 DEF AnnounceInv

\* An entry booked as lost stays so.
LEMMA LostStays ==
    ASSUME NEW e \in Epochs, EntryMoves(e), status[e] = "SETTLED_LOST"
    PROVE  status'[e] = "SETTLED_LOST"
  BY DEF EntryMoves, Settleable, RecheckStatuses

\* A line left in part may end, and one more may be left in part.
LEMMA UnendedSums ==
    ASSUME NEW u \in 0 .. 1, NEW v \in 0 .. 1, NEW s \in Nat, NEW t \in Nat,
           (t = s /\ (u = 1 \/ v = u)) \/ t = s + 1
    PROVE  v + s <= u + t
  OBVIOUS

\* What is settled or claimed stays one or the other, a refund left aside.
LEMMA SettledStays ==
    ASSUME NEW e \in Epochs, EntryMoves(e),
           status[e] \in {"SETTLED_WON", "SETTLED_LOST", "CLAIMED"}
    PROVE  status'[e] \in {"SETTLED_WON", "SETTLED_LOST", "CLAIMED"}
  BY DEF EntryMoves, Settleable, RecheckStatuses

\* What the numbers of LossesInv may be, and how a step of the bot moves them.
LEMMA LossesMove ==
    ASSUME TypeOK, LedgerInv, BookInv, BotStep \/ FaultStep
    PROVE  /\ Unended \in 0 .. 1 /\ Unended' \in 0 .. 1 /\ tears \in Nat /\ tears' \in Nat
           /\ Unended' + tears <= Unended + tears'
           /\ \A e \in Epochs :
                 /\ alerts[e]["LOST"] \in Nat
                 /\ Impending(e) \in 0 .. 1 /\ Impending(e)' \in 0 .. 1
                 /\ Booked(e) \in 0 .. 1 /\ Booked(e)' \in 0 .. 1 /\ Booked(e) <= Booked(e)'
  <1>1. /\ Unended \in 0 .. 1 /\ Unended' \in 0 .. 1
        /\ tears \in Nat /\ tears' \in Nat
    <2>1. TypeOK'
      BY BotStepTyped
    <2>2. tears \in Nat /\ tears' \in Nat
      BY <2>1 DEF TypeOK
    <2>3. QED
      BY <2>2 DEF Unended
  <1>2. Unended' + tears <= Unended + tears'
    <2>1. (tears' = tears /\ (Unended = 1 \/ Unended' = Unended)) \/ tears' = tears + 1
      <3>1. CASE UNCHANGED <<torn, tears, faults>>
        BY <3>1 DEF Unended
      <3>2. CASE Glued
        BY <3>2 DEF Glued, Unended
      <3>3. CASE Stumbled
        BY <3>3 DEF Stumbled, Cut, Unended
      <3>4. QED
        BY <3>1, <3>2, <3>3, BotMovesLines DEF LinesMove
    <2>2. QED
      BY <1>1, <2>1, UnendedSums
  <1>3. ASSUME NEW e \in Epochs
        PROVE  /\ alerts[e]["LOST"] \in Nat
               /\ Impending(e) \in 0 .. 1 /\ Impending(e)' \in 0 .. 1
               /\ Booked(e) \in 0 .. 1 /\ Booked(e)' \in 0 .. 1 /\ Booked(e) <= Booked(e)'
    <2>1. alerts[e]["LOST"] \in Nat
      BY DEF TypeOK, AlertKinds
    <2>2. status[e] = "SETTLED_LOST" => status'[e] = "SETTLED_LOST"
      BY BotStepBook, LostStays
    <2>3. QED
      BY <2>1, <2>2 DEF Impending, Booked
  <1>4. QED
    BY <1>1, <1>2, <1>3

\* The bot announces a loss once, and once more for each line left in part.
LEMMA BotStepLosses ==
    ASSUME TypeOK, LedgerInv, BookInv, LossesInv, BotStep \/ FaultStep
    PROVE  LossesInv'
  <1>a. UNCHANGED outcome /\ outcome \in [Epochs -> Outcomes] /\ status \in [Epochs -> Statuses]
    BY BotLeavesChain DEF TypeOK, MarketTypeOK
  <1>b. /\ Unended \in 0 .. 1 /\ Unended' \in 0 .. 1 /\ tears \in Nat /\ tears' \in Nat
        /\ Unended' + tears <= Unended + tears'
        /\ \A e \in Epochs :
              /\ alerts[e]["LOST"] \in Nat
              /\ Impending(e) \in 0 .. 1 /\ Impending(e)' \in 0 .. 1
              /\ Booked(e) \in 0 .. 1 /\ Booked(e)' \in 0 .. 1 /\ Booked(e) <= Booked(e)'
    BY LossesMove
  <1>1. ASSUME \A e \in Epochs : alerts'[e]["LOST"] = alerts[e]["LOST"], pc' # "alertLost"
        PROVE  LossesInv'
    <2>1. \A e \in Epochs : Impending(e)' = 0
      BY <1>1 DEF Impending
    <2>2. ASSUME NEW e \in Epochs
          PROVE  alerts'[e]["LOST"] + Impending(e)' + Unended' <= tears' + Booked(e)'
      <3>1. alerts[e]["LOST"] + Impending(e) + Unended <= tears + Booked(e)
        BY DEF LossesInv
      <3>2. /\ Impending(e) \in 0 .. 1 /\ Booked(e) \in 0 .. 1 /\ Booked(e)' \in 0 .. 1
            /\ Booked(e) <= Booked(e)' /\ alerts[e]["LOST"] \in Nat
            /\ Impending(e)' = 0 /\ alerts'[e]["LOST"] = alerts[e]["LOST"]
        BY <1>b, <1>1, <2>1
      <3>3. /\ Unended \in 0 .. 1 /\ Unended' \in 0 .. 1 /\ tears \in Nat /\ tears' \in Nat
            /\ Unended' + tears <= Unended + tears'
        BY <1>b
      <3>4. PICK u \in 0 .. 1, v \in 0 .. 1, s \in Nat, w \in Nat, a \in Nat,
                 i \in 0 .. 1, b \in 0 .. 1, c \in 0 .. 1 :
              /\ u = Unended /\ v = Unended' /\ s = tears /\ w = tears'
              /\ a = alerts[e]["LOST"] /\ i = Impending(e) /\ b = Booked(e) /\ c = Booked(e)'
        BY <3>2, <3>3
      <3>5. a + i + u <= s + b /\ v + s <= u + w /\ b <= c
        BY <3>1, <3>2, <3>3, <3>4
      <3>6. a + 0 + v <= w + c
        BY <3>5
      <3>7. QED
        BY <3>2, <3>4, <3>6
    <2>3. QED
      BY <1>a, <1>1, <2>2 DEF LossesInv
  <1>2. CASE Settle /\ pc' = "alertLost"
    <2>1. /\ UNCHANGED <<alerts, todo>> /\ Settlement(This) = "SETTLED_LOST"
          /\ pc \in {"settle", "reconcile"} /\ (pc = "reconcile" => status[This] = "CONFIRMED")
          /\ \/ Appended /\ status' = [status EXCEPT ![This] = "SETTLED_LOST"]
             \/ Glued
      BY <1>2 DEF Settle, Settling, NextEpoch, historyVars
    <2>2. This' = This
      BY <2>1 DEF This
    <2>3. This \in Epochs => outcome[This] = "lose"
      BY <1>a, <2>1 DEF Settlement, Outcomes
    <2>4. ASSUME NEW e \in Epochs
          PROVE  alerts'[e]["LOST"] + Impending(e)' + Unended' <= tears' + Booked(e)'
      <3>0. alerts[e]["LOST"] + Impending(e) + Unended <= tears + Booked(e) /\ Impending(e) = 0
        BY <2>1 DEF LossesInv, Impending
      <3>1. CASE Glued
        <4>1. Unended = 1 /\ Unended' = 0 /\ tears' = tears
          BY <3>1 DEF Unended, Glued
        <4>2. QED
          BY <1>b, <2>1, <3>0, <4>1
      <3>2. CASE Appended /\ e = This
        <4>1. Unended' = Unended /\ tears' = tears
          BY <3>2 DEF Unended, Appended, lineVars
        <4>2. status[e] # "SETTLED_LOST"
          BY <2>1, <3>2 DEF BookInv, PassInv, Settleable, RecheckStatuses
        <4>3. Glued \/ Booked(e)' = 1
          BY <1>a, <2>1, <3>2 DEF Booked
        <4>4. ~Glued
          BY <3>2 DEF Appended, Glued
        <4>5. Booked(e) = 0
          BY <4>2 DEF Booked
        <4>6. QED
          BY <1>b, <2>1, <3>0, <4>1, <4>3, <4>4, <4>5
      <3>3. CASE e # This
        <4>1. Impending(e)' = 0
          BY <2>2, <3>3 DEF Impending
        <4>2. QED
          BY <1>b, <2>1, <3>0, <4>1
      <3>4. QED
        BY <2>1, <3>1, <3>2, <3>3
    <2>5. QED
      BY <1>a, <2>1, <2>2, <2>3, <2>4 DEF LossesInv
  <1>3. CASE AlertLost
    <2>1. /\ alerts' = [alerts EXCEPT ![This]["LOST"] = @ + 1] /\ UNCHANGED <<status, torn, tears>>
          /\ pc = "alertLost" /\ pc' = "reconcile"
      BY <1>3 DEF AlertLost, NextEpoch, diskVars, lineVars
    <2>2. ASSUME NEW e \in Epochs
          PROVE  alerts'[e]["LOST"] = IF e = This THEN alerts[e]["LOST"] + 1 ELSE alerts[e]["LOST"]
      BY <2>1 DEF TypeOK, AlertKinds
    <2>3. ASSUME NEW e \in Epochs
          PROVE  alerts'[e]["LOST"] + Impending(e)' + Unended' <= tears' + Booked(e)'
      <3>1. alerts[e]["LOST"] + Impending(e) + Unended <= tears + Booked(e)
        BY DEF LossesInv
      <3>2. Impending(e)' = 0 /\ (e = This => Impending(e) = 1)
        BY <2>1 DEF Impending
      <3>3. alerts'[e]["LOST"] <= alerts[e]["LOST"] + Impending(e) /\ alerts'[e]["LOST"] \in Nat
        BY <1>b, <2>2, <3>2
      <3>4. /\ Booked(e) \in 0 .. 1 /\ Booked(e)' \in 0 .. 1 /\ Booked(e) <= Booked(e)'
            /\ Impending(e) \in 0 .. 1 /\ alerts[e]["LOST"] \in Nat /\ Impending(e)' = 0
        BY <1>b, <3>2
      <3>5. /\ Unended \in 0 .. 1 /\ Unended' \in 0 .. 1 /\ tears \in Nat /\ tears' \in Nat
            /\ Unended' + tears <= Unended + tears'
        BY <1>b
      <3>6. PICK u \in 0 .. 1, v \in 0 .. 1, s \in Nat, w \in Nat, a \in Nat, p \in Nat,
                 i \in 0 .. 1, b \in 0 .. 1, c \in 0 .. 1 :
              /\ u = Unended /\ v = Unended' /\ s = tears /\ w = tears'
              /\ a = alerts[e]["LOST"] /\ p = alerts'[e]["LOST"]
              /\ i = Impending(e) /\ b = Booked(e) /\ c = Booked(e)'
        BY <3>3, <3>4, <3>5
      <3>7. a + i + u <= s + b /\ v + s <= u + w /\ b <= c /\ p <= a + i
        BY <3>1, <3>3, <3>4, <3>5, <3>6
      <3>8. p + 0 + v <= w + c
        BY <3>7
      <3>9. QED
        BY <3>4, <3>6, <3>8
    <2>4. \A e \in Epochs : alerts'[e]["LOST"] # 0 => outcome[e] = "lose"
      BY <2>1, <2>2 DEF LossesInv
    <2>5. QED
      BY <1>a, <2>1, <2>3, <2>4 DEF LossesInv
  <1>4. CASE AlertClaim
    <2>1. /\ pc' # "alertLost"
          /\ \E k \in {"REFUND", "WON"} : alerts' = [e \in Epochs |->
                IF e \notin Group THEN alerts[e] ELSE [alerts[e] EXCEPT ![k] = @ + 1]]
      BY <1>4 DEF AlertClaim
    <2>2. \A e \in Epochs : alerts'[e]["LOST"] = alerts[e]["LOST"]
      BY <2>1 DEF TypeOK, AlertKinds
    <2>3. QED
      BY <1>1, <2>1, <2>2
  <1>5. ASSUME UNCHANGED alerts, pc' # "alertLost" PROVE LossesInv'
    BY <1>1, <1>5
  <1>6. CASE \/ Restart \/ Handshake \/ HandshakeExhausted \/ Wake \/ ClaimFirst \/ SkipRound
             \/ SendBet \/ WaitReceipt \/ RecordSubmitted \/ RecordConfirmation
    BY <1>5, <1>6 DEF Restart, Handshake, HandshakeExhausted, Wake, StartReconcile, ForgetMemory,
       ClaimFirst, SkipRound, SleepUntilClaim, SendBet, WaitReceipt, RecordSubmitted,
       RecordConfirmation, historyVars
  <1>7. CASE \/ LookUpReceipt \/ RecheckRegistered \/ RecheckUnregistered \/ LeaveOpen
             \/ EndReconcile \/ (Settle /\ pc' # "alertLost")
    BY <1>5, <1>7 DEF LookUpReceipt, RecheckRegistered, RecheckUnregistered, LeaveOpen,
       EndReconcile, Settle, NextEpoch, historyVars
  <1>8. CASE \/ NothingToScan \/ FinishScan \/ ClaimReverted \/ EndMarking \/ ScanRounds
             \/ SendClaim \/ ClaimConfirmed \/ MarkClaim
    BY <1>5, <1>8 DEF NothingToScan, FinishScan, ClaimReverted, EndMarking, EndScan, ScanRounds,
       SendClaim, ClaimConfirmed, MarkClaim, historyVars
  <1>9. CASE FaultStep
    BY <1>5, <1>9 DEF FaultStep, Crash, ForgetMemory, DeferEpoch, NextEpoch, StopFlush, ScanFails,
       EndScan, historyVars
  <1>10. QED
    BY <1>2, <1>3, <1>4, <1>6, <1>7, <1>8, <1>9 DEF BotStep

\* The bot announces no claim twice.
LEMMA BotStepAnnounce ==
    ASSUME TypeOK, LedgerInv, BookInv, AnnounceInv, BotStep \/ FaultStep
    PROVE  AnnounceInv'
  <1> USE DEF diskVars, betVars, passVars, scanVars, historyVars
  <1>a. ClaimsInv /\ FreshInv /\ LossesInv'
    BY BotStepLosses DEF AnnounceInv
  <1>b. UNCHANGED <<outcome, paid>>
    BY BotLeavesChain
  <1>c. alerts \in [Epochs -> [AlertKinds -> Nat]] /\ status \in [Epochs -> Statuses]
    BY DEF TypeOK
  <1>1. ASSUME UNCHANGED alerts PROVE ClaimsInv'
    BY <1>a, <1>b, <1>1 DEF ClaimsInv
  <1>2. ASSUME UNCHANGED alerts, pc' \notin {"claimWait", "alertClaim", "markClaim"}
        PROVE  AnnounceInv'
    BY <1>a, <1>1, <1>2 DEF AnnounceInv, FreshInv
  <1>3. CASE Settle
    BY <1>2, <1>3 DEF Settle, NextEpoch
  <1>4. CASE AlertLost
    <2>1. /\ alerts' = [alerts EXCEPT ![This]["LOST"] = @ + 1] /\ pc' = "reconcile"
      BY <1>4 DEF AlertLost, NextEpoch
    <2>2. ASSUME NEW e \in Epochs
          PROVE  alerts'[e]["WON"] = alerts[e]["WON"] /\ alerts'[e]["REFUND"] = alerts[e]["REFUND"]
      BY <1>c, <2>1 DEF AlertKinds
    <2>3. ClaimsInv'
      BY <1>a, <1>b, <2>2 DEF ClaimsInv
    <2>4. QED
      BY <1>a, <2>1, <2>3 DEF AnnounceInv, FreshInv
  <1>5. CASE SendClaim
    <2>1. UNCHANGED alerts /\ pc' = "claimWait" /\ claimRes' = "pool"
      BY <1>5 DEF SendClaim
    <2>2. QED
      BY <1>a, <1>1, <2>1 DEF AnnounceInv, FreshInv
  <1>6. CASE ClaimConfirmed
    <2>1. /\ UNCHANGED alerts /\ pc = "claimWait" /\ claimRes = "success" /\ pc' = "alertClaim"
          /\ marking' \subseteq Chunk
      BY <1>6 DEF ClaimConfirmed, Announced
    <2>2. FreshInv'
      BY <1>a, <2>1 DEF FreshInv, Unannounced
    <2>3. QED
      BY <1>a, <1>1, <2>1, <2>2 DEF AnnounceInv
  <1>7. CASE AlertClaim
    <2>1. /\ UNCHANGED <<status, marking>> /\ pc = "alertClaim" /\ pc' = "markClaim"
          /\ alerts' = [e \in Epochs |->
                IF e \notin Group THEN alerts[e]
                ELSE [alerts[e] EXCEPT ![IF Refunds # {} THEN "REFUND" ELSE "WON"] = @ + 1]]
      BY <1>7 DEF AlertClaim
    <2>2. Group' = Group /\ Group \subseteq marking
      BY <2>1 DEF Group, Refunds
    <2>3. ASSUME NEW e \in Group
          PROVE  /\ e \in Epochs /\ e \in paid /\ Unannounced(e)
                 /\ IF Refunds # {} THEN outcome[e] = "none" ELSE outcome[e] = "win"
      <3>1. e \in Epochs /\ e \in paid /\ Unannounced(e)
        BY <1>a, <2>1, <2>2 DEF LedgerInv, ClaimInv, FreshInv, TypeOK
      <3>2. status[e] \in {"SETTLED_WON", "SETTLED_REFUND"}
        BY <2>2 DEF BookInv, PassInv
      <3>3. IF Refunds # {} THEN status[e] = "SETTLED_REFUND" ELSE status[e] = "SETTLED_WON"
        BY <2>2, <3>2 DEF Group, Refunds
      <3>4. QED
        BY <3>1, <3>3 DEF LedgerInv, LedgerMatchesChain
    <2>4. ASSUME NEW e \in Group
          PROVE  /\ Refunds # {} => alerts'[e]["REFUND"] = 1 /\ alerts'[e]["WON"] = 0
                 /\ Refunds = {} => alerts'[e]["WON"] = 1 /\ alerts'[e]["REFUND"] = 0
      <3>1. /\ e \in Epochs /\ alerts[e] \in [AlertKinds -> Nat]
            /\ alerts[e]["WON"] = 0 /\ alerts[e]["REFUND"] = 0
        BY <1>c, <2>3 DEF Unannounced
      <3>2. alerts'[e] = [alerts[e] EXCEPT ![IF Refunds # {} THEN "REFUND" ELSE "WON"] = @ + 1]
        BY <2>1, <3>1
      <3>3. QED
        BY <3>1, <3>2 DEF AlertKinds
    <2>5. \A e \in Epochs : e \notin Group => alerts'[e] = alerts[e]
      BY <2>1
    <2>6. ClaimsInv'
      <3>1. ASSUME NEW e \in Epochs, e \in Group
            PROVE  /\ alerts'[e]["WON"] # 0 =>
                         alerts'[e]["WON"] = 1 /\ alerts'[e]["REFUND"] = 0 /\ e \in paid /\ outcome[e] = "win"
                   /\ alerts'[e]["REFUND"] # 0 =>
                         alerts'[e]["REFUND"] = 1 /\ e \in paid /\ outcome[e] = "none"
        BY <2>3, <2>4, <3>1
      <3>2. QED
        BY <1>a, <1>b, <2>1, <2>5, <3>1 DEF ClaimsInv
    <2>7. FreshInv'
      BY <1>a, <2>1, <2>2, <2>5 DEF FreshInv, Unannounced, TypeOK
    <2>8. QED
      BY <1>a, <2>6, <2>7 DEF AnnounceInv
  <1>8. CASE MarkClaim
    <2>1. PICK m \in Group :
             /\ \A d \in Group : m <= d
             /\ status' = status \/ status' = [status EXCEPT ![m] = "CLAIMED"]
             /\ marking' = marking \ {m}
      BY <1>8 DEF MarkClaim
    <2>2. /\ UNCHANGED alerts /\ pc = "markClaim"
          /\ pc' = IF Refunds = {} /\ marking' # {} THEN "markClaim" ELSE "alertClaim"
      BY <1>8 DEF MarkClaim
    <2>3. FreshInv'
      <3>1. CASE Refunds = {}
        <4>1. Refunds' = {} /\ \A e \in marking' : e \in marking
          BY <1>c, <2>1, <3>1 DEF Refunds, TypeOK
        <4>2. Group' = marking'
          BY <4>1 DEF Group
        <4>3. QED
          BY <2>2, <3>1, <4>2 DEF FreshInv
      <3>2. CASE Refunds # {}
        <4>1. pc' = "alertClaim" /\ Group = {e \in Refunds : \A d \in Refunds : e <= d}
          BY <2>2, <3>2 DEF Group
        <4>2. Refunds \subseteq Nat
          <5>1. Refunds \subseteq Epochs
            BY DEF Refunds, TypeOK
          <5>2. QED
            BY <5>1 DEF Epochs
        <4>3. \A e \in Group : e = m
          BY <2>1, <4>1, <4>2
        <4>4. \A e \in marking' : e \in marking \ Group
          BY <2>1, <4>3
        <4>5. QED
          BY <1>a, <2>2, <4>1, <4>4 DEF FreshInv, Unannounced
      <3>3. QED
        BY <3>1, <3>2
    <2>4. QED
      BY <1>a, <1>1, <2>2, <2>3 DEF AnnounceInv
  <1>9. CASE Restart \/ Handshake \/ HandshakeExhausted \/ Wake \/ ClaimFirst \/ SkipRound
    BY <1>2, <1>9 DEF Restart, Handshake, HandshakeExhausted, Wake, StartReconcile, ForgetMemory,
       ClaimFirst, SkipRound, SleepUntilClaim
  <1>10. CASE SendBet \/ WaitReceipt \/ RecordSubmitted \/ RecordConfirmation
    BY <1>2, <1>10 DEF SendBet, WaitReceipt, RecordSubmitted, RecordConfirmation, SleepUntilClaim
  <1>11. CASE LookUpReceipt \/ RecheckRegistered \/ RecheckUnregistered \/ LeaveOpen \/ EndReconcile
    BY <1>2, <1>11 DEF LookUpReceipt, RecheckRegistered, RecheckUnregistered, LeaveOpen,
       EndReconcile, NextEpoch
  <1>12. CASE NothingToScan \/ FinishScan \/ ClaimReverted \/ EndMarking
    BY <1>2, <1>12 DEF NothingToScan, FinishScan, ClaimReverted, EndMarking, EndScan
  <1>13. CASE ScanRounds
    BY <1>2, <1>13 DEF ScanRounds
  <1>14. CASE FaultStep
    BY <1>2, <1>14 DEF FaultStep, Crash, ForgetMemory, DeferEpoch, NextEpoch, StopFlush, ScanFails,
       EndScan
  <1>15. QED
    BY <1>3, <1>4, <1>5, <1>6, <1>7, <1>8, <1>9, <1>10, <1>11, <1>12, <1>13, <1>14 DEF BotStep

\* AnnounceInv holds in every state.
THEOREM AnnounceInvariant == Spec => []AnnounceInv
  <1>1. Init => AnnounceInv
    BY DEF Init, AnnounceInv, LossesInv, ClaimsInv, FreshInv, AlertKinds, Unended, Impending,
       Booked
  <1>2. TypeOK /\ LedgerInv /\ BookInv /\ AnnounceInv /\ [Next]_vars => AnnounceInv'
    <2> SUFFICES ASSUME TypeOK, LedgerInv, BookInv, AnnounceInv, [Next]_vars PROVE AnnounceInv'
      OBVIOUS
    <2>1. CASE Next
      BY <2>1, BotStepAnnounce, ChainStepAnnounce DEF Next
    <2>2. CASE UNCHANGED vars
      BY <2>2 DEF vars, marketVars, diskVars, lineVars, passVars, scanVars, historyVars,
         AnnounceInv, LossesInv, ClaimsInv, FreshInv, This, Chunk, Group, Refunds, Unannounced,
         Unended, Impending, Booked
    <2>3. QED
      BY <2>1, <2>2
  <1>3. QED
    BY TypeCorrect, LedgerInvariant, BookInvariant, <1>1, <1>2, PTL DEF Spec

\* A win or a refund is announced at most once, and only once the money is in the
\* wallet, whatever crashes, failed appends, timeouts and late claims come between
\* the record and the alert.  A loss is announced at most once, and once more for
\* each line of the ledger that was left in part: the record behind such a line
\* counts as written and is skipped by the next load (bet_ledger.reconcile,
\* _append_record, load_ledger, live.fire_claim_settled_alerts).
THEOREM AnnouncedOnce == Spec => []SettlementAnnouncedOnce
  <1>1. TypeOK /\ AnnounceInv => SettlementAnnouncedOnce
    <2> SUFFICES ASSUME TypeOK, AnnounceInv, NEW e \in Epochs
                 PROVE  /\ alerts[e]["LOST"] <= 1 + tears
                        /\ alerts[e]["WON"] + alerts[e]["REFUND"] <= 1
                        /\ alerts[e]["LOST"] > 0 => outcome[e] = "lose"
                        /\ alerts[e]["WON"] > 0 => outcome[e] = "win" /\ e \in paid
                        /\ alerts[e]["REFUND"] > 0 => outcome[e] = "none" /\ e \in paid
      BY DEF SettlementAnnouncedOnce
    <2>0. /\ alerts[e]["LOST"] \in Nat /\ alerts[e]["WON"] \in Nat /\ alerts[e]["REFUND"] \in Nat
          /\ tears \in Nat
      BY DEF TypeOK, AlertKinds
    <2>1. alerts[e]["LOST"] <= 1 + tears
      <3>1. alerts[e]["LOST"] + Impending(e) + Unended <= tears + Booked(e)
        BY DEF AnnounceInv, LossesInv
      <3>2. Impending(e) \in Nat /\ Unended \in Nat /\ Booked(e) \in 0 .. 1
        BY DEF Impending, Unended, Booked
      <3>3. QED
        BY <2>0, <3>1, <3>2
    <2>2. alerts[e]["LOST"] # 0 => outcome[e] = "lose"
      BY DEF AnnounceInv, LossesInv
    <2>3. /\ alerts[e]["WON"] # 0 => alerts[e]["WON"] = 1 /\ alerts[e]["REFUND"] = 0
                                     /\ e \in paid /\ outcome[e] = "win"
          /\ alerts[e]["REFUND"] # 0 => alerts[e]["REFUND"] = 1 /\ e \in paid /\ outcome[e] = "none"
      BY DEF AnnounceInv, ClaimsInv
    <2>4. QED
      BY <2>0, <2>1, <2>2, <2>3
  <1>2. QED
    BY TypeCorrect, AnnounceInvariant, <1>1, PTL
-----------------------------------------------------------------------------
(* The claim cursor.                                                       *)

\* The epochs the scan need not come back to.
Over == {e \in Epochs : e \in paid \/ outcome[e] = "lose" \/ excuse[e] # "none"}

\* The rounds of the wallet are those it has a stake in, in the order of their
\* bets.
OrderInv ==
    /\ \A i \in 1 .. Len(userRounds) : userRounds[i] <= cur /\ Registered(userRounds[i])
    /\ \A i, j \in 1 .. Len(userRounds) : i < j => userRounds[i] < userRounds[j]

\* Where the thread is between the scan and the write of the cursor.
Scanning == {"claim", "claimWait", "alertClaim", "markClaim"}

\* Everything behind the cursor is over; what the scan has gone through is over
\* or pending.
CursorInv ==
    /\ cursor <= Len(userRounds)
    /\ \A i \in 1 .. cursor : userRounds[i] \in Over
    /\ pc \in Scanning =>
          /\ edge <= Len(userRounds)
          /\ \A e \in pending : \E i \in 1 .. edge : e = userRounds[i]
          /\ \A i \in 1 .. edge : userRounds[i] \in pending \cup Over

ScanInv == OrderInv /\ CursorInv

LEMMA MinIsLeast ==
    ASSUME NEW S \in SUBSET Nat, S # {}
    PROVE  Min(S) \in S /\ \A x \in S : Min(S) <= x
  <1>1. PICK least \in S : \A y \in S : ~(<<y, least>> \in OpToRel(<, Nat))
    BY NatLessThanWellFounded, WFMin
  <1>2. \A y \in S : ~(y < least)
    BY <1>1, Zenon DEF OpToRel
  <1>3. \A y \in S : least <= y
    BY <1>2
  <1>4. QED
    BY <1>3 DEF Min

\* What is over stays so, and the order of the rounds is kept, whatever
\* the chain does.
LEMMA ChainStepScan ==
    ASSUME TypeOK, LedgerInv, BookInv, ScanInv, ChainStep
    PROVE  ScanInv'
  <1>1. UNCHANGED <<pc, cursor, edge, pending, excuse>>
    BY DEF ChainStep, diskVars, scanVars, historyVars
  <1>2. /\ cur \in Nat /\ cur \in Epochs /\ Epochs \subseteq Nat /\ userRounds \in Seq(Epochs)
        /\ Len(userRounds) \in Nat
        /\ \A i \in 1 .. Len(userRounds) : userRounds[i] \in Epochs
        /\ outcome \in [Epochs -> Outcomes] /\ betTx \in [Epochs -> TxStates]
        /\ cursor \in Nat /\ edge \in Nat
    <2>1. userRounds \in Seq(Epochs) /\ cur \in Epochs
      BY DEF TypeOK, MarketTypeOK
    <2>2. Len(userRounds) \in Nat /\ \A i \in 1 .. Len(userRounds) : userRounds[i] \in Epochs
      BY <2>1, LenProperties, ElementOfSeq
    <2>3. Epochs \subseteq Nat
      BY DEF Epochs
    <2>4. QED
      BY <2>1, <2>2, <2>3 DEF TypeOK, MarketTypeOK
  <1>3. Over \subseteq Over'
    <2>1. paid \subseteq paid'
      BY DEF ChainStep, Tick, ExecuteRound, GenesisLock, GenesisStart, MineBet, MineClaim
    <2>2. \A e \in Epochs : outcome[e] = "lose" => outcome'[e] = "lose"
      <3>1. CASE ExecuteRound
        <4>1. outcome[cur - 1] = "none"
          BY <1>2, MarketAssumption DEF LedgerInv, RoundsInv, Epochs
        <4>2. \E o \in {"win", "lose"} : outcome' = [outcome EXCEPT ![cur - 1] = o]
          BY <3>1 DEF ExecuteRound
        <4>3. QED
          BY <1>2, <4>1, <4>2
      <3>2. CASE ~ExecuteRound
        BY <3>2 DEF ChainStep, Tick, GenesisLock, GenesisStart, MineBet, MineClaim
      <3>3. QED
        BY <3>1, <3>2
    <2>3. QED
      BY <1>1, <2>1, <2>2 DEF Over
  <1>4. CASE UNCHANGED <<userRounds, betTx>> /\ cur' \in {cur, cur + 1}
    <2>1. OrderInv'
      <3>1. ASSUME NEW i \in 1 .. Len(userRounds) PROVE userRounds[i] <= cur'
        <4>1. userRounds[i] <= cur /\ userRounds[i] \in Nat
          BY <1>2 DEF ScanInv, OrderInv
        <4>2. QED
          BY <1>2, <1>4, <4>1
      <3>2. QED
        BY <1>4, <3>1 DEF ScanInv, OrderInv, Registered
    <2>2. CursorInv'
      BY <1>1, <1>2, <1>3, <1>4 DEF ScanInv, CursorInv, Scanning
    <2>3. QED
      BY <2>1, <2>2 DEF ScanInv
  <1>5. ASSUME NEW b \in BetEpochs, MineBet(b) PROVE ScanInv'
    <2>1. /\ b \in Epochs /\ betTx[b] = "pool" /\ UNCHANGED cur
          /\ \E s \in {"ok", "reverted", "late"} : betTx' = [betTx EXCEPT ![b] = s]
          /\ \/ userRounds' = userRounds
             \/ b = cur /\ betTx' = [betTx EXCEPT ![b] = "ok"] /\ userRounds' = Append(userRounds, b)
      BY <1>5, MarketAssumption DEF MineBet, BetEpochs, Epochs
    <2>2. ASSUME NEW i \in 1 .. Len(userRounds) PROVE userRounds[i] # b /\ betTx'[userRounds[i]] = "ok"
      BY <1>2, <2>1 DEF ScanInv, OrderInv, Registered
    <2>3. CASE userRounds' = userRounds
      <3>1. OrderInv'
        BY <2>1, <2>2, <2>3 DEF ScanInv, OrderInv, Registered
      <3>2. CursorInv'
        BY <1>1, <1>2, <1>3, <2>3 DEF ScanInv, CursorInv, Scanning
      <3>3. QED
        BY <3>1, <3>2 DEF ScanInv
    <2>4. CASE b = cur /\ betTx' = [betTx EXCEPT ![b] = "ok"] /\ userRounds' = Append(userRounds, b)
      <3>1. /\ Len(userRounds') = Len(userRounds) + 1
            /\ userRounds'[Len(userRounds) + 1] = b
            /\ \A i \in 1 .. Len(userRounds) : userRounds'[i] = userRounds[i]
        BY <1>2, <2>1, <2>4, AppendProperties
      <3>2. OrderInv'
        <4>1. betTx'[b] = "ok"
          BY <1>2, <2>1, <2>4
        <4>2. \A i \in 1 .. Len(userRounds) : userRounds[i] < b
          <5>1. ASSUME NEW i \in 1 .. Len(userRounds) PROVE userRounds[i] < b
            <6>1. userRounds[i] <= cur /\ userRounds[i] \in Nat /\ userRounds[i] # cur
              BY <1>2, <2>2, <2>4 DEF ScanInv, OrderInv
            <6>2. QED
              BY <1>2, <2>4, <6>1
          <5>2. QED
            BY <5>1
        <4>3. ASSUME NEW i \in 1 .. Len(userRounds')
              PROVE  userRounds'[i] <= cur' /\ betTx'[userRounds'[i]] = "ok"
          <5>1. CASE i = Len(userRounds) + 1
            <6>1. userRounds'[i] = b
              BY <3>1, <5>1
            <6>2. QED
              BY <1>2, <2>1, <2>4, <4>1, <6>1
          <5>2. CASE i # Len(userRounds) + 1
            <6>1. i \in 1 .. Len(userRounds)
              BY <1>2, <3>1, <5>2
            <6>2. userRounds'[i] = userRounds[i]
              BY <3>1, <6>1
            <6>3. userRounds[i] <= cur
              BY <6>1 DEF ScanInv, OrderInv
            <6>4. QED
              BY <2>1, <2>2, <6>1, <6>2, <6>3
          <5>3. QED
            BY <5>1, <5>2
        <4>4. ASSUME NEW i \in 1 .. Len(userRounds'), NEW j \in 1 .. Len(userRounds'), i < j
              PROVE  userRounds'[i] < userRounds'[j]
          <5>1. i \in 1 .. Len(userRounds) /\ userRounds'[i] = userRounds[i]
            BY <1>2, <3>1, <4>4
          <5>2. CASE j = Len(userRounds) + 1
            BY <3>1, <4>2, <5>1, <5>2
          <5>3. CASE j # Len(userRounds) + 1
            <6>1. j \in 1 .. Len(userRounds) /\ userRounds'[j] = userRounds[j]
              BY <1>2, <3>1, <5>3
            <6>2. QED
              BY <4>4, <5>1, <6>1 DEF ScanInv, OrderInv
          <5>4. QED
            BY <5>2, <5>3
        <4>5. QED
          BY <4>3, <4>4 DEF OrderInv, Registered
      <3>3. CursorInv'
        <4>1. cursor' <= Len(userRounds')
          BY <1>1, <1>2, <3>1 DEF ScanInv, CursorInv
        <4>2. \A i \in 1 .. cursor' : userRounds'[i] \in Over'
          BY <1>1, <1>2, <1>3, <3>1 DEF ScanInv, CursorInv
        <4>3. ASSUME pc' \in Scanning
              PROVE  /\ edge' <= Len(userRounds')
                     /\ \A e \in pending' : \E i \in 1 .. edge' : e = userRounds'[i]
                     /\ \A i \in 1 .. edge' : userRounds'[i] \in pending' \cup Over'
          <5>1. /\ edge <= Len(userRounds)
                /\ \A e \in pending : \E i \in 1 .. edge : e = userRounds[i]
                /\ \A i \in 1 .. edge : userRounds[i] \in pending \cup Over
            BY <1>1, <4>3 DEF ScanInv, CursorInv
          <5>2. \A i \in 1 .. edge : userRounds[i] \in Epochs /\ userRounds'[i] = userRounds[i]
            BY <1>2, <3>1, <5>1
          <5>3. \A i \in 1 .. edge : userRounds'[i] \in pending \cup Over'
            BY <1>3, <5>1, <5>2
          <5>4. QED
            BY <1>1, <1>2, <3>1, <5>1, <5>2, <5>3
        <4>4. QED
          BY <4>1, <4>2, <4>3 DEF CursorInv
      <3>4. QED
        BY <3>2, <3>3 DEF ScanInv
    <2>5. QED
      BY <2>1, <2>3, <2>4
  <1>6. QED
    BY <1>4, <1>5
    DEF ChainStep, Tick, ExecuteRound, GenesisLock, GenesisStart, MineClaim, OpenNext

\* A step of the bot that leaves the chain's rounds, the cursor and the excuses
\* alone, and what it has scanned unless it ends the scan, keeps the invariant.
LEMMA ScanFrame ==
    ASSUME ScanInv, UNCHANGED <<cur, userRounds, outcome, paid, cursor, excuse>>,
           \A e \in Epochs : Registered(e) => Registered(e)',
           \A i \in 1 .. Len(userRounds) : userRounds[i] \in Epochs,
           pc' \notin Scanning \/ (pc \in Scanning /\ UNCHANGED <<edge, pending>>)
    PROVE  ScanInv'
  <1>1. Over' = Over
    BY DEF Over
  <1>2. OrderInv'
    BY DEF ScanInv, OrderInv
  <1>3. CursorInv'
    BY <1>1 DEF ScanInv, CursorInv
  <1>4. QED
    BY <1>2, <1>3 DEF ScanInv

\* The cursor is only ever written behind what is over.
LEMMA WriteCursorScan ==
    ASSUME TypeOK, ScanInv, WriteCursor, pc \in Scanning
    PROVE  cursor' <= Len(userRounds) /\ \A i \in 1 .. cursor' : userRounds[i] \in Over
  <1>1. /\ userRounds \in Seq(Epochs) /\ Len(userRounds) \in Nat /\ edge \in Nat
        /\ pending \subseteq Epochs /\ Epochs \subseteq Nat
    BY LenProperties DEF TypeOK, MarketTypeOK, Epochs
  <1>2. \A i \in 1 .. Len(userRounds) : userRounds[i] \in Nat
    BY <1>1, ElementOfSeq
  <1>3. /\ edge <= Len(userRounds)
        /\ \A e \in pending : \E i \in 1 .. edge : e = userRounds[i]
        /\ \A i \in 1 .. edge : userRounds[i] \in pending \cup Over
    BY DEF ScanInv, CursorInv
  <1>4. CASE pending = {}
    BY <1>3, <1>4 DEF WriteCursor
  <1>5. CASE pending # {}
    <2>1. PICK n \in 0 .. Len(userRounds) - 1 : userRounds[n + 1] = Min(pending) /\ cursor' = n
      BY <1>5 DEF WriteCursor
    <2>2. Min(pending) \in pending /\ \A e \in pending : Min(pending) <= e
      <3>1. pending \in SUBSET Nat
        BY <1>1
      <3>2. QED
        BY <1>5, <3>1, MinIsLeast
    <2>3. PICK j \in 1 .. edge : Min(pending) = userRounds[j]
      BY <1>3, <2>2
    <2>4. j \in 1 .. Len(userRounds) /\ n + 1 \in 1 .. Len(userRounds)
      BY <1>1, <1>3
    <2>5. \A i, k \in 1 .. Len(userRounds) : i < k => userRounds[i] < userRounds[k]
      BY DEF ScanInv, OrderInv
    <2>6. n + 1 = j
      <3>1. ~(n + 1 < j) /\ ~(j < n + 1)
        <4>1. userRounds[n + 1] = userRounds[j] /\ userRounds[j] \in Nat
          BY <1>2, <2>1, <2>3, <2>4
        <4>2. QED
          BY <2>4, <2>5, <4>1
      <3>2. QED
        BY <2>4, <3>1
    <2>7. ASSUME NEW i \in 1 .. n PROVE userRounds[i] \in Over
      <3>1. i \in 1 .. edge /\ i \in 1 .. Len(userRounds) /\ i < n + 1
        BY <1>1, <1>3, <2>4, <2>6
      <3>2. userRounds[i] < Min(pending)
        BY <2>1, <2>4, <2>5, <3>1
      <3>3. userRounds[i] \notin pending
        <4>1. Min(pending) \in Nat /\ userRounds[i] \in Nat
          BY <1>1, <1>2, <2>2, <3>1
        <4>2. QED
          BY <2>2, <3>2, <4>1
      <3>4. QED
        BY <1>3, <3>1, <3>3
    <2>8. QED
      BY <1>1, <2>1, <2>7
  <1>6. QED
    BY <1>4, <1>5

\* A scan sorts what it goes through into what is pending and what is over.
LEMMA ScanRoundsScan == ASSUME TypeOK, ScanInv, ScanRounds PROVE ScanInv'
  <1> DEFINE scanned == {userRounds[i] : i \in cursor + 1 .. Len(userRounds)}
  <1>1. /\ userRounds \in Seq(Epochs) /\ Len(userRounds) \in Nat /\ cursor \in Nat
        /\ outcome \in [Epochs -> Outcomes] /\ excuse \in [Epochs -> Excuses]
    BY LenProperties DEF TypeOK, MarketTypeOK
  <1>2. \A i \in 1 .. Len(userRounds) : userRounds[i] \in Epochs
    BY <1>1, ElementOfSeq
  <1>3. UNCHANGED <<cur, userRounds, outcome, paid, cursor, betTx>> /\ pc' = "claim"
    BY DEF ScanRounds, marketVars, diskVars
  <1>4. PICK n \in cursor .. Len(userRounds), blind \in SUBSET scanned, mute \in SUBSET scanned :
           LET passed == {userRounds[i] : i \in cursor + 1 .. n}
               found == {e \in passed \ mute : Entitled(e)}
           IN  /\ edge' = n /\ pending' = found
               /\ excuse' = [e \in Epochs |->
                     IF e \in passed \ (found \cup paid)
                     THEN IF e \in blind \cup mute THEN "partial"
                          ELSE IF OracleCalled(e) THEN excuse[e] ELSE "boundary"
                     ELSE excuse[e]]
    BY ZenonT(60) DEF ScanRounds
  <1> DEFINE passed == {userRounds[i] : i \in cursor + 1 .. n}
             found == {e \in passed \ mute : Entitled(e)}
  <1>5. /\ edge' = n /\ pending' = found
        /\ excuse' = [e \in Epochs |->
              IF e \in passed \ (found \cup paid)
              THEN IF e \in blind \cup mute THEN "partial"
                   ELSE IF OracleCalled(e) THEN excuse[e] ELSE "boundary"
              ELSE excuse[e]]
    BY <1>4
  <1>6. \A e \in Epochs : excuse[e] # "none" => excuse'[e] # "none"
    BY <1>5
  <1>7. Over \subseteq Over'
    BY <1>3, <1>6 DEF Over
  <1>8. ASSUME NEW e \in passed PROVE e \in found \cup Over'
    <2>1. e \in Epochs /\ Registered(e)
      BY <1>1, <1>2, <1>8 DEF ScanInv, OrderInv
    <2>2. SUFFICES ASSUME e \notin found, e \notin paid PROVE outcome[e] = "lose" \/ excuse'[e] # "none"
      BY <1>3, <2>1 DEF Over
    <2>3. excuse'[e] = IF e \in blind \cup mute THEN "partial"
                       ELSE IF OracleCalled(e) THEN excuse[e] ELSE "boundary"
      BY <1>5, <1>8, <2>1, <2>2
    <2>4. CASE e \in blind \cup mute \/ ~OracleCalled(e)
      BY <2>3, <2>4
    <2>5. CASE e \notin mute /\ OracleCalled(e)
      <3>1. ~Claimable(e)
        BY <1>8, <2>2, <2>5 DEF Entitled
      <3>2. outcome[e] \in {"win", "lose"}
        BY <1>1, <2>1, <2>5 DEF OracleCalled, Outcomes
      <3>3. QED
        BY <2>1, <2>2, <3>1, <3>2 DEF Claimable
    <2>6. QED
      BY <2>4, <2>5
  <1>9. OrderInv'
    BY <1>3 DEF ScanInv, OrderInv, Registered
  <1>10. CursorInv'
    <2>1. \A e \in passed : \E i \in 1 .. n : e = userRounds[i]
      BY <1>1
    <2>2. ASSUME NEW i \in 1 .. n PROVE userRounds[i] \in found \cup Over'
      <3>1. CASE i <= cursor
        BY <1>1, <1>7, <3>1 DEF ScanInv, CursorInv
      <3>2. CASE i > cursor
        <4>1. userRounds[i] \in passed
          BY <1>1, <3>2
        <4>2. QED
          BY <1>8, <4>1
      <3>3. QED
        BY <1>1, <3>1, <3>2
    <2>3. \A i \in 1 .. cursor : userRounds[i] \in Over'
      BY <1>7 DEF ScanInv, CursorInv
    <2>4. \A e \in found : \E i \in 1 .. n : e = userRounds[i]
      BY <2>1
    <2> HIDE DEF found, passed
    <2>5. QED
      BY <1>1, <1>3, <1>5, <2>2, <2>3, <2>4 DEF ScanInv, CursorInv
  <1>11. QED
    BY <1>9, <1>10 DEF ScanInv

\* The bot leaves nothing behind the cursor that is not over.
LEMMA BotStepScan ==
    ASSUME TypeOK, LedgerInv, BookInv, ScanInv, BotStep \/ FaultStep
    PROVE  ScanInv'
  <1> USE DEF diskVars, betVars, passVars, scanVars, historyVars
  <1>a. /\ userRounds \in Seq(Epochs) /\ betTx \in [Epochs -> TxStates]
        /\ outcome \in [Epochs -> Outcomes] /\ excuse \in [Epochs -> Excuses]
    BY DEF TypeOK, MarketTypeOK
  <1>b. \A i \in 1 .. Len(userRounds) : userRounds[i] \in Epochs
    BY <1>a, LenProperties, ElementOfSeq
  <1>1. ASSUME UNCHANGED <<marketVars, cursor, excuse>>,
               pc' \notin Scanning \/ (pc \in Scanning /\ UNCHANGED <<edge, pending>>)
        PROVE  ScanInv'
    BY <1>b, <1>1, ScanFrame DEF marketVars, Registered
  <1>2. ASSUME UNCHANGED <<marketVars, excuse>>, pc' \notin Scanning, pc \in Scanning, WriteCursor
        PROVE  ScanInv'
    <2>1. cursor' <= Len(userRounds) /\ \A i \in 1 .. cursor' : userRounds[i] \in Over
      BY <1>2, WriteCursorScan
    <2>2. Over' = Over
      BY <1>2 DEF Over, marketVars
    <2>3. OrderInv'
      BY <1>2 DEF ScanInv, OrderInv, marketVars, Registered
    <2>4. CursorInv'
      BY <1>2, <2>1, <2>2 DEF CursorInv, marketVars
    <2>5. QED
      BY <2>3, <2>4 DEF ScanInv
  <1>3. CASE SendBet
    <2>1. /\ UNCHANGED <<cur, userRounds, outcome, paid, cursor, excuse>> /\ pc' = "sent"
          /\ betTx[snap] = "none" /\ betTx' = [betTx EXCEPT ![snap] = "pool"]
      BY <1>3 DEF SendBet
    <2>2. \A e \in Epochs : Registered(e) => Registered(e)'
      BY <1>a, <2>1 DEF Registered
    <2>3. QED
      BY <1>b, <2>1, <2>2, ScanFrame DEF Scanning
  <1>4. CASE SendClaim
    <2>1. /\ UNCHANGED <<cur, userRounds, outcome, paid, cursor, excuse, betTx, edge, pending>>
          /\ pc = "claim" /\ pc' = "claimWait"
      BY <1>4 DEF SendClaim
    <2>2. QED
      BY <1>b, <2>1, ScanFrame DEF Scanning, Registered
  <1>5. CASE ScanRounds
    BY <1>5, ScanRoundsScan
  <1>6. ASSUME UNCHANGED <<marketVars, cursor, edge>>, pc \in Scanning, pc' \in Scanning,
               pending' = pending \ Chunk, Chunk \subseteq Over', Over \subseteq Over'
        PROVE  ScanInv'
    <2>1. OrderInv'
      BY <1>6 DEF ScanInv, OrderInv, marketVars, Registered
    <2>2. CursorInv'
      BY <1>6 DEF ScanInv, CursorInv, marketVars
    <2>3. QED
      BY <2>1, <2>2 DEF ScanInv
  <1>7. Chunk \subseteq Epochs
    BY DEF Chunk, TypeOK
  <1>8. CASE ClaimConfirmed
    <2>1. /\ UNCHANGED <<marketVars, cursor, edge, excuse>> /\ pc = "claimWait" /\ pc' = "alertClaim"
          /\ claimRes = "success" /\ pending' = pending \ Chunk
      BY <1>8 DEF ClaimConfirmed
    <2>2. Chunk \subseteq paid /\ Over' = Over
      BY <2>1 DEF LedgerInv, ClaimInv, Over, marketVars
    <2>3. Chunk \subseteq Over' /\ Over \subseteq Over'
      BY <1>7, <2>2 DEF Over
    <2>4. QED
      BY <1>6, <2>1, <2>3 DEF Scanning
  <1>9. CASE ClaimReverted
    <2>1. /\ UNCHANGED <<marketVars, cursor, edge>> /\ pc = "claimWait" /\ pc' = "claim"
          /\ pending' = pending \ Chunk
          /\ excuse' = [e \in Epochs |-> IF e \in Chunk THEN "revert" ELSE excuse[e]]
      BY <1>9 DEF ClaimReverted
    <2>2. UNCHANGED <<outcome, paid>>
      BY <2>1 DEF marketVars
    <2>3. Chunk \subseteq Over' /\ Over \subseteq Over'
      BY <1>7, <2>1, <2>2 DEF Over
    <2>4. QED
      BY <1>6, <2>1, <2>3 DEF Scanning
  <1>10. CASE FinishScan
    BY <1>2, <1>10 DEF FinishScan, EndScan, Scanning
  <1>11. CASE StopFlush
    BY <1>2, <1>11 DEF StopFlush, EndScan, Scanning
  <1>12. CASE Restart \/ Handshake \/ HandshakeExhausted \/ Wake \/ ClaimFirst \/ SkipRound
    BY <1>1, <1>12 DEF Restart, Handshake, HandshakeExhausted, Wake, StartReconcile, ForgetMemory,
       ClaimFirst, SkipRound, SleepUntilClaim, Scanning
  <1>13. CASE WaitReceipt \/ RecordSubmitted \/ RecordConfirmation
    BY <1>1, <1>13 DEF WaitReceipt, RecordSubmitted, RecordConfirmation, SleepUntilClaim, Scanning
  <1>14. CASE LookUpReceipt \/ RecheckRegistered \/ RecheckUnregistered \/ LeaveOpen \/ EndReconcile
    BY <1>1, <1>14 DEF LookUpReceipt, RecheckRegistered, RecheckUnregistered, LeaveOpen,
       EndReconcile, NextEpoch, Scanning
  <1>15. CASE Settle \/ AlertLost \/ NothingToScan \/ ScanFails
    BY <1>1, <1>15 DEF Settle, AlertLost, NextEpoch, NothingToScan, ScanFails, EndScan, Scanning
  <1>16. CASE AlertClaim \/ MarkClaim \/ EndMarking
    BY <1>1, <1>16 DEF AlertClaim, MarkClaim, EndMarking, Scanning
  <1>17. CASE Crash \/ DeferEpoch
    BY <1>1, <1>17 DEF Crash, ForgetMemory, DeferEpoch, NextEpoch, Scanning
  <1>18. QED
    BY <1>3, <1>4, <1>5, <1>8, <1>9, <1>10, <1>11, <1>12, <1>13, <1>14, <1>15, <1>16, <1>17
    DEF BotStep, FaultStep

\* ScanInv holds in every state.
THEOREM ScanInvariant == Spec => []ScanInv
  <1>1. Init => ScanInv
    BY EmptySeq DEF Init, MarketInit, ScanInv, OrderInv, CursorInv, Scanning
  <1>2. TypeOK /\ LedgerInv /\ BookInv /\ ScanInv /\ [Next]_vars => ScanInv'
    <2> SUFFICES ASSUME TypeOK, LedgerInv, BookInv, ScanInv, [Next]_vars PROVE ScanInv'
      OBVIOUS
    <2>1. CASE Next
      BY <2>1, BotStepScan, ChainStepScan DEF Next
    <2>2. CASE UNCHANGED vars
      BY <2>2 DEF vars, marketVars, diskVars, scanVars, historyVars, ScanInv, OrderInv,
         CursorInv, Over, Registered
    <2>3. QED
      BY <2>1, <2>2
  <1>3. QED
    BY TypeCorrect, LedgerInvariant, BookInvariant, <1>1, <1>2, PTL DEF Spec

\* Whatever crashes, times out, reverts or fails alone inside a batch, money
\* stays behind the claim cursor only for the three reasons the code has for
\* leaving it there: the claim reverted, a call of the batch failed, or the
\* round was scanned in the tick its buffer ran out (live.claim_scan_cursor,
\* _flush_pending).
THEOREM CursorIsSafe == Spec => []NothingLostBehindCursor
  <1>1. TypeOK /\ ScanInv => NothingLostBehindCursor
    <2> SUFFICES ASSUME TypeOK, ScanInv, NEW i \in 1 .. cursor, Entitled(userRounds[i])
                 PROVE  excuse[userRounds[i]] # "none"
      BY DEF NothingLostBehindCursor
    <2>1. userRounds[i] \in Over
      BY DEF ScanInv, CursorInv
    <2>2. QED
      BY <2>1 DEF Over, Entitled, Claimable, Refundable, OracleCalled
  <1>2. QED
    BY TypeCorrect, ScanInvariant, <1>1, PTL
-----------------------------------------------------------------------------
(* A pass that nothing disturbs.                                           *)

\* A stake the pass that began at recNow has to settle.
Due(e) == Registered(e) /\ closeTs[e] + Buffer < recNow

\* Without a pause every round is locked, ended and followed by the next.
RoundsFlow ==
    /\ cur - 1 \in priced
    /\ closeTs[cur - 1] = lockTs[cur]
    /\ \A e \in Epochs : e < cur - 1 => outcome[e] # "none"
    /\ \A d, e \in Epochs : d <= e /\ e <= cur => closeTs[d] <= closeTs[e]

\* The contract lists every stake, and the thread has bet on no round later
\* than the one it has in view.
ListedInv ==
    /\ \A e \in Epochs : Registered(e) => \E i \in 1 .. Len(userRounds) : userRounds[i] = e
    /\ pc \notin {"down", "handshake"} => \A e \in Epochs : e > snap => betTx[e] = "none"

\* Every bet that was sent is on disk once its first record is written.
StakeInv ==
    \A e \in Epochs : betTx[e] # "none" =>
        \/ e = bet /\ pc \in {"sent", "submitted"}
        \/ e \in sized /\ status[e] # "absent"

Reconciling == {"reconcile", "recheck", "settle", "alertLost"}
Resting == {"down", "handshake", "decide", "asleep"} \cup Betting

\* What is due is a round the scan may look at, and settled as soon as the pass
\* has gone by it.
DueInv ==
    /\ \A e \in Epochs : Due(e) => e < snap - 1
    /\ pc \notin Reconciling => todo = {}
    /\ \A e \in Epochs : Due(e) =>
          e \in todo \/ status[e] \in {"SETTLED_WON", "SETTLED_LOST", "CLAIMED"}
    /\ pc = "alertLost" /\ This \in Epochs => status[This] = "SETTLED_LOST"

\* Every claim is mined alone and pays what is pending; the scan leaves nothing
\* that is due to a later one.
PayInv ==
    /\ \A e \in Epochs : excuse[e] = "none"
    /\ pc # "claimWait" => claimPool = <<>>
    /\ pc = "claimWait" => claimRes \in {"pool", "success"}
    /\ pc = "claimWait" /\ claimRes = "pool" => claimPool = <<Chunk>>
    /\ pc \in Scanning => \A e \in pending :
          Claimable(e) \/ (pc = "claimWait" /\ claimRes = "success" /\ e \in Chunk)
    /\ pc \in Scanning => \A i \in 1 .. Len(userRounds) : i > edge => ~Due(userRounds[i])
    /\ pc \in Resting => \A e \in Epochs : Due(e) /\ outcome[e] = "win" => e \in paid

Undisturbed == RoundsFlow /\ ListedInv /\ StakeInv /\ DueInv /\ PayInv

\* No step of an undisturbed behaviour is a fault, and what it appends is there.
LEMMA NoFaults ==
    ASSUME faults = 0, faults' = 0
    PROVE  /\ \A k : ~Fault(k)
           /\ ~Failed
           /\ ~torn => ~Glued
  BY DEF Fault, Failed, Glued

\* A step that leaves the chain as it is.
LEMMA FlowFrame ==
    ASSUME RoundsFlow, UNCHANGED <<cur, priced, closeTs, lockTs, outcome>>
    PROVE  RoundsFlow'
  BY DEF RoundsFlow

\* What is due was so when the pass began.
LEMMA DueFrame ==
    ASSUME TypeOK, UNCHANGED closeTs, recNow' \in {recNow, 0},
           \A e \in Epochs : Registered(e)' => Registered(e)
    PROVE  \A e \in Epochs : Due(e)' => Due(e) /\ recNow' = recNow
  <1> SUFFICES ASSUME NEW e \in Epochs, Due(e)'
               PROVE  Due(e) /\ recNow' = recNow
    OBVIOUS
  <1>1. closeTs[e] \in Nat /\ Buffer \in Nat
    BY MarketAssumption DEF TypeOK, MarketTypeOK
  <1>2. closeTs[e] + Buffer < recNow'
    BY DEF Due
  <1>3. recNow' = recNow
    BY <1>1, <1>2
  <1>4. QED
    BY <1>2, <1>3 DEF Due

-----------------------------------------------------------------------------
(* The steps between two passes.                                           *)

Rest ==
    \/ Restart \/ HandshakeExhausted \/ (Handshake /\ started) \/ ClaimFirst \/ SkipRound
    \/ SendBet \/ WaitReceipt \/ RecordSubmitted \/ RecordConfirmation

LEMMA RestMoves ==
    ASSUME TypeOK, DueInv, Rest
    PROVE  /\ pc \in Resting /\ pc' \in Resting /\ todo = {} /\ todo' = {}
           /\ recNow' \in {recNow, 0}
           /\ UNCHANGED <<now, cur, priced, lockTs, closeTs, outcome, userRounds, paid, claimPool,
                          claimRes, excuse>>
           /\ \/ snap' = snap /\ pc # "handshake" /\ (pc = "down" => pc' = "handshake")
              \/ snap' = cur
              \/ recNow' = 0 /\ pc' \in {"down", "handshake"}
           /\ \/ UNCHANGED betTx
              \/ /\ betTx[snap] = "none" /\ betTx' = [betTx EXCEPT ![snap] = "pool"]
                 /\ snap' = snap /\ bet' = snap /\ pc' = "sent" /\ pc = "decide"
  <1> USE DEF historyVars, Resting, Reconciling, Betting, DueInv
  <1>1. CASE Restart
    BY <1>1 DEF Restart, marketVars, passVars
  <1>2. CASE HandshakeExhausted
    BY <1>2 DEF HandshakeExhausted, ForgetMemory, marketVars
  <1>3. CASE Handshake /\ started
    BY <1>3 DEF Handshake, marketVars, passVars
  <1>4. CASE ClaimFirst \/ SkipRound
    BY <1>4 DEF ClaimFirst, SkipRound, SleepUntilClaim, marketVars, passVars
  <1>5. CASE SendBet
    BY <1>5 DEF SendBet, passVars
  <1>6. CASE WaitReceipt \/ RecordSubmitted \/ RecordConfirmation
    BY <1>6 DEF WaitReceipt, RecordSubmitted, RecordConfirmation, SleepUntilClaim, marketVars, passVars
  <1>7. QED
    BY <1>1, <1>2, <1>3, <1>4, <1>5, <1>6 DEF Rest

\* Every bet is recorded before the thread goes to sleep.
LEMMA RestKeepsStakes ==
    ASSUME TypeOK, StakeInv, SendingInv, Rest, faults = 0, faults' = 0, ~torn
    PROVE  StakeInv'
  <1> USE DEF diskVars, betVars, marketVars
  <1>0. ~Failed /\ ~Glued
    BY NoFaults
  <1>1. CASE Restart \/ HandshakeExhausted \/ (Handshake /\ started) \/ ClaimFirst \/ SkipRound
    <2>1. UNCHANGED <<betTx, status, sized>> /\ pc \notin {"sent", "submitted"}
      BY <1>1 DEF Restart, HandshakeExhausted, Handshake, ClaimFirst, SkipRound
    <2>2. QED
      BY <2>1 DEF StakeInv
  <1>2. CASE SendBet
    <2>1. /\ UNCHANGED <<status, sized>> /\ pc \notin {"sent", "submitted"} /\ pc' = "sent"
          /\ bet' = snap /\ betTx' = [betTx EXCEPT ![snap] = "pool"]
      BY <1>2 DEF SendBet
    <2>2. QED
      BY <2>1 DEF StakeInv, TypeOK, MarketTypeOK
  <1>3. CASE WaitReceipt
    <2>1. UNCHANGED <<betTx, status, sized, bet>> /\ pc = "sent" /\ pc' = "submitted"
      BY <1>3 DEF WaitReceipt
    <2>2. QED
      BY <2>1 DEF StakeInv
  <1>4. CASE RecordSubmitted
    <2>1. /\ UNCHANGED <<betTx, bet>> /\ status' = [status EXCEPT ![bet] = "SUBMITTED"]
          /\ sized' = sized \cup {bet}
      BY <1>0, <1>4 DEF RecordSubmitted
    <2>2. QED
      BY <2>1 DEF StakeInv, TypeOK
  <1>5. CASE RecordConfirmation
    <2>1. /\ UNCHANGED <<betTx, sized>> /\ pc = "classify"
          /\ status' = [status EXCEPT ![bet] = Classify(receipt)]
      BY <1>0, <1>5 DEF RecordConfirmation
    <2>2. Classify(receipt) # "absent"
      BY DEF Classify, TypeOK, TxStates
    <2>3. QED
      BY <2>1, <2>2 DEF StakeInv, TypeOK
  <1>6. QED
    BY <1>1, <1>2, <1>3, <1>4, <1>5 DEF Rest

LEMMA RestKeepsCalm ==
    ASSUME TypeOK, LedgerInv, BookInv, Undisturbed, Rest, faults = 0, faults' = 0, ~torn
    PROVE  Undisturbed'
  <1>0. /\ RoundsFlow /\ ListedInv /\ StakeInv /\ DueInv /\ PayInv
        /\ RoundsInv /\ MemoryInv /\ SendingInv
    BY DEF Undisturbed, LedgerInv, BookInv
  <1>t. /\ betTx \in [Epochs -> TxStates] /\ snap \in Epochs /\ cur \in Epochs
        /\ Epochs \subseteq Nat /\ snap <= cur
    BY <1>0 DEF TypeOK, MarketTypeOK, Epochs, MemoryInv
  <1>1. /\ pc \in Resting /\ pc' \in Resting /\ todo = {} /\ todo' = {}
        /\ recNow' \in {recNow, 0}
        /\ UNCHANGED <<now, cur, priced, lockTs, closeTs, outcome, userRounds, paid, claimPool,
                       claimRes, excuse>>
    BY <1>0, RestMoves
  <1>2. \/ snap' = snap /\ pc # "handshake" /\ (pc = "down" => pc' = "handshake")
        \/ snap' = cur
        \/ recNow' = 0 /\ pc' \in {"down", "handshake"}
    BY <1>0, RestMoves
  <1>3. \/ UNCHANGED betTx
        \/ /\ betTx[snap] = "none" /\ betTx' = [betTx EXCEPT ![snap] = "pool"]
           /\ snap' = snap /\ bet' = snap /\ pc' = "sent" /\ pc = "decide"
    BY <1>0, RestMoves
  <1>4. \A e \in Epochs : Registered(e)' <=> Registered(e)
    BY <1>t, <1>3 DEF Registered
  <1>5. \A e \in Epochs : Due(e)' => Due(e) /\ recNow' = recNow
    BY <1>1, <1>4, DueFrame
  <1>6. RoundsFlow'
    BY <1>0, <1>1, FlowFrame
  <1>7. ListedInv'
    <2>1. \A e \in Epochs : Registered(e)' => \E i \in 1 .. Len(userRounds') : userRounds'[i] = e
      BY <1>0, <1>1, <1>4 DEF ListedInv
    <2>2. ASSUME pc' \notin {"down", "handshake"}, NEW e \in Epochs, e > snap'
          PROVE  betTx'[e] = "none"
      <3>1. CASE snap' = snap /\ pc # "handshake" /\ (pc = "down" => pc' = "handshake")
        BY <1>0, <1>t, <1>3, <2>2, <3>1 DEF ListedInv
      <3>2. CASE snap' = cur
        <4>1. betTx[e] = "none" /\ e # snap
          BY <1>0, <1>t, <2>2, <3>2 DEF RoundsInv
        <4>2. QED
          BY <1>t, <1>3, <4>1
      <3>3. QED
        BY <1>2, <2>2, <3>1, <3>2
    <2>3. QED
      BY <2>1, <2>2 DEF ListedInv
  <1>8. StakeInv'
    BY <1>0, RestKeepsStakes
  <1>9. DueInv'
    <2>1. ASSUME NEW e \in Epochs, Due(e)' PROVE e < snap' - 1
      <3>1. Due(e) /\ recNow' = recNow
        BY <1>5, <2>1
      <3>2. e < snap - 1
        BY <1>0, <3>1 DEF DueInv
      <3>n. e \in Nat /\ snap \in Nat /\ cur \in Nat /\ snap <= cur
        BY <1>t
      <3>3. CASE snap' \in {snap, cur}
        <4>1. snap' \in Nat /\ snap' >= snap
          BY <3>3, <3>n
        <4>2. \A a \in Nat : a >= snap => e < a - 1
          BY <3>2, <3>n
        <4>3. QED
          BY <4>1, <4>2
      <3>4. CASE recNow' = 0
        <4>1. closeTs[e] + Buffer < 0 /\ closeTs[e] \in Nat /\ Buffer \in Nat
          BY <3>1, <3>4, MarketAssumption DEF Due, TypeOK, MarketTypeOK
        <4>2. QED
          BY <4>1
      <3>5. QED
        BY <1>2, <3>3, <3>4
    <2>2. ASSUME NEW e \in Epochs, Due(e)'
          PROVE  e \in todo' \/ status'[e] \in {"SETTLED_WON", "SETTLED_LOST", "CLAIMED"}
      <3>1. status[e] \in {"SETTLED_WON", "SETTLED_LOST", "CLAIMED"}
        BY <1>0, <1>1, <1>5, <2>2 DEF DueInv
      <3>2. EntryMoves(e)
        BY BotStepBook DEF Rest, BotStep
      <3>3. QED
        BY <1>1, <3>1, <3>2, SettledStays
    <2>3. pc' # "alertLost"
      BY <1>1 DEF Resting, Betting
    <2>4. QED
      BY <1>1, <2>1, <2>2, <2>3 DEF DueInv
  <1>10. PayInv'
    <2>1. pc' \notin Scanning /\ pc \notin Scanning /\ pc' # "claimWait" /\ pc # "claimWait"
      BY <1>1 DEF Resting, Scanning, Betting
    <2>2. \A e \in Epochs : Due(e)' /\ outcome'[e] = "win" => e \in paid'
      BY <1>0, <1>1, <1>5 DEF PayInv
    <2>3. QED
      BY <1>0, <1>1, <2>1, <2>2 DEF PayInv
  <1>11. QED
    BY <1>6, <1>7, <1>8, <1>9, <1>10 DEF Undisturbed

-----------------------------------------------------------------------------
(* The pass.                                                               *)

\* Chain and excuses as they were, and no claim under way.
LEMMA PassFrame ==
    ASSUME TypeOK, BookInv, Undisturbed, faults = 0, faults' = 0,
           UNCHANGED <<marketVars, excuse, snap>>,
           pc \in Resting \cup Reconciling \cup {"scan"}, pc' \in Reconciling \cup {"scan"},
           pc \notin {"down", "handshake", "sent", "submitted"},
           \A e \in Epochs : EntryMoves(e), UNCHANGED sized
    PROVE  RoundsFlow' /\ ListedInv' /\ StakeInv' /\ PayInv'
  <1>0. RoundsFlow /\ ListedInv /\ StakeInv /\ PayInv
    BY DEF Undisturbed
  <1>1. RoundsFlow'
    BY <1>0, FlowFrame DEF marketVars
  <1>2. ListedInv'
    BY <1>0 DEF ListedInv, marketVars, Registered
  <1>3. StakeInv'
    <2>1. \A e \in Epochs : Settlement(e) # "absent"
      BY DEF Settlement, TypeOK, MarketTypeOK, Outcomes
    <2>2. \A e \in Epochs : status[e] # "absent" => status'[e] # "absent"
      BY <2>1 DEF EntryMoves
    <2>3. QED
      BY <1>0, <2>2 DEF StakeInv, marketVars
  <1>4. PayInv'
    BY <1>0 DEF PayInv, marketVars, Resting, Reconciling, Scanning, Betting
  <1>5. QED
    BY <1>1, <1>2, <1>3, <1>4

\* A pass begins with every stake that is due in its hands or settled.
LEMMA StartKeepsCalm ==
    ASSUME TypeOK, LedgerInv, BookInv, Undisturbed, Wake \/ (Handshake /\ ~started),
           faults = 0, faults' = 0
    PROVE  Undisturbed'
  <1>0. /\ RoundsFlow /\ ListedInv /\ StakeInv /\ DueInv /\ PayInv
        /\ RoundsInv /\ RefundsAreFinal /\ LedgerMatchesChain
    BY DEF Undisturbed, LedgerInv
  <1>1. /\ pc \in {"handshake", "asleep"} /\ pc' = "reconcile" /\ todo' = Examined /\ recNow' = now
        /\ snap' = cur /\ lockTs[cur] > now
        /\ UNCHANGED <<now, cur, priced, lockTs, closeTs, outcome, betTx, userRounds, paid,
                       claimPool, claimRes, excuse, status, sized>>
    BY DEF Wake, Handshake, StartReconcile, Coherent, marketVars, diskVars, historyVars
  <1>t. /\ closeTs \in [Epochs -> Nat] /\ lockTs \in [Epochs -> Nat] /\ Epochs \subseteq Nat
        /\ cur \in Epochs /\ now \in Nat /\ Buffer \in Nat /\ cur >= 2 /\ cur - 1 \in Epochs
        /\ status \in [Epochs -> Statuses]
    BY <1>0, MarketAssumption DEF TypeOK, MarketTypeOK, Epochs, RoundsInv
  <1>2. ASSUME NEW e \in Epochs, Due(e)'
        PROVE  /\ e < cur - 1 /\ outcome[e] # "none"
               /\ e \in todo' \/ status[e] \in {"SETTLED_WON", "SETTLED_LOST", "CLAIMED"}
    <2>1. Registered(e) /\ closeTs[e] + Buffer < now
      BY <1>1, <1>2 DEF Due, Registered
    <2>n. /\ e \in Nat /\ cur \in Nat /\ closeTs[e] \in Nat /\ closeTs[cur - 1] \in Nat
          /\ lockTs[cur] \in Nat /\ closeTs[cur - 1] = lockTs[cur]
      BY <1>0, <1>t DEF RoundsFlow
    <2>2. e <= cur
      BY <1>0, <2>1, <2>n DEF RoundsInv, Registered
    <2>3. e < cur - 1
      <3>1. SUFFICES ASSUME e >= cur - 1 PROVE FALSE
        BY <2>n
      <3>2. closeTs[cur - 1] <= closeTs[e]
        BY <1>0, <1>t, <2>2, <3>1 DEF RoundsFlow
      <3>3. QED
        BY <1>1, <1>t, <2>1, <2>n, <3>2
    <2>4. outcome[e] # "none"
      BY <1>0, <2>3 DEF RoundsFlow
    <2>5. e \in sized /\ status[e] # "absent"
      BY <1>0, <1>1, <2>1 DEF StakeInv, Registered
    <2>6. status[e] \notin {"LATE", "REVERTED", "SETTLED_REFUND"}
      BY <1>0, <2>1, <2>4 DEF LedgerMatchesChain
    <2>7. status[e] \in OpenStatuses \cup RecheckStatuses \cup {"SETTLED_WON", "SETTLED_LOST", "CLAIMED"}
      BY <1>t, <2>5, <2>6 DEF Statuses, OpenStatuses, RecheckStatuses
    <2>8. QED
      BY <1>1, <2>3, <2>4, <2>5, <2>7 DEF Examined
  <1>3. RoundsFlow'
    BY <1>0, <1>1, FlowFrame
  <1>4. ListedInv'
    <2>1. \A e \in Epochs : e > cur => betTx[e] = "none"
      BY <1>0 DEF RoundsInv
    <2>2. QED
      BY <1>0, <1>1, <2>1 DEF ListedInv, Registered
  <1>5. StakeInv'
    BY <1>0, <1>1 DEF StakeInv
  <1>6. DueInv'
    BY <1>1, <1>2 DEF DueInv, Reconciling
  <1>7. PayInv'
    BY <1>0, <1>1 DEF PayInv, Scanning, Resting, Betting
  <1>8. QED
    BY <1>3, <1>4, <1>5, <1>6, <1>7 DEF Undisturbed

Reconcile ==
    \/ LookUpReceipt \/ RecheckRegistered \/ RecheckUnregistered
    \/ LeaveOpen \/ Settle \/ AlertLost \/ EndReconcile

\* The pass goes by no entry that is due without settling it.
LEMMA ReconcileMoves ==
    ASSUME TypeOK, LedgerInv, DueInv, RoundsFlow, Reconcile, faults = 0, faults' = 0, ~torn
    PROVE  /\ pc \in Reconciling
           /\ pc' \in Reconciling \/ (pc' = "scan" /\ todo = {})
           /\ UNCHANGED <<marketVars, snap, recNow, excuse, sized, bet>>
           /\ \/ todo' = todo
              \/ todo' = todo \ {This} /\ (This \in Epochs => ~Due(This))
              \/ /\ todo' = todo \ {This}
                 /\ This \in Epochs => status'[This] \in {"SETTLED_WON", "SETTLED_LOST", "CLAIMED"}
           /\ pc' = "alertLost" =>
                 todo' = todo /\ (This \in Epochs => status'[This] = "SETTLED_LOST")
  <1> USE DEF Reconciling, betVars, diskVars, passVars, historyVars
  <1>0. snap \in Epochs /\ closeTs \in [Epochs -> Nat] /\ outcome \in [Epochs -> Outcomes]
        /\ status \in [Epochs -> Statuses] /\ Buffer \in Nat /\ recNow \in Nat
    BY MarketAssumption DEF TypeOK, MarketTypeOK
  <1>1. CASE LookUpReceipt \/ EndReconcile
    BY <1>1 DEF LookUpReceipt, EndReconcile
  <1>2. CASE RecheckRegistered
    BY <1>2 DEF RecheckRegistered
  <1>3. CASE RecheckUnregistered
    BY <1>3 DEF RecheckUnregistered, NextEpoch, Due
  <1>4. CASE LeaveOpen
    <2>1. This \in Epochs => ~Due(This)
      BY <1>0, <1>4 DEF LeaveOpen, NotDue, Due
    <2>2. QED
      BY <1>4, <2>1 DEF LeaveOpen, NextEpoch, Settling
  <1>5. CASE Settle
    <2>n. snap \in Nat /\ cur \in Nat /\ snap <= cur /\ Epochs \subseteq Nat
      BY DEF TypeOK, MarketTypeOK, Epochs, LedgerInv, MemoryInv
    <2>s. \A e \in Epochs : e < snap - 1 => e < cur - 1
      BY <2>n
    <2>1. This \in Epochs /\ Due(This) => outcome[This] # "none"
      BY <2>s DEF DueInv, RoundsFlow
    <2>2. status' = [status EXCEPT ![This] = Settlement(This)]
      BY <1>5, NoFaults DEF Settle
    <2>3. /\ This \in Epochs /\ Due(This) => status'[This] \in {"SETTLED_WON", "SETTLED_LOST"}
          /\ This \in Epochs => status'[This] = Settlement(This)
      BY <1>0, <2>1, <2>2 DEF Settlement, Outcomes
    <2>4. QED
      BY <1>5, <2>3 DEF Settle, NextEpoch, Settling
  <1>6. CASE AlertLost
    <2>1. This \in Epochs => status[This] = "SETTLED_LOST"
      BY <1>6 DEF AlertLost, DueInv
    <2>2. QED
      BY <1>6, <2>1 DEF AlertLost, NextEpoch
  <1>7. QED
    BY <1>1, <1>2, <1>3, <1>4, <1>5, <1>6 DEF Reconcile

LEMMA ReconcileKeepsCalm ==
    ASSUME TypeOK, LedgerInv, BookInv, Undisturbed, Reconcile, faults = 0, faults' = 0, ~torn
    PROVE  Undisturbed'
  <1>0. DueInv /\ RoundsFlow
    BY DEF Undisturbed
  <1>1. /\ pc \in Reconciling
        /\ pc' \in Reconciling \/ (pc' = "scan" /\ todo = {})
        /\ UNCHANGED <<marketVars, snap, recNow, excuse, sized, bet>>
    BY <1>0, ReconcileMoves
  <1>2. \/ todo' = todo
        \/ todo' = todo \ {This} /\ (This \in Epochs => ~Due(This))
        \/ /\ todo' = todo \ {This}
           /\ This \in Epochs => status'[This] \in {"SETTLED_WON", "SETTLED_LOST", "CLAIMED"}
    BY <1>0, ReconcileMoves
  <1>3. \A e \in Epochs : EntryMoves(e)
    BY BotStepBook DEF Reconcile, BotStep
  <1>4. RoundsFlow' /\ ListedInv' /\ StakeInv' /\ PayInv'
    BY <1>1, <1>3, PassFrame DEF Reconciling, Resting
  <1>5. \A e \in Epochs : Due(e)' <=> Due(e)
    BY <1>1 DEF Due, Registered, marketVars
  <1>6. DueInv'
    <2>1. ASSUME NEW e \in Epochs, Due(e)
          PROVE  e \in todo' \/ status'[e] \in {"SETTLED_WON", "SETTLED_LOST", "CLAIMED"}
      <3>1. CASE e \in todo
        BY <1>2, <2>1, <3>1
      <3>2. CASE status[e] \in {"SETTLED_WON", "SETTLED_LOST", "CLAIMED"}
        BY <1>3, <2>1, <3>2, SettledStays
      <3>3. QED
        BY <1>0, <2>1, <3>1, <3>2 DEF DueInv
    <2>2. pc' \notin Reconciling => todo' = {}
      BY <1>1, <1>2
    <2>3. pc' = "alertLost" /\ This' \in Epochs => status'[This'] = "SETTLED_LOST"
      BY <1>0, ReconcileMoves DEF This
    <2>4. QED
      BY <1>0, <1>1, <1>5, <2>1, <2>2, <2>3 DEF DueInv
  <1>7. QED
    BY <1>4, <1>6 DEF Undisturbed

-----------------------------------------------------------------------------
(* The claim scan.                                                         *)

ScanStep ==
    \/ NothingToScan \/ ScanRounds \/ SendClaim \/ ClaimConfirmed \/ ClaimReverted
    \/ FinishScan \/ AlertClaim \/ MarkClaim \/ EndMarking

LEMMA ScanMoves ==
    ASSUME ScanStep
    PROVE  /\ pc \in Scanning \cup {"scan"} /\ pc' \in Scanning \cup {"handshake", "decide"}
           /\ UNCHANGED <<now, cur, priced, lockTs, closeTs, outcome, betTx, userRounds, paid,
                          snap, bet, todo, recNow, sized>>
  <1> USE DEF Scanning, marketVars, diskVars, betVars, passVars
  <1>1. CASE NothingToScan \/ FinishScan
    BY <1>1 DEF NothingToScan, FinishScan, EndScan
  <1>2. CASE ScanRounds
    BY <1>2 DEF ScanRounds
  <1>3. CASE SendClaim
    BY <1>3 DEF SendClaim
  <1>4. CASE ClaimConfirmed \/ ClaimReverted
    BY <1>4 DEF ClaimConfirmed, ClaimReverted
  <1>5. CASE AlertClaim \/ MarkClaim \/ EndMarking
    BY <1>5 DEF AlertClaim, MarkClaim, EndMarking
  <1>6. QED
    BY <1>1, <1>2, <1>3, <1>4, <1>5 DEF ScanStep

\* A round the scan goes through or leaves is over or due to a later one.
LEMMA ScannedRound ==
    ASSUME TypeOK, LedgerInv, RoundsFlow, ListedInv, pc = "scan",
           NEW e \in Epochs, Registered(e), e \notin {snap - 1, snap}
    PROVE  e < snap - 1 /\ outcome[e] # "none"
  <1>1. /\ e \in Nat /\ snap \in Nat /\ cur \in Nat /\ snap <= cur
    BY DEF TypeOK, MarketTypeOK, Epochs, LedgerInv, MemoryInv
  <1>2. ~(e > snap)
    BY DEF ListedInv, Registered
  <1>3. e < snap - 1
    BY <1>1, <1>2
  <1>4. e < cur - 1
    BY <1>1, <1>3
  <1>5. QED
    BY <1>3, <1>4 DEF RoundsFlow

\* The scan stops at no round that is due, and before none.
LEMMA DueIsScanned ==
    ASSUME TypeOK, LedgerInv, ScanInv, RoundsFlow, DueInv,
           NEW n \in cursor .. Len(userRounds), ScanEdge(n, {}),
           NEW i \in 1 .. Len(userRounds), i > n
    PROVE  ~Due(userRounds[i])
  <1> DEFINE e == userRounds[i]
             d == userRounds[n + 1]
  <1>1. Len(userRounds) \in Nat /\ cursor \in Nat /\ userRounds \in Seq(Epochs)
    BY LenProperties DEF TypeOK, MarketTypeOK
  <1>2. n + 1 \in 1 .. Len(userRounds) /\ n < Len(userRounds) /\ (n + 1 < i \/ n + 1 = i)
    BY <1>1
  <1>3. d \in Epochs /\ e \in Epochs /\ e <= cur
    BY <1>1, <1>2, ElementOfSeq DEF ScanInv, OrderInv
  <1>4. d <= e
    <2>1. n + 1 < i => d < e
      BY <1>2 DEF ScanInv, OrderInv
    <2>2. d \in Nat /\ e \in Nat
      BY <1>3 DEF Epochs
    <2>3. QED
      BY <1>2, <2>1, <2>2
  <1>5. ~Scannable(d, {})
    BY <1>2 DEF ScanEdge
  <1> HIDE DEF e, d
  <1>6. /\ closeTs[d] \in Nat /\ closeTs[e] \in Nat /\ Buffer \in Nat /\ now \in Nat
        /\ recNow \in Nat /\ recNow <= now /\ snap \in Nat /\ d \in Nat /\ e \in Nat
    BY <1>3, MarketAssumption DEF TypeOK, MarketTypeOK, Epochs, LedgerInv, MemoryInv
  <1>7. closeTs[d] <= closeTs[e]
    BY <1>3, <1>4 DEF RoundsFlow
  <1>8. ~Due(e)
    <2>1. SUFFICES ASSUME Due(e) PROVE FALSE
      OBVIOUS
    <2>2. e < snap - 1 /\ closeTs[e] + Buffer < recNow
      BY <1>3, <2>1 DEF DueInv, Due
    <2>3. d \notin {snap - 1, snap}
      BY <1>4, <1>6, <2>2
    <2>4. now - closeTs[d] >= Buffer
      BY <1>6, <1>7, <2>2
    <2>5. QED
      BY <1>5, <2>3, <2>4 DEF Scannable
  <1>9. QED
    BY <1>8 DEF e

\* What is over without an excuse and was won has been paid.
LEMMA OverIsPaid ==
    ASSUME NEW e \in Over, excuse[e] = "none", outcome[e] = "win"
    PROVE  e \in paid
  BY DEF Over

LEMMA ScanRoundsPays ==
    ASSUME TypeOK, LedgerInv, ScanInv, RoundsFlow, ListedInv, DueInv, PayInv, ScanRounds,
           faults = 0, faults' = 0
    PROVE  PayInv'
  <1>0. /\ pc = "scan" /\ pc' = "claim"
        /\ UNCHANGED <<now, cur, closeTs, outcome, betTx, userRounds, paid, claimPool, snap, recNow>>
    BY DEF ScanRounds, marketVars, passVars
  <1>1. PICK n \in cursor .. Len(userRounds) :
        \E blind, mute \in SUBSET {userRounds[i] : i \in cursor + 1 .. Len(userRounds)} :
          LET passed == {userRounds[i] : i \in cursor + 1 .. n}
              found == {e \in passed \ mute : Entitled(e)}
          IN  /\ ScanEdge(n, blind)
              /\ IF blind \cup mute = {} THEN UNCHANGED faults ELSE Fault("partial")
              /\ edge' = n
              /\ pending' = found
              /\ excuse' = [e \in Epochs |->
                    IF e \in passed \ (found \cup paid)
                    THEN IF e \in blind \cup mute THEN "partial"
                         ELSE IF OracleCalled(e) THEN excuse[e] ELSE "boundary"
                    ELSE excuse[e]]
    BY Zenon DEF ScanRounds
  <1> DEFINE passed == {userRounds[i] : i \in cursor + 1 .. n}
             found == {e \in passed : Entitled(e)}
  <1>2. PICK blind, mute \in SUBSET {userRounds[i] : i \in cursor + 1 .. Len(userRounds)} :
              /\ ScanEdge(n, blind)
              /\ IF blind \cup mute = {} THEN UNCHANGED faults ELSE Fault("partial")
              /\ edge' = n
              /\ pending' = {e \in passed \ mute : Entitled(e)}
              /\ excuse' = [e \in Epochs |->
                    IF e \in passed \ ({x \in passed \ mute : Entitled(x)} \cup paid)
                    THEN IF e \in blind \cup mute THEN "partial"
                         ELSE IF OracleCalled(e) THEN excuse[e] ELSE "boundary"
                    ELSE excuse[e]]
    BY <1>1, Zenon
  <1>3. blind \cup mute = {}
    BY <1>2, NoFaults
  <1>4. blind = {} /\ mute = {}
    BY <1>3
  <1>5. passed \ mute = passed
    BY <1>4
  <1>6. /\ ScanEdge(n, {}) /\ edge' = n /\ pending' = found
        /\ excuse' = [e \in Epochs |->
              IF e \in passed \ (found \cup paid)
              THEN IF OracleCalled(e) THEN excuse[e] ELSE "boundary"
              ELSE excuse[e]]
    <2>1. \A e : e \notin blind \cup mute
      BY <1>3
    <2>2. QED
      BY <1>2, <1>4, <1>5, <2>1, Zenon
  <1>n. Len(userRounds) \in Nat /\ cursor \in Nat /\ userRounds \in Seq(Epochs)
    BY LenProperties DEF TypeOK, MarketTypeOK
  <1>7. ASSUME NEW e \in passed
        PROVE  e \in Epochs /\ Registered(e) /\ outcome[e] # "none"
    <2>1. PICK i \in cursor + 1 .. n : e = userRounds[i]
      BY <1>7
    <2>2. i \in 1 .. Len(userRounds)
      BY <1>n, <2>1
    <2>3. e \in Epochs /\ Registered(e)
      BY <1>n, <2>1, <2>2, ElementOfSeq DEF ScanInv, OrderInv
    <2>4. Scannable(e, {})
      BY <1>6, <2>1 DEF ScanEdge
    <2>5. e \notin {snap - 1, snap}
      BY <2>4 DEF Scannable
    <2>6. QED
      BY <1>0, <2>3, <2>5, ScannedRound
  <1>8. \A e \in Epochs : excuse'[e] = "none"
    BY <1>6, <1>7 DEF PayInv, OracleCalled
  <1>9. \A e \in pending' : Claimable(e)'
    BY <1>0, <1>6, <1>7 DEF Entitled, Claimable, Refundable, OracleCalled, Registered
  <1>10. \A i \in 1 .. Len(userRounds) : i > n => ~Due(userRounds[i])
    BY <1>6, DueIsScanned
  <1>11. \A i \in 1 .. Len(userRounds') : i > edge' => ~Due(userRounds[i])'
    BY <1>0, <1>6, <1>10 DEF Due, Registered
  <1>12. pc' \notin Resting
    BY <1>0 DEF Resting, Betting
  <1>13. QED
    BY <1>0, <1>8, <1>9, <1>11, <1>12 DEF PayInv

\* The scan pays all that is due.
LEMMA ScanPays ==
    ASSUME TypeOK, LedgerInv, ScanInv, RoundsFlow, ListedInv, DueInv, PayInv, ScanStep,
           faults = 0, faults' = 0
    PROVE  PayInv'
  <1>0. /\ UNCHANGED <<now, cur, closeTs, outcome, betTx, userRounds, paid, recNow>>
        /\ \A e \in Epochs : excuse[e] = "none"
    BY ScanMoves DEF PayInv
  <1>c. \A e : (Due(e)' <=> Due(e)) /\ (Claimable(e)' <=> Claimable(e))
    BY <1>0 DEF Due, Claimable, Registered
  <1>l. \A e \in Epochs : Due(e) => \E i \in 1 .. Len(userRounds) : userRounds[i] = e
    BY DEF Due, ListedInv
  <1>1. CASE NothingToScan
    <2>1. /\ pc = "scan" /\ pc' \in {"handshake", "decide"} /\ cursor >= Len(userRounds)
          /\ UNCHANGED <<claimPool, excuse>>
      BY <1>1 DEF NothingToScan, EndScan, marketVars, historyVars
    <2>2. \A i \in 1 .. Len(userRounds) : userRounds[i] \in Over
      BY <2>1, LenProperties DEF ScanInv, CursorInv, TypeOK, MarketTypeOK
    <2>3. \A e \in Epochs : Due(e) /\ outcome[e] = "win" => e \in paid
      BY <1>0, <1>l, <2>2, OverIsPaid
    <2>4. QED
      BY <1>0, <1>c, <2>1, <2>3 DEF PayInv, Scanning
  <1>2. CASE ScanRounds
    BY <1>2, ScanRoundsPays
  <1>3. CASE SendClaim
    <2>1. /\ pc = "claim" /\ pc' = "claimWait" /\ claimPool' = Append(claimPool, Chunk)
          /\ claimRes' = "pool" /\ UNCHANGED <<excuse, pending, edge>> /\ claimPool = <<>>
      BY <1>3 DEF SendClaim, historyVars, scanVars, PayInv
    <2>2. claimPool' = <<Chunk>> /\ Chunk' = Chunk
      BY <2>1 DEF Chunk
    <2>3. QED
      BY <1>0, <1>c, <2>1, <2>2 DEF PayInv, Scanning, Resting, Betting
  <1>4. CASE ClaimConfirmed
    <2>1. /\ pc = "claimWait" /\ pc' = "alertClaim" /\ claimRes = "success"
          /\ UNCHANGED <<claimPool, excuse, edge>> /\ pending' = pending \ Chunk
      BY <1>4 DEF ClaimConfirmed, historyVars, marketVars
    <2>2. claimPool = <<>>
      BY <2>1 DEF LedgerInv, ClaimInv
    <2>3. QED
      BY <1>0, <1>c, <2>1, <2>2 DEF PayInv, Scanning, Resting, Betting
  <1>5. CASE ClaimReverted
    BY <1>5 DEF ClaimReverted, PayInv
  <1>6. CASE FinishScan
    <2>1. /\ pc = "claim" /\ pc' \in {"handshake", "decide"} /\ pending = {}
          /\ UNCHANGED <<claimPool, excuse>>
      BY <1>6 DEF FinishScan, EndScan, marketVars, historyVars
    <2>2. \A i \in 1 .. Len(userRounds) : Due(userRounds[i]) => userRounds[i] \in Over
      <3> SUFFICES ASSUME NEW i \in 1 .. Len(userRounds), Due(userRounds[i])
                   PROVE  userRounds[i] \in Over
        OBVIOUS
      <3>1. ~(i > edge) /\ edge \in Nat /\ Len(userRounds) \in Nat
        BY <2>1, LenProperties DEF PayInv, Scanning, TypeOK, MarketTypeOK
      <3>2. i \in 1 .. edge
        BY <3>1
      <3>3. QED
        BY <2>1, <3>2 DEF ScanInv, CursorInv, Scanning
    <2>3. \A e \in Epochs : Due(e) /\ outcome[e] = "win" => e \in paid
      BY <1>0, <1>l, <2>2, OverIsPaid
    <2>4. QED
      BY <1>0, <1>c, <2>1, <2>3 DEF PayInv, Scanning
  <1>7. CASE AlertClaim \/ MarkClaim \/ EndMarking
    <2>1. /\ pc \in {"alertClaim", "markClaim"} /\ pc' \in {"alertClaim", "markClaim", "claim"}
          /\ UNCHANGED <<claimPool, excuse, edge, pending>>
      BY <1>7 DEF AlertClaim, MarkClaim, EndMarking, marketVars, historyVars, scanVars
    <2>2. QED
      BY <1>0, <1>c, <2>1 DEF PayInv, Scanning, Resting, Betting
  <1>8. QED
    BY <1>1, <1>2, <1>3, <1>4, <1>5, <1>6, <1>7 DEF ScanStep

LEMMA ScanKeepsCalm ==
    ASSUME TypeOK, LedgerInv, BookInv, ScanInv, Undisturbed, ScanStep, faults = 0, faults' = 0
    PROVE  Undisturbed'
  <1>0. RoundsFlow /\ ListedInv /\ StakeInv /\ DueInv /\ PayInv
    BY DEF Undisturbed
  <1>1. /\ pc \in Scanning \cup {"scan"} /\ pc' \in Scanning \cup {"handshake", "decide"}
        /\ UNCHANGED <<now, cur, priced, lockTs, closeTs, outcome, betTx, userRounds, paid,
                       snap, bet, todo, recNow, sized>>
    BY ScanMoves
  <1>2. \A e \in Epochs : EntryMoves(e)
    BY BotStepBook DEF ScanStep, BotStep
  <1>3. RoundsFlow'
    BY <1>0, <1>1, FlowFrame
  <1>4. ListedInv'
    BY <1>0, <1>1 DEF ListedInv, Registered, Scanning
  <1>5. StakeInv'
    <2>1. \A e \in Epochs : Settlement(e) # "absent"
      BY DEF Settlement, TypeOK, MarketTypeOK, Outcomes
    <2>2. \A e \in Epochs : status[e] # "absent" => status'[e] # "absent"
      BY <1>2, <2>1 DEF EntryMoves
    <2>3. QED
      BY <1>0, <1>1, <2>2 DEF StakeInv, Scanning
  <1>6. DueInv'
    <2>1. \A e : Due(e)' <=> Due(e)
      BY <1>1 DEF Due, Registered
    <2>2. todo = {}
      BY <1>0, <1>1 DEF DueInv, Reconciling, Scanning
    <2>3. \A e \in Epochs : Due(e) => status'[e] \in {"SETTLED_WON", "SETTLED_LOST", "CLAIMED"}
      BY <1>0, <1>2, <2>2, SettledStays DEF DueInv
    <2>4. pc' # "alertLost"
      BY <1>1 DEF Scanning
    <2>5. QED
      BY <1>0, <1>1, <2>1, <2>2, <2>3, <2>4 DEF DueInv
  <1>7. PayInv'
    BY <1>0, ScanPays
  <1>8. QED
    BY <1>3, <1>4, <1>5, <1>6, <1>7 DEF Undisturbed

-----------------------------------------------------------------------------
(* The chain.                                                              *)

\* What is due has its outcome.
LEMMA DueIsOver ==
    ASSUME TypeOK, LedgerInv, RoundsFlow, DueInv, NEW e \in Epochs, Due(e)
    PROVE  outcome[e] # "none"
  <1>1. e \in Nat /\ snap \in Nat /\ cur \in Nat /\ snap <= cur
    BY DEF TypeOK, MarketTypeOK, Epochs, LedgerInv, MemoryInv
  <1>2. e < snap - 1
    BY DEF DueInv
  <1>3. e < cur - 1
    BY <1>1, <1>2
  <1>4. QED
    BY <1>3 DEF RoundsFlow

\* A step of the chain that touches neither bets nor claims.
LEMMA ChainFrame ==
    ASSUME TypeOK, LedgerInv, Undisturbed, RoundsFlow',
           UNCHANGED <<betTx, userRounds, paid, claimPool, claimRes, excuse, status, sized, pc, snap,
                       bet, todo, recNow, edge, pending>>,
           \A e \in Epochs : Due(e)' => Due(e),
           \A e \in Epochs : outcome[e] # "none" => outcome'[e] = outcome[e]
    PROVE  Undisturbed'
  <1>0. RoundsFlow /\ ListedInv /\ StakeInv /\ DueInv /\ PayInv
    BY DEF Undisturbed
  <1>1. ListedInv' /\ StakeInv'
    BY <1>0 DEF ListedInv, StakeInv, Registered
  <1>2. DueInv'
    BY <1>0 DEF DueInv, This
  <1>3. \A e \in pending : Claimable(e) => Claimable(e)'
    BY DEF Claimable, Registered, TypeOK
  <1>4. \A e \in Epochs : Due(e) => outcome[e] # "none"
    BY <1>0, DueIsOver
  <1>5. pc \in Resting => \A e \in Epochs : Due(e)' /\ outcome'[e] = "win" => e \in paid'
    BY <1>0, <1>4 DEF PayInv
  <1>6. /\ Chunk' = Chunk /\ Len(userRounds') = Len(userRounds)
        /\ \A i \in 1 .. Len(userRounds) : userRounds[i] \in Epochs
    BY ElementOfSeq DEF Chunk, TypeOK, MarketTypeOK
  <1>7. \A i \in 1 .. Len(userRounds) : Due(userRounds[i])' => Due(userRounds[i])
    BY <1>6 DEF Due, Registered
  <1>8. PayInv'
    BY <1>0, <1>3, <1>5, <1>6, <1>7 DEF PayInv
  <1>9. QED
    BY <1>0, <1>1, <1>2, <1>8 DEF Undisturbed

LEMMA RoundKeepsCalm ==
    ASSUME TypeOK, LedgerInv, Undisturbed, ExecuteRound,
           UNCHANGED <<diskVars, pc, started, snap, wake, betVars, passVars, scanVars, historyVars>>
    PROVE  Undisturbed'
  <1> USE DEF diskVars, betVars, passVars, scanVars, historyVars
  <1>0. RoundsFlow /\ RoundsInv
    BY DEF Undisturbed, LedgerInv
  <1>n. /\ now \in Nat /\ recNow \in Nat /\ recNow <= now /\ Buffer \in Nat /\ Interval \in Nat
        /\ lockTs \in [Epochs -> Nat] /\ closeTs \in [Epochs -> Nat]
        /\ outcome \in [Epochs -> Outcomes]
    BY MarketAssumption DEF TypeOK, MarketTypeOK, LedgerInv, MemoryInv
  <1>e. cur \in Epochs /\ cur >= 2 /\ cur < LastEpoch /\ LastEpoch \in Nat
    BY <1>0, MarketAssumption DEF ExecuteRound, TypeOK, MarketTypeOK, RoundsInv
  <1>t. /\ now \in Nat /\ cur \in Epochs /\ Epochs \subseteq Nat /\ cur \in Nat /\ cur >= 2
        /\ cur - 1 \in Epochs /\ cur + 1 \in Epochs /\ recNow \in Nat /\ recNow <= now
        /\ lockTs \in [Epochs -> Nat] /\ closeTs \in [Epochs -> Nat]
        /\ outcome \in [Epochs -> Outcomes] /\ Buffer \in Nat /\ Interval \in Nat
    BY <1>n, <1>e DEF Epochs
  <1>1. /\ closeTs[cur - 1] <= now /\ priced' = priced \cup {cur} /\ cur' = cur + 1
        /\ closeTs' = [closeTs EXCEPT ![cur] = now + Interval, ![cur + 1] = now + 2 * Interval]
        /\ lockTs' = [lockTs EXCEPT ![cur + 1] = now + Interval]
        /\ UNCHANGED <<now, betTx, userRounds, paid, claimPool, claimRes>>
    BY DEF ExecuteRound, OpenNext
  <1>2. PICK o \in {"win", "lose"} : outcome' = [outcome EXCEPT ![cur - 1] = o]
    BY DEF ExecuteRound
  <1>3. /\ closeTs'[cur] = now + Interval /\ closeTs'[cur + 1] = now + 2 * Interval
        /\ lockTs'[cur + 1] = now + Interval
        /\ \A e \in Epochs : e < cur => closeTs'[e] = closeTs[e] /\ closeTs[e] <= now
    <2>1. closeTs'[cur] = now + Interval /\ closeTs'[cur + 1] = now + 2 * Interval
      BY <1>t, <1>1
    <2>2. lockTs'[cur + 1] = now + Interval
      BY <1>t, <1>1
    <2>3. ASSUME NEW e \in Epochs, e < cur
          PROVE  closeTs'[e] = closeTs[e] /\ closeTs[e] <= now
      <3>1. e \in Nat /\ e # cur /\ e # cur + 1 /\ e <= cur - 1 /\ cur - 1 <= cur
        BY <1>t, <2>3
      <3>2. closeTs'[e] = closeTs[e]
        BY <1>t, <1>1, <3>1
      <3>3. closeTs[e] <= closeTs[cur - 1]
        BY <1>0, <1>t, <3>1 DEF RoundsFlow
      <3>4. closeTs[e] \in Nat /\ closeTs[cur - 1] \in Nat
        BY <1>t
      <3>5. QED
        BY <1>t, <1>1, <3>2, <3>3, <3>4
    <2>4. QED
      BY <2>1, <2>2, <2>3
  <1>4. RoundsFlow'
    <2>1. cur' - 1 \in priced' /\ closeTs'[cur' - 1] = lockTs'[cur']
      BY <1>t, <1>1, <1>3
    <2>2. ASSUME NEW e \in Epochs, e < cur' - 1 PROVE outcome'[e] # "none"
      <3>1. e \in Nat /\ (e < cur - 1 \/ e = cur - 1)
        BY <1>t, <1>1, <2>2
      <3>2. QED
        BY <1>0, <1>t, <1>2, <3>1 DEF RoundsFlow
    <2>3. ASSUME NEW d \in Epochs, NEW e \in Epochs, d <= e, e <= cur'
          PROVE  closeTs'[d] <= closeTs'[e]
      <3>n. d \in Nat /\ e \in Nat /\ closeTs[d] \in Nat /\ closeTs[e] \in Nat
        BY <1>t
      <3>1. CASE e < cur
        <4>1. d < cur /\ e <= cur
          BY <1>t, <2>3, <3>n, <3>1
        <4>2. QED
          BY <1>0, <1>3, <2>3, <3>1, <4>1 DEF RoundsFlow
      <3>2. CASE e = cur
        <4>1. d = cur \/ d < cur
          BY <1>t, <2>3, <3>n, <3>2
        <4>2. QED
          BY <1>t, <1>3, <3>n, <3>2, <4>1
      <3>3. CASE e = cur + 1
        <4>1. d = cur + 1 \/ d = cur \/ d < cur
          BY <1>t, <2>3, <3>n, <3>3
        <4>2. QED
          BY <1>t, <1>3, <3>n, <3>3, <4>1
      <3>4. QED
        BY <1>t, <1>1, <2>3, <3>n, <3>1, <3>2, <3>3
    <2>4. QED
      BY <2>1, <2>2, <2>3 DEF RoundsFlow
  <1>5. ASSUME NEW e \in Epochs, Due(e)' PROVE Due(e)
    <2>1. Registered(e) /\ closeTs'[e] + Buffer < recNow /\ e \in Nat
      BY <1>t, <1>1, <1>5 DEF Due, Registered
    <2>2. e <= cur
      BY <1>0, <1>t, <2>1 DEF RoundsInv, Registered
    <2>3. e # cur
      BY <1>t, <1>3, <2>1
    <2>4. e < cur
      BY <1>t, <2>1, <2>2, <2>3
    <2>5. QED
      BY <1>3, <2>1, <2>4 DEF Due
  <1>6. \A e \in Epochs : outcome[e] # "none" => outcome'[e] = outcome[e]
    <2>1. outcome[cur - 1] = "none"
      BY <1>0, <1>t DEF RoundsInv
    <2>2. QED
      BY <1>t, <1>2, <2>1
  <1>7. QED
    BY <1>1, <1>4, <1>5, <1>6, ChainFrame

LEMMA MineBetKeepsCalm ==
    ASSUME TypeOK, LedgerInv, Undisturbed, NEW b \in BetEpochs, MineBet(b),
           UNCHANGED <<diskVars, pc, started, snap, wake, betVars, passVars, scanVars, historyVars>>
    PROVE  Undisturbed'
  <1> USE DEF diskVars, betVars, passVars, scanVars, historyVars
  <1>0. RoundsFlow /\ ListedInv /\ StakeInv /\ DueInv /\ PayInv /\ RoundsInv
    BY DEF Undisturbed, LedgerInv
  <1>t. /\ now \in Nat /\ cur \in Epochs /\ Epochs \subseteq Nat /\ b \in Epochs
        /\ recNow \in Nat /\ recNow <= now /\ betTx \in [Epochs -> TxStates]
        /\ lockTs \in [Epochs -> Nat] /\ closeTs \in [Epochs -> Nat] /\ Buffer \in Nat
        /\ Interval \in Nat /\ userRounds \in Seq(Epochs) /\ Len(userRounds) \in Nat
    BY MarketAssumption, LenProperties
    DEF TypeOK, MarketTypeOK, Epochs, BetEpochs, LedgerInv, MemoryInv
  <1>1. /\ betTx[b] = "pool"
        /\ UNCHANGED <<now, cur, priced, lockTs, closeTs, outcome, paid, claimPool, claimRes>>
    BY DEF MineBet
  <1>2. \/ /\ b = cur /\ now < lockTs[b] /\ betTx' = [betTx EXCEPT ![b] = "ok"]
           /\ userRounds' = Append(userRounds, b)
        \/ /\ betTx' \in {[betTx EXCEPT ![b] = "reverted"], [betTx EXCEPT ![b] = "late"]}
           /\ userRounds' = userRounds
    BY DEF MineBet
  <1>3. /\ \A i \in 1 .. Len(userRounds) : userRounds'[i] = userRounds[i]
        /\ Len(userRounds') \in {Len(userRounds), Len(userRounds) + 1}
        /\ userRounds' # userRounds =>
              /\ Len(userRounds') = Len(userRounds) + 1 /\ userRounds'[Len(userRounds) + 1] = b
              /\ b = cur /\ now < lockTs[b]
        /\ betTx'[b] = "ok" => userRounds' = Append(userRounds, b) /\ b = cur /\ now < lockTs[b]
    <2>1. CASE userRounds' = Append(userRounds, b)
      BY <1>t, <1>2, <2>1, AppendProperties
    <2>2. CASE userRounds' = userRounds
      <3>1. betTx'[b] = "ok" => b = cur /\ now < lockTs[b] /\ userRounds' = Append(userRounds, b)
        BY <1>t, <1>2, <2>2
      <3>2. QED
        BY <2>2, <3>1
    <2>3. QED
      BY <1>2, <2>1, <2>2
  <1>4. /\ \A e \in Epochs : e # b => betTx'[e] = betTx[e]
        /\ betTx'[b] \in {"ok", "late", "reverted"}
    BY <1>t, <1>2
  <1>5. RoundsFlow'
    BY <1>0, <1>1, FlowFrame
  <1>6. ListedInv'
    <2>1. ASSUME NEW e \in Epochs, Registered(e)'
          PROVE  \E i \in 1 .. Len(userRounds') : userRounds'[i] = e
      <3>1. CASE e # b
        <4>1. PICK i \in 1 .. Len(userRounds) : userRounds[i] = e
          BY <1>0, <1>4, <2>1, <3>1 DEF ListedInv, Registered
        <4>2. i \in 1 .. Len(userRounds')
          BY <1>t, <1>3
        <4>3. QED
          BY <1>3, <4>1, <4>2
      <3>2. CASE e = b
        <4>1. userRounds' = Append(userRounds, b)
          BY <1>3, <2>1, <3>2 DEF Registered
        <4>2. Len(userRounds') = Len(userRounds) + 1 /\ userRounds'[Len(userRounds) + 1] = b
          BY <1>t, <4>1, AppendProperties
        <4>3. Len(userRounds) + 1 \in 1 .. Len(userRounds')
          BY <1>t, <4>2
        <4>4. QED
          BY <3>2, <4>2, <4>3
      <3>3. QED
        BY <3>1, <3>2
    <2>2. QED
      BY <1>0, <1>1, <1>4, <2>1 DEF ListedInv
  <1>7. StakeInv'
    BY <1>0, <1>1, <1>4 DEF StakeInv
  <1>8. ASSUME NEW e \in Epochs, Due(e)' PROVE Due(e)
    <2>1. Registered(e)' /\ closeTs[e] + Buffer < recNow
      BY <1>1, <1>8 DEF Due
    <2>2. CASE e # b
      BY <1>4, <2>1, <2>2 DEF Due, Registered
    <2>3. CASE e = b
      <3>1. e = cur /\ now < lockTs[e]
        BY <1>3, <2>1, <2>3 DEF Registered
      <3>2. closeTs[e] = lockTs[e] + Interval /\ lockTs[e] \in Nat
        BY <1>0, <1>t, <3>1 DEF RoundsInv
      <3>3. QED
        BY <1>t, <2>1, <3>1, <3>2
    <2>4. QED
      BY <2>2, <2>3
  <1>9. DueInv'
    BY <1>0, <1>8 DEF DueInv, This
  <1>10. PayInv'
    <2>1. \A e \in pending : Claimable(e) => Claimable(e)'
      BY <1>1, <1>4 DEF Claimable, Registered, TypeOK
    <2>2. ASSUME NEW i \in 1 .. Len(userRounds'), pc \in Scanning, i > edge
          PROVE  ~Due(userRounds[i])'
      <3>1. CASE i \in 1 .. Len(userRounds)
        <4>1. userRounds[i] \in Epochs /\ ~Due(userRounds[i])
          BY <1>0, <1>t, <2>2, <3>1, ElementOfSeq DEF PayInv
        <4>2. userRounds'[i] = userRounds[i]
          BY <1>3, <3>1
        <4>3. QED
          BY <1>8, <4>1, <4>2 DEF Due, Registered
      <3>2. CASE i \notin 1 .. Len(userRounds)
        <4>1. userRounds'[i] = b /\ b = cur /\ now < lockTs[b]
          BY <1>t, <1>3, <3>2
        <4>2. closeTs[b] = lockTs[b] + Interval /\ lockTs[b] \in Nat
          BY <1>0, <1>t, <4>1 DEF RoundsInv
        <4>3. ~(closeTs[b] + Buffer < recNow)
          BY <1>t, <4>1, <4>2
        <4>4. QED
          BY <1>1, <4>1, <4>3 DEF Due
      <3>3. QED
        BY <3>1, <3>2
    <2>3. \A e \in Epochs : Due(e)' /\ outcome'[e] = "win" /\ pc \in Resting => e \in paid'
      BY <1>0, <1>1, <1>8 DEF PayInv
    <2>4. Chunk' = Chunk
      BY DEF Chunk
    <2>5. QED
      BY <1>0, <1>1, <2>1, <2>2, <2>3, <2>4 DEF PayInv
  <1>11. QED
    BY <1>5, <1>6, <1>7, <1>9, <1>10 DEF Undisturbed

LEMMA MineClaimKeepsCalm ==
    ASSUME TypeOK, LedgerInv, Undisturbed, MineClaim,
           UNCHANGED <<diskVars, pc, started, snap, wake, betVars, passVars, scanVars, historyVars>>
    PROVE  Undisturbed'
  <1> USE DEF diskVars, betVars, passVars, scanVars, historyVars
  <1>0. RoundsFlow /\ ListedInv /\ StakeInv /\ DueInv /\ PayInv /\ ClaimInv
    BY DEF Undisturbed, LedgerInv
  <1>1. /\ claimPool # <<>> /\ claimPool' = Tail(claimPool)
        /\ UNCHANGED <<now, cur, priced, lockTs, closeTs, outcome, betTx, userRounds>>
    BY DEF MineClaim
  <1>2. pc = "claimWait" /\ claimRes = "pool" /\ claimPool = <<Chunk>>
    BY <1>0, <1>1 DEF PayInv, ClaimInv
  <1>3. \A e \in pending : Claimable(e)
    BY <1>0, <1>2 DEF PayInv, Scanning
  <1>4. Head(claimPool) = Chunk /\ Len(claimPool) = 1 /\ Tail(claimPool) = <<>>
    BY <1>2
  <1>5. \A e \in Head(claimPool) : Entitled(e)
    BY <1>3, <1>4 DEF Entitled, Chunk
  <1>m. /\ paid' = IF \A e \in Head(claimPool) : Entitled(e) THEN paid \cup Head(claimPool) ELSE paid
        /\ claimRes' = IF Len(claimPool) > 1 THEN claimRes
                       ELSE IF \A e \in Head(claimPool) : Entitled(e) THEN "success" ELSE "revert"
    BY DEF MineClaim
  <1>p. Chunk' = Chunk
    BY DEF Chunk
  <1>l. ~(Len(claimPool) > 1)
    BY <1>4
  <1>6. paid' = paid \cup Chunk /\ claimRes' = "success" /\ claimPool' = <<>> /\ Chunk' = Chunk
    BY <1>1, <1>4, <1>5, <1>m, <1>p, <1>l, Zenon
  <1>7. RoundsFlow' /\ ListedInv' /\ StakeInv'
    BY <1>0, <1>1, FlowFrame DEF ListedInv, StakeInv, Registered
  <1>8. \A e : Due(e)' <=> Due(e)
    BY <1>1 DEF Due, Registered
  <1>9. DueInv'
    BY <1>0, <1>8 DEF DueInv, This
  <1>10. \A e \in pending : Claimable(e)' \/ e \in Chunk
    BY <1>1, <1>3, <1>6 DEF Claimable, Registered
  <1>11. PayInv'
    BY <1>0, <1>1, <1>2, <1>6, <1>8, <1>10 DEF PayInv, Resting, Betting
  <1>12. QED
    BY <1>7, <1>9, <1>11 DEF Undisturbed

LEMMA ChainKeepsCalm ==
    ASSUME TypeOK, LedgerInv, Undisturbed, ChainStep, faults = 0, faults' = 0
    PROVE  Undisturbed'
  <1>0. /\ RoundsFlow /\ \A k : ~Fault(k)
        /\ UNCHANGED <<diskVars, pc, started, snap, wake, betVars, passVars, scanVars, historyVars>>
    BY NoFaults DEF Undisturbed, ChainStep
  <1>1. CASE Tick
    <2>1. UNCHANGED <<cur, priced, lockTs, closeTs, outcome, betTx, userRounds, paid, claimPool, claimRes>>
      BY <1>1 DEF Tick
    <2>2. RoundsFlow' /\ \A e \in Epochs : Due(e)' => Due(e)
      BY <1>0, <2>1, FlowFrame DEF Due, Registered, passVars
    <2>3. QED
      BY <1>0, <2>1, <2>2, ChainFrame DEF diskVars, betVars, passVars, scanVars, historyVars
  <1>2. CASE ExecuteRound
    BY <1>0, <1>2, RoundKeepsCalm
  <1>3. CASE GenesisLock
    BY <1>0, <1>3 DEF GenesisLock, RoundsFlow
  <1>4. CASE MineClaim
    BY <1>0, <1>4, MineClaimKeepsCalm
  <1>5. CASE \E e \in BetEpochs : MineBet(e)
    BY <1>0, <1>5, MineBetKeepsCalm
  <1>6. QED
    BY <1>0, <1>1, <1>2, <1>3, <1>4, <1>5 DEF ChainStep

\* Until the first fault nothing disturbs the passes.
CalmInv == faults = 0 => Undisturbed /\ ~torn

LEMMA StartIsCalm == Init => Undisturbed
  <1> SUFFICES ASSUME Init PROVE Undisturbed
    OBVIOUS
  <1>1. RoundsFlow
    BY MarketAssumption DEF Init, MarketInit, RoundsFlow, Epochs
  <1>2. ListedInv /\ StakeInv
    BY DEF Init, MarketInit, ListedInv, StakeInv, Registered
  <1>3. \A e \in Epochs : ~Due(e)
    BY DEF Init, MarketInit, Due, Registered
  <1>4. DueInv /\ PayInv
    BY <1>3 DEF Init, MarketInit, DueInv, PayInv, Scanning
  <1>5. QED
    BY <1>1, <1>2, <1>4 DEF Undisturbed

\* The ledger keeps its last line whole while there are no faults.
LEMMA LinesStay ==
    ASSUME faults \in Nat, LinesMove
    PROVE  /\ faults' = 0 => faults = 0
           /\ faults' = faults /\ ~torn => ~torn'
  <1>1. CASE UNCHANGED <<torn, tears, faults>>
    BY <1>1
  <1>2. CASE Glued
    BY <1>2 DEF Glued
  <1>3. CASE Stumbled
    <2>1. faults' = faults + 1
      BY <1>3 DEF Stumbled
    <2>2. faults' # 0 /\ faults' # faults
      BY <2>1
    <2>3. QED
      BY <2>2
  <1>4. QED
    BY <1>1, <1>2, <1>3 DEF LinesMove

\* A fault that has happened is never forgotten.
LEMMA FaultsStay ==
    ASSUME TypeOK, Next, faults' = 0
    PROVE  faults = 0
  <1>0. faults \in Nat /\ \A k : Fault(k) => faults' = faults + 1
    BY BotAssumption DEF TypeOK, Fault
  <1>1. CASE BotStep \/ FaultStep
    BY <1>0, <1>1, BotMovesLines, LinesStay
  <1>2. CASE ChainStep
    <2>1. faults' = faults \/ \E k : Fault(k)
      BY <1>2 DEF ChainStep
    <2>2. QED
      BY <1>0, <2>1
  <1>3. QED
    BY <1>1, <1>2 DEF Next

LEMMA StepKeepsCalm ==
    ASSUME TypeOK, LedgerInv, BookInv, ScanInv, CalmInv, [Next]_vars
    PROVE  CalmInv'
  <1> SUFFICES ASSUME faults' = 0
               PROVE  Undisturbed' /\ ~torn'
    BY DEF CalmInv
  <1>1. CASE UNCHANGED vars
    <2>1. Undisturbed /\ ~torn
      BY <1>1 DEF CalmInv, vars
    <2>2. QED
      BY <1>1, <2>1
      DEF Undisturbed, RoundsFlow, ListedInv, StakeInv, DueInv, PayInv, Due, Registered, Claimable,
          Chunk, This, vars, marketVars, diskVars, lineVars, betVars, passVars, scanVars,
          historyVars
  <1>2. CASE Next
    <2>1. faults = 0 /\ Undisturbed /\ ~torn
      BY <1>2, FaultsStay DEF CalmInv
    <2>2. (\A k : ~Fault(k)) /\ ~Failed
      BY <2>1, NoFaults
    <2>3. ~FaultStep
      BY <2>2 DEF FaultStep, Crash, DeferEpoch, StopFlush, ScanFails
    <2>t. ~torn'
      <3>1. CASE BotStep \/ FaultStep
        BY <2>1, <3>1, BotMovesLines, LinesStay
      <3>2. CASE ChainStep
        BY <2>1, <3>2 DEF ChainStep, lineVars
      <3>3. QED
        BY <1>2, <3>1, <3>2 DEF Next
    <2>4. CASE Rest
      BY <2>1, <2>t, <2>4, RestKeepsCalm
    <2>5. CASE Wake \/ (Handshake /\ ~started)
      BY <2>1, <2>t, <2>5, StartKeepsCalm
    <2>6. CASE Reconcile
      BY <2>1, <2>t, <2>6, ReconcileKeepsCalm
    <2>7. CASE ScanStep
      BY <2>1, <2>t, <2>7, ScanKeepsCalm
    <2>8. CASE ChainStep
      BY <2>1, <2>t, <2>8, ChainKeepsCalm
    <2>9. QED
      BY <1>2, <2>3, <2>t, <2>4, <2>5, <2>6, <2>7, <2>8
      DEF Next, BotStep, Rest, Reconcile, ScanStep
  <1>3. QED
    BY <1>1, <1>2

\* The stakes, the passes and the claims of a behaviour without a fault.
THEOREM CalmInvariant == Spec => []CalmInv
  <1>1. Init => CalmInv
    BY StartIsCalm DEF CalmInv, Init
  <1>2. TypeOK /\ LedgerInv /\ BookInv /\ ScanInv /\ CalmInv /\ [Next]_vars => CalmInv'
    BY StepKeepsCalm
  <1>3. QED
    BY TypeCorrect, LedgerInvariant, BookInvariant, ScanInvariant, <1>1, <1>2, PTL DEF Spec

\* Without a fault the stakes that are in play are counted (open_stake_bnb): a
\* stake that left the wallet for a round still undecided has an open record with
\* its amount, unless its receipt timed out.
THEOREM StakesAreCounted == Spec => []InPlayStakeIsCounted
  <1>1. TypeOK /\ LedgerInv /\ BookInv /\ CalmInv => InPlayStakeIsCounted
    <2> SUFFICES ASSUME TypeOK, LedgerInv, BookInv, CalmInv, pc = "decide", faults = 0,
                        NEW e \in BetEpochs, Registered(e), ~OracleCalled(e),
                        now <= closeTs[e] + Buffer
                 PROVE  \/ status[e] = "DROPPED"
                        \/ status[e] \in OpenStatuses /\ e \in sized
      BY DEF InPlayStakeIsCounted
    <2>1. e \in Epochs /\ status[e] \in Statuses
      BY MarketAssumption DEF BetEpochs, Epochs, TypeOK
    <2>2. e \in sized /\ status[e] # "absent"
      BY <2>1 DEF CalmInv, Undisturbed, StakeInv, Registered
    <2>n. now \in Nat /\ closeTs[e] \in Nat /\ Buffer \in Nat
      BY <2>1, MarketAssumption DEF TypeOK, MarketTypeOK
    <2>3. ~(now > closeTs[e] + Buffer)
      BY <2>n
    <2>4. e \notin paid /\ status[e] # "SETTLED_REFUND"
      BY <2>1, <2>3 DEF BookInv, PaidInv, LedgerInv, RefundsAreFinal, OracleCalled
    <2>5. status[e] \notin {"SETTLED_WON", "SETTLED_LOST", "CLAIMED", "LATE", "REVERTED"}
      BY <2>1, <2>4 DEF LedgerInv, LedgerMatchesChain, OracleCalled
    <2>6. QED
      BY <2>1, <2>2, <2>4, <2>5 DEF Statuses, OpenStatuses
  <1>2. QED
    BY TypeCorrect, LedgerInvariant, BookInvariant, CalmInvariant, <1>1, PTL

\* Without a fault a pass of reconcile and of the claim scan settles every bet and
\* claims all the money that were due when it began.
THEOREM PassesAreComplete == Spec => []PassIsComplete
  <1>1. TypeOK /\ LedgerInv /\ CalmInv => PassIsComplete
    <2> SUFFICES ASSUME TypeOK, LedgerInv, CalmInv, pc = "handshake", faults = 0,
                        NEW e \in BetEpochs, Registered(e), closeTs[e] + Buffer < recNow
                 PROVE  e \in paid \/ status[e] = "SETTLED_LOST"
      BY DEF PassIsComplete
    <2>1. e \in Epochs /\ Due(e)
      BY MarketAssumption DEF BetEpochs, Epochs, Due
    <2>2. DueInv /\ PayInv
      BY DEF CalmInv, Undisturbed
    <2>3. todo = {}
      BY <2>2 DEF DueInv, Reconciling
    <2>4. status[e] \in {"SETTLED_WON", "SETTLED_LOST", "CLAIMED"}
      BY <2>1, <2>2, <2>3 DEF DueInv
    <2>5. outcome[e] = "win" => e \in paid
      BY <2>1, <2>2 DEF PayInv, Resting
    <2>6. QED
      BY <2>1, <2>4, <2>5 DEF LedgerInv, LedgerMatchesChain
  <1>2. QED
    BY TypeCorrect, LedgerInvariant, CalmInvariant, <1>1, PTL
=============================================================================
