------------------------------ MODULE DryProofs ------------------------------
(* The promises of dry mode, for every stake, payout, interval and number of   *)
(* epochs, crashes, fresh starts and failing reads: the bankroll adds up, what *)
(* is on file was announced, and a pass leaves nothing behind that was due.    *)
EXTENDS DryState, FiniteSetTheorems, SequenceTheorems, WellFoundedInduction, TLAPS

-----------------------------------------------------------------------------
(* Types.                                                                  *)

Records == [epoch : Epochs, ts : Nat, after : Int]
States ==
    [bankroll : Int, ts : Nat,
     source : {"none", "configured_init", "recovered", "bet", "settle"}]
Hands == [epoch : Nat, credit : Nat, ts : Nat]
Settling == {"announce", "row", "mark"}
Running == {"pass", "decide", "asleep", "saveBet", "saveSettle"} \cup Settling

\* What the proofs need to know of the types, without the bounds of TypeOK.
Typed ==
    /\ now \in Nat /\ sec \in Nat /\ oracle \in [Epochs -> {"open", "lost", "won"}]
    /\ pending \in Seq(Records) /\ trades \in Seq(Records) /\ settledFile \subseteq Epochs
    /\ state \in States /\ pc \in Running \cup {"down", "archive"}
    /\ bankroll \in Int /\ bets \subseteq Epochs /\ settled \subseteq Epochs
    /\ todo \subseteq Epochs /\ hand \in Hands
    /\ pc \in Settling \cup {"saveBet", "saveSettle"} => hand.epoch \in Epochs
    /\ alerts \in [Epochs -> Nat] /\ base \in Nat /\ tied \in BOOLEAN /\ half \in BOOLEAN
    /\ due \subseteq Epochs /\ crashes \in Nat /\ reads \in Nat
    /\ \A i \in 1 .. Len(pending) : pending[i].ts <= sec
    /\ \A i \in 1 .. Len(trades) : trades[i].ts <= sec
    /\ hand.ts <= sec

\* A non-empty set of numbers has a least one.
LEMMA LeastIsMember ==
    ASSUME NEW S \in SUBSET Nat, S # {}
    PROVE  Min(S) \in S
  <1>1. PICK least \in S : \A y \in S : ~(<<y, least>> \in OpToRel(<, Nat))
    BY NatLessThanWellFounded, WFMin
  <1>2. \A y \in S : ~(y < least)
    BY <1>1, Zenon DEF OpToRel
  <1>3. \A y \in S : least <= y
    BY <1>2
  <1>4. QED
    BY <1>3 DEF Min

LEMMA FirstIsNext == ASSUME Typed, todo # {} PROVE First \in todo /\ First \in Epochs
  <1>1. todo \subseteq Epochs
    BY DEF Typed
  <1>2. todo \in SUBSET Nat
    <2>1. Epochs \subseteq Nat
      BY DEF Epochs
    <2>2. QED
      BY <1>1, <2>1
  <1>3. First \in todo
    BY <1>2, LeastIsMember DEF First
  <1>4. QED
    BY <1>1, <1>3

\* What a record added to a log does to it.
LEMMA LogGrows ==
    ASSUME NEW f \in Seq(Records), NEW r \in Records
    PROVE  /\ Append(f, r) \in Seq(Records)
           /\ Len(Append(f, r)) = Len(f) + 1 /\ Len(f) \in Nat
           /\ \A i \in 1 .. Len(f) : Append(f, r)[i] = f[i]
           /\ Append(f, r)[Len(f) + 1] = r
           /\ EpochsIn(Append(f, r)) = EpochsIn(f) \cup {r.epoch}
  <1> DEFINE g == Append(f, r)
             n == Len(f)
  <1>1. /\ g \in Seq(Records) /\ Len(g) = n + 1 /\ n \in Nat
        /\ \A i \in 1 .. n : g[i] = f[i]
        /\ g[n + 1] = r
    BY AppendProperties, LenProperties
  <1>2. DOMAIN f = 1 .. n /\ DOMAIN g = 1 .. n + 1
    BY <1>1, LenProperties
  <1> HIDE DEF g, n
  <1>3. EpochsIn(g) = EpochsIn(f) \cup {r.epoch}
    <2>1. 1 .. n + 1 = (1 .. n) \cup {n + 1}
      BY <1>1
    <2>2. EpochsIn(f) = {f[i].epoch : i \in 1 .. n}
      BY <1>2 DEF EpochsIn
    <2>3. EpochsIn(g) = {g[i].epoch : i \in (1 .. n) \cup {n + 1}}
      BY <1>2, <2>1 DEF EpochsIn
    <2>4. \A x : x \in EpochsIn(g) <=> x \in EpochsIn(f) \/ x = r.epoch
      <3> TAKE x
      <3>1. x \in EpochsIn(g) <=> \E i \in (1 .. n) \cup {n + 1} : x = g[i].epoch
        BY <2>3
      <3>2. x \in EpochsIn(f) <=> \E i \in 1 .. n : x = f[i].epoch
        BY <2>2
      <3>3. QED
        BY <1>1, <3>1, <3>2
    <2>5. QED
      BY <2>4
  <1>4. QED
    BY <1>1, <1>3 DEF g, n

LEMMA EpochsTyped ==
    ASSUME NEW f \in Seq(Records)
    PROVE  EpochsIn(f) \subseteq Epochs /\ IsFiniteSet(EpochsIn(f))
  <1>1. \A i \in DOMAIN f : f[i] \in Records
    BY ElementOfSeq, LenProperties
  <1>2. EpochsIn(f) \subseteq Epochs
    BY <1>1 DEF EpochsIn, Records
  <1>3. IsFiniteSet(Epochs)
    BY DryAssumption, FS_Interval DEF Epochs
  <1>4. QED
    BY <1>2, <1>3, FS_Subset

LEMMA NoEpochs == EpochsIn(<<>>) = {}
  BY DEF EpochsIn

\* The constants as the proofs use them.
LEMMA Constants ==
    /\ LastEpoch \in Nat /\ Interval \in Nat /\ Interval > 0 /\ Stake \in Nat /\ Payout \in Nat
    /\ Buffer \in Nat /\ Gas \in Nat /\ Inits \subseteq Nat
  BY DryAssumption

\* Locks are in the order of the epochs, and a round closes after its lock.
LEMMA Times ==
    ASSUME NEW e \in Epochs
    PROVE  /\ e \in Nat /\ Lock(e) \in Nat /\ Close(e) \in Nat /\ Lock(e) < Close(e)
  <1>1. e \in Nat
    BY DEF Epochs
  <1>2. e * Interval \in Nat /\ (e + 1) * Interval = e * Interval + Interval
    BY <1>1, Constants
  <1> DEFINE x == e * Interval
             y == (e + 1) * Interval
  <1>3. Lock(e) = x /\ Close(e) = y
    BY DEF Lock, Close
  <1> HIDE DEF x, y
  <1>4. x \in Nat /\ y = x + Interval
    BY <1>2 DEF x, y
  <1>5. QED
    BY <1>1, <1>3, <1>4, Constants

\* A start keeps the saved bankroll, takes the log's or begins anew.
LEMMA ResolveCases ==
    ASSUME NEW init
    PROVE  \/ /\ Resolve(init) = state /\ state # NoState
              /\ Recovered = NoState => state.source # "configured_init"
              /\ Recovered = NoState \/ state.ts >= Recovered.ts
           \/ /\ Resolve(init) = Recovered /\ Recovered # NoState
              /\ ~(state # NoState /\ state.ts >= Recovered.ts)
           \/ /\ Resolve(init) = Save(init, sec, "configured_init") /\ Recovered = NoState
              /\ state = NoState \/ state.source = "configured_init"
  BY DEF Resolve

\* The two logs, one after the other.
LEMMA LogsTyped ==
    ASSUME Typed
    PROVE  /\ Logs \in Seq(Records) /\ Len(pending) \in Nat /\ Len(trades) \in Nat
           /\ DOMAIN Logs = 1 .. Len(pending) + Len(trades)
           /\ \A i \in DOMAIN Logs : Logs[i] \in Records
           /\ \A i \in 1 .. Len(pending) : Logs[i] = pending[i]
           /\ \A i \in 1 .. Len(trades) : Logs[Len(pending) + i] = trades[i]
           /\ \A i \in DOMAIN Logs :
                 \/ i \in 1 .. Len(pending)
                 \/ \E j \in 1 .. Len(trades) : i = Len(pending) + j
  <1> DEFINE p == Len(pending)
             t == Len(trades)
  <1>1. pending \in Seq(Records) /\ trades \in Seq(Records)
    BY DEF Typed
  <1>2. p \in Nat /\ t \in Nat
    BY <1>1, LenProperties
  <1>3. /\ Logs \in Seq(Records) /\ Len(Logs) = p + t
        /\ \A i \in 1 .. p + t : Logs[i] = IF i <= p THEN pending[i] ELSE trades[i - p]
    BY <1>1, ConcatProperties DEF Logs
  <1>4. DOMAIN Logs = 1 .. p + t
    BY <1>3, LenProperties
  <1>5. \A i \in DOMAIN Logs : Logs[i] \in Records
    BY <1>3, <1>4, ElementOfSeq
  <1> HIDE DEF p, t
  <1>6. \A i \in 1 .. p : Logs[i] = pending[i]
    BY <1>2, <1>3
  <1>7. \A i \in 1 .. t : Logs[p + i] = trades[i]
    <2> TAKE i \in 1 .. t
    <2>1. p + i \in 1 .. p + t /\ ~(p + i <= p) /\ (p + i) - p = i
      BY <1>2
    <2>2. QED
      BY <1>3, <2>1
  <1>8. \A i \in 1 .. p + t : i \in 1 .. p \/ \E j \in 1 .. t : i = p + j
    <2> TAKE i \in 1 .. p + t
    <2>1. CASE i <= p
      BY <1>2, <2>1
    <2>2. CASE i > p
      <3>1. i - p \in 1 .. t /\ i = p + (i - p)
        BY <1>2, <2>2
      <3>2. QED
        BY <3>1
    <2>3. QED
      BY <1>2, <2>1, <2>2
  <1>9. QED
    BY <1>2, <1>3, <1>4, <1>5, <1>6, <1>7, <1>8 DEF p, t

\* What a start finds in the logs is a record of their latest second.
LEMMA RecoveredIsLatest ==
    ASSUME Typed
    PROVE  /\ Logs = <<>> => Recovered = NoState
           /\ Logs # <<>> => \E k \in DOMAIN Logs :
                 /\ \A j \in DOMAIN Logs : Logs[j].ts <= Logs[k].ts
                 /\ Recovered = Save(Logs[k].after, Logs[k].ts, "recovered")
  <1>1. Logs = <<>> => Recovered = NoState
    BY DEF Recovered
  <1>2. CASE Logs # <<>>
    <2> DEFINE D == DOMAIN Logs
               S == {i \in D : \A j \in D : Logs[j].ts <= Logs[i].ts}
    <2>1. /\ Logs \in Seq(Records) /\ \A i \in D : Logs[i] \in Records
          /\ \E n \in Nat : D = 1 .. n
      <3>1. \A a, b \in Nat : a + b \in Nat
        OBVIOUS
      <3>2. QED
        BY <3>1, LogsTyped
    <2>2. D # {}
      <3>1. CASE D = {}
        <4>1. Len(Logs) = 0
          BY <2>1, <3>1, LenProperties
        <4>2. QED
          BY <1>2, <2>1, <4>1, EmptySeq
      <3>2. QED
        BY <3>1
    <2>3. \A i \in D : Logs[i].ts \in Nat
      BY <2>1 DEF Records
    <2>4. sec \in Nat /\ \A i \in D : Logs[i].ts <= sec
      <3>1. \A i \in D :
               \/ i \in 1 .. Len(pending)
               \/ \E j \in 1 .. Len(trades) : i = Len(pending) + j
        BY LogsTyped
      <3>2. \A i \in 1 .. Len(pending) : Logs[i].ts <= sec
        BY LogsTyped DEF Typed
      <3>3. \A j \in 1 .. Len(trades) : Logs[Len(pending) + j].ts <= sec
        BY LogsTyped DEF Typed
      <3>4. QED
        BY <3>1, <3>2, <3>3 DEF Typed
    <2> HIDE DEF D
    <2>5. S # {}
      <3> DEFINE T == {sec - Logs[i].ts : i \in D}
      <3>1. T \in SUBSET Nat /\ T # {}
        BY <2>2, <2>3, <2>4
      <3> HIDE DEF T
      <3>2. PICK m \in T : \A y \in T : ~(<<y, m>> \in OpToRel(<, Nat))
        BY <3>1, NatLessThanWellFounded, WFMin
      <3>3. \A y \in T : ~(y < m)
        BY <3>1, <3>2, Zenon DEF OpToRel
      <3>4. PICK i \in D : m = sec - Logs[i].ts
        BY <3>2 DEF T
      <3>5. \A j \in D : sec - Logs[j].ts \in T
        BY DEF T
      <3>6. \A j \in D : Logs[j].ts <= Logs[i].ts
        <4> TAKE j \in D
        <4>1. ~(sec - Logs[j].ts < m)
          BY <3>3, <3>5
        <4> DEFINE x == Logs[j].ts
                   y == Logs[i].ts
        <4>2. x \in Nat /\ y \in Nat /\ m = sec - y /\ ~(sec - x < m)
          BY <2>3, <3>4, <4>1
        <4> HIDE DEF x, y
        <4>3. x <= y
          BY <2>4, <4>2
        <4>4. QED
          BY <4>3 DEF x, y
      <3>7. QED
        BY <3>6
    <2>6. S \in SUBSET Nat
      BY <2>1 DEF D
    <2> HIDE DEF S
    <2>7. Min(S) \in S
      BY <2>5, <2>6, LeastIsMember
    <2>8. Recovered = Save(Logs[Min(S)].after, Logs[Min(S)].ts, "recovered")
      BY <1>2 DEF Recovered, S, D
    <2>9. QED
      BY <2>7, <2>8, <1>2 DEF S, D
  <1>3. QED
    BY <1>1, <1>2

\* A log without records is empty.
LEMMA LogsEmpty ==
    ASSUME Typed, Logs = <<>>
    PROVE  pending = <<>> /\ trades = <<>>
  <1>1. /\ DOMAIN Logs = 1 .. Len(pending) + Len(trades)
        /\ Len(pending) \in Nat /\ Len(trades) \in Nat
    BY LogsTyped
  <1>2. Len(Logs) = 0 /\ Logs \in Seq(Records)
    BY LogsTyped
  <1>3. Len(Logs) = Len(pending) + Len(trades)
    BY ConcatProperties DEF Typed, Logs
  <1>4. Len(pending) = 0 /\ Len(trades) = 0
    BY <1>1, <1>2, <1>3
  <1>5. QED
    BY <1>4, EmptySeq DEF Typed

LEMMA ResolveTyped ==
    ASSUME Typed, NEW init \in Inits
    PROVE  Resolve(init) \in States
  <1>1. Save(init, sec, "configured_init") \in States /\ state \in States
    BY Constants DEF Save, States, Typed
  <1>2. Recovered # NoState => Recovered \in States
    <2> SUFFICES ASSUME Recovered # NoState PROVE Recovered \in States
      OBVIOUS
    <2>1. PICK k \in DOMAIN Logs : Recovered = Save(Logs[k].after, Logs[k].ts, "recovered")
      BY RecoveredIsLatest
    <2>2. Logs[k] \in Records
      BY LogsTyped
    <2>3. QED
      BY <2>1, <2>2 DEF Save, Records, States
  <1>3. QED
    BY <1>1, <1>2, ResolveCases

LEMMA CreditTyped == ASSUME Typed, NEW e \in Epochs PROVE CreditOf(e) \in Nat
  <1>1. oracle[e] \in {"open", "lost", "won"}
    BY DEF Typed
  <1>2. QED
    BY <1>1, Constants DEF CreditOf

\* What is on file is in the past.
LEMMA LogsBounded ==
    ASSUME Typed
    PROVE  /\ \A i \in 1 .. Len(pending) : pending[i] \in Records /\ pending[i].ts \in Nat
           /\ \A i \in 1 .. Len(trades) : trades[i] \in Records /\ trades[i].ts \in Nat
  <1>1. pending \in Seq(Records) /\ trades \in Seq(Records)
    BY DEF Typed
  <1>2. /\ \A i \in 1 .. Len(pending) : pending[i] \in Records
        /\ \A i \in 1 .. Len(trades) : trades[i] \in Records
    BY <1>1, ElementOfSeq
  <1>3. \A r \in Records : r.ts \in Nat
    BY DEF Records
  <1>4. QED
    BY <1>2, <1>3

LEMMA InitTyped == Init => Typed
  <1> SUFFICES ASSUME Init PROVE Typed
    OBVIOUS
  <1>1. pending = <<>> /\ trades = <<>> /\ Len(<<>>) = 0 /\ <<>> \in Seq(Records)
    BY EmptySeq DEF Init
  <1>2. state \in States /\ hand \in Hands /\ hand.ts = 0 /\ sec = 1
    BY DEF Init, NoState, NoHand, States, Hands
  <1>3. /\ Len(pending) = 0 /\ Len(trades) = 0 /\ pending \in Seq(Records)
        /\ trades \in Seq(Records)
    BY <1>1
  <1>4. /\ \A i \in 1 .. Len(pending) : pending[i].ts <= sec
        /\ \A i \in 1 .. Len(trades) : trades[i].ts <= sec
    BY <1>3
  <1>5. /\ oracle \in [Epochs -> {"open", "lost", "won"}] /\ alerts \in [Epochs -> Nat]
    BY DEF Init
  <1>6. hand.ts <= sec
    BY <1>2
  <1>7. /\ now \in Nat /\ sec \in Nat /\ settledFile \subseteq Epochs
        /\ pc = "down" /\ bankroll \in Int /\ bets \subseteq Epochs /\ settled \subseteq Epochs
        /\ todo \subseteq Epochs /\ base \in Nat
        /\ due \subseteq Epochs /\ crashes \in Nat /\ reads \in Nat
    BY DEF Init
  <1>8. tied \in BOOLEAN /\ half \in BOOLEAN
    BY Zenon DEF Init
  <1>9. QED
    BY <1>2, <1>3, <1>4, <1>5, <1>6, <1>7, <1>8 DEF Typed, Settling

\* Steps that add no record.
LEMMA TypedFrame ==
    ASSUME Typed, UNCHANGED <<pending, trades>>,
           now' \in Nat, sec' \in Nat, sec <= sec', oracle' \in [Epochs -> {"open", "lost", "won"}],
           settledFile' \subseteq Epochs, state' \in States,
           pc' \in Running \cup {"down", "archive"}, bankroll' \in Int,
           bets' \subseteq Epochs, settled' \subseteq Epochs, todo' \subseteq Epochs,
           hand' \in Hands, hand'.ts <= sec',
           pc' \in Settling \cup {"saveBet", "saveSettle"} => hand'.epoch \in Epochs,
           alerts' \in [Epochs -> Nat], base' \in Nat, tied' \in BOOLEAN, half' \in BOOLEAN,
           due' \subseteq Epochs, crashes' \in Nat, reads' \in Nat
    PROVE  Typed'
  <1>1. \A i \in 1 .. Len(pending') : pending'[i].ts <= sec'
    <2> TAKE i \in 1 .. Len(pending')
    <2>1. i \in 1 .. Len(pending) /\ pending'[i] = pending[i]
      OBVIOUS
    <2>2. pending[i].ts <= sec /\ sec \in Nat
      BY <2>1 DEF Typed
    <2>3. pending[i].ts \in Nat
      BY <2>1, LogsBounded DEF Typed
    <2>4. QED
      BY <2>1, <2>2, <2>3
  <1>2. \A i \in 1 .. Len(trades') : trades'[i].ts <= sec'
    <2> TAKE i \in 1 .. Len(trades')
    <2>1. i \in 1 .. Len(trades) /\ trades'[i] = trades[i]
      OBVIOUS
    <2>2. trades[i].ts <= sec /\ sec \in Nat
      BY <2>1 DEF Typed
    <2>3. trades[i].ts \in Nat
      BY <2>1, LogsBounded DEF Typed
    <2>4. QED
      BY <2>1, <2>2, <2>3
  <1>3. pending' \in Seq(Records) /\ trades' \in Seq(Records)
    BY DEF Typed
  <1>4. QED
    BY <1>1, <1>2, <1>3 DEF Typed

LEMMA BetTyped == ASSUME Typed, DryRecordBet PROVE Typed'
  <1>0. sec \in Nat /\ bankroll \in Int /\ bets \subseteq Epochs /\ pending \in Seq(Records)
    BY DEF Typed
  <1>1. PICK e \in (OpenEpoch \cap Epochs) \ bets :
           /\ sec' = sec + 1 /\ bankroll' = bankroll - (Stake + Gas) /\ bets' = bets \cup {e}
           /\ pending' = Append(pending, [epoch |-> e, ts |-> sec + 1, after |-> bankroll'])
           /\ hand' = [epoch |-> e, credit |-> 0, ts |-> sec + 1]
    BY DEF DryRecordBet
  <1>2. bankroll' \in Int /\ e \in Epochs /\ e \in Nat
    BY <1>0, <1>1, Constants DEF Epochs
  <1> DEFINE r == [epoch |-> e, ts |-> sec + 1, after |-> bankroll']
  <1>3. r \in Records /\ r.ts = sec + 1
    BY <1>0, <1>2 DEF Records
  <1>4. /\ pending' \in Seq(Records) /\ Len(pending') = Len(pending) + 1 /\ Len(pending) \in Nat
        /\ \A i \in 1 .. Len(pending) : pending'[i] = pending[i]
        /\ pending'[Len(pending) + 1] = r
    BY <1>0, <1>1, <1>3, LogGrows
  <1> HIDE DEF r
  <1>5. \A i \in 1 .. Len(pending') : pending'[i].ts <= sec'
    <2> TAKE i \in 1 .. Len(pending')
    <2>1. CASE i \in 1 .. Len(pending)
      <3>1. pending[i].ts <= sec /\ pending[i].ts \in Nat /\ pending'[i] = pending[i]
        BY <1>0, <1>4, <2>1, LogsBounded DEF Typed
      <3>2. QED
        BY <1>0, <1>1, <3>1
    <2>2. CASE i = Len(pending) + 1
      BY <1>0, <1>1, <1>3, <1>4, <2>2
    <2>3. QED
      BY <1>4, <2>1, <2>2
  <1>6. \A i \in 1 .. Len(trades') : trades'[i].ts <= sec'
    <2> TAKE i \in 1 .. Len(trades')
    <2>1. trades' = trades
      BY DEF DryRecordBet
    <2>2. trades[i].ts <= sec /\ trades[i].ts \in Nat
      BY <2>1, LogsBounded DEF Typed
    <2>3. QED
      BY <1>0, <1>1, <2>1, <2>2
  <1>7. hand' \in Hands /\ hand'.epoch \in Epochs /\ hand'.ts <= sec'
    BY <1>0, <1>1, <1>2 DEF Hands
  <1>8. /\ UNCHANGED <<now, oracle, trades, settledFile, state, settled, todo, alerts, base, tied,
                       half, due, crashes, reads>>
        /\ pc' = "saveBet"
    BY DEF DryRecordBet, market, ghosts, limits
  <1>9. sec' \in Nat /\ bets' \subseteq Epochs
    BY <1>0, <1>1, <1>2
  <1>10. QED
    BY <1>2, <1>4, <1>5, <1>6, <1>7, <1>8, <1>9 DEF Typed, Running

LEMMA TradeTyped == ASSUME Typed, AppendTrade PROVE Typed'
  <1>0. /\ sec \in Nat /\ bankroll \in Int /\ trades \in Seq(Records) /\ hand \in Hands
        /\ hand.epoch \in Epochs /\ hand.ts \in Nat /\ hand.ts <= sec
    BY DEF Typed, AppendTrade, Settling, Hands
  <1> DEFINE r == [epoch |-> hand.epoch, ts |-> hand.ts, after |-> bankroll]
  <1>1. trades' = Append(trades, r)
    BY DEF AppendTrade
  <1>3. r \in Records /\ r.ts = hand.ts
    BY <1>0 DEF Records
  <1> HIDE DEF r
  <1>4. /\ trades' \in Seq(Records) /\ Len(trades') = Len(trades) + 1 /\ Len(trades) \in Nat
        /\ \A i \in 1 .. Len(trades) : trades'[i] = trades[i]
        /\ trades'[Len(trades) + 1] = r
    BY <1>0, <1>1, <1>3, LogGrows
  <1>5. /\ UNCHANGED <<now, sec, oracle, pending, settledFile, state, bankroll, bets, settled, todo,
                       hand, alerts, base, tied, half, due, crashes, reads>>
        /\ pc' = "mark"
    BY DEF AppendTrade, market, memory, ghosts, limits
  <1>6. \A i \in 1 .. Len(trades') : trades'[i].ts <= sec'
    <2> TAKE i \in 1 .. Len(trades')
    <2>1. CASE i \in 1 .. Len(trades)
      <3>1. trades[i].ts <= sec /\ trades'[i] = trades[i]
        BY <1>4, <2>1 DEF Typed
      <3>2. QED
        BY <1>5, <3>1
    <2>2. CASE i = Len(trades) + 1
      BY <1>0, <1>3, <1>4, <1>5, <2>2
    <2>3. QED
      BY <1>4, <2>1, <2>2
  <1>7. \A i \in 1 .. Len(pending') : pending'[i].ts <= sec'
    BY <1>5 DEF Typed
  <1>8. QED
    BY <1>0, <1>4, <1>5, <1>6, <1>7 DEF Typed, Running, Settling

\* What is left of the steps adds no record.
LEMMA StepTyped == ASSUME Typed, Next PROVE Typed'
  <1> USE DEF market, files, memory, ghosts, limits
  <1>0. /\ now \in Nat /\ sec \in Nat /\ oracle \in [Epochs -> {"open", "lost", "won"}]
        /\ settledFile \subseteq Epochs /\ state \in States
        /\ pc \in Running \cup {"down", "archive"} /\ bankroll \in Int /\ bets \subseteq Epochs
        /\ settled \subseteq Epochs /\ todo \subseteq Epochs /\ hand \in Hands /\ hand.ts <= sec
        /\ pc \in Settling \cup {"saveBet", "saveSettle"} => hand.epoch \in Epochs
        /\ alerts \in [Epochs -> Nat] /\ base \in Nat /\ tied \in BOOLEAN /\ half \in BOOLEAN
        /\ due \subseteq Epochs /\ crashes \in Nat /\ reads \in Nat
    BY DEF Typed
  <1>a. /\ sec <= sec /\ hand.ts \in Nat /\ hand.epoch \in Nat
        /\ NoHand \in Hands /\ NoHand.ts = 0 /\ 0 <= sec /\ NoState \in States
    BY <1>0 DEF Hands, NoHand, NoState, States
  <1>1. CASE Tick
    <2>1. now' \in Nat /\ UNCHANGED <<sec, oracle, files, pc, memory, ghosts, limits>>
      BY <1>0, <1>1 DEF Tick
    <2>2. QED
      BY <1>0, <1>a, <2>1, TypedFrame
  <1>2. CASE OracleCalls
    <2>1. oracle' \in [Epochs -> {"open", "lost", "won"}]
      BY <1>0, <1>2 DEF OracleCalls
    <2>2. UNCHANGED <<now, sec, files, pc, memory, ghosts, limits>>
      BY <1>2 DEF OracleCalls
    <2>3. QED
      BY <1>0, <1>a, <2>1, <2>2, TypedFrame
  <1>3. CASE DuplicateBet \/ Crash
    <2>1. /\ UNCHANGED <<now, sec, oracle, files, alerts, base, half, due, reads>>
          /\ pc' = "down" /\ bankroll' = 0 /\ bets' = {} /\ settled' = {} /\ todo' = {}
          /\ hand' = NoHand
      BY <1>3 DEF DuplicateBet, Crash
    <2>2. tied' \in BOOLEAN /\ crashes' \in Nat
      <3>1. CASE DuplicateBet
        BY <1>0, <3>1 DEF DuplicateBet
      <3>2. CASE Crash
        <4>1. tied' = (tied \/ (Unsaved /\ hand.ts = state.ts)) /\ crashes' = crashes + 1
          BY <3>2 DEF Crash
        <4>2. (tied \/ (Unsaved /\ hand.ts = state.ts)) \in BOOLEAN
          OBVIOUS
        <4>3. tied' \in BOOLEAN
          BY ONLY <4>1, <4>2
        <4>4. QED
          BY <1>0, <4>1, <4>3
      <3>3. QED
        BY <1>3, <3>1, <3>2
    <2>3. hand'.ts <= sec'
      BY <1>a, <2>1
    <2>4. 0 \in Int /\ "down" \notin Settling \cup {"saveBet", "saveSettle"}
      BY DEF Settling
    <2>5. QED
      BY <1>0, <1>a, <2>1, <2>2, <2>3, <2>4, TypedFrame
  <1>4. CASE SaveAfterBet \/ SaveAfterSettle
    <2>1. /\ UNCHANGED <<now, sec, oracle, pending, trades, settledFile, bankroll, bets, settled, todo,
                         ghosts, limits>>
          /\ pc' \in {"asleep", "pass"}
          /\ hand' \in {hand, [NoHand EXCEPT !.ts = hand.ts]}
          /\ state' \in {Save(bankroll, hand.ts, "bet"), Save(bankroll, hand.ts, "settle")}
      BY <1>4 DEF SaveAfterBet, SaveAfterSettle
    <2>2. hand' \in Hands /\ hand'.ts = hand.ts
      BY <1>0, <1>a, <2>1 DEF Hands, NoHand
    <2>3. state' \in States
      BY <1>0, <1>a, <2>1 DEF Save, States
    <2>4. pc' \in Running /\ pc' \notin Settling \cup {"saveBet", "saveSettle"}
      BY <2>1 DEF Running, Settling
    <2>5. hand'.ts <= sec'
      BY <1>0, <2>1, <2>2
    <2>6. QED
      BY <1>0, <1>a, <2>1, <2>2, <2>3, <2>4, <2>5, TypedFrame
  <1>5. CASE Skip
    <2>1. PICK e \in OpenEpoch : hand' = [NoHand EXCEPT !.epoch = e]
      BY <1>5 DEF Skip
    <2>2. e \in Nat
      BY Constants DEF OpenEpoch
    <2>3. hand' \in Hands /\ hand'.ts = 0
      BY <2>1, <2>2 DEF Hands, NoHand
    <2>4. /\ UNCHANGED <<market, sec, files, bankroll, bets, settled, todo, ghosts, limits>>
          /\ pc' = "asleep"
      BY <1>5 DEF Skip
    <2>5. "asleep" \in Running /\ "asleep" \notin Settling \cup {"saveBet", "saveSettle"}
      BY DEF Running, Settling
    <2>6. hand'.ts <= sec'
      BY <1>a, <2>3, <2>4
    <2>7. QED
      BY <1>0, <1>a, <2>3, <2>4, <2>5, <2>6, TypedFrame
  <1>6. CASE Wake \/ EndPass
    <2>1. /\ UNCHANGED <<market, sec, files, bankroll, bets, settled, alerts, base, tied, half, limits>>
          /\ pc' \in {"pass", "decide"} /\ hand' = NoHand
          /\ todo' \subseteq Epochs /\ due' \subseteq Epochs
      BY <1>0, <1>6 DEF Wake, EndPass, DueRounds
    <2>2. pc' \in Running /\ pc' \notin Settling \cup {"saveBet", "saveSettle"}
      BY <2>1 DEF Running, Settling
    <2>3. hand'.ts <= sec'
      BY <1>a, <2>1
    <2>4. QED
      BY <1>0, <1>a, <2>1, <2>2, <2>3, TypedFrame
  <1>7. CASE PassOver
    <2>1. /\ UNCHANGED <<market, sec, files, pc, bankroll, bets, settled, hand, ghosts, crashes, fresh>>
          /\ todo' \subseteq Epochs /\ reads' \in Nat
      BY <1>0, <1>7 DEF PassOver
    <2>2. QED
      BY <1>0, <1>a, <2>1, TypedFrame
  <1>8. CASE Credit
    <2>1. PICK ts \in Seconds : sec' = ts /\ hand' = [epoch |-> First, credit |-> CreditOf(First), ts |-> ts]
      BY <1>8 DEF Credit
    <2>2. First \in Epochs /\ First \in Nat /\ CreditOf(First) \in Nat
      BY <1>8, FirstIsNext, CreditTyped DEF Credit, Epochs
    <2>3. ts \in Nat /\ sec <= ts
      BY <1>0 DEF Seconds
    <2>4. hand' \in Hands /\ hand'.ts <= sec' /\ hand'.epoch \in Epochs /\ sec' \in Nat /\ sec <= sec'
      BY <2>1, <2>2, <2>3 DEF Hands
    <2>5. /\ UNCHANGED <<market, files, bets, settled, ghosts, limits>>
          /\ bankroll' = bankroll + CreditOf(First) /\ todo' = todo \ {First} /\ pc' = "announce"
      BY <1>8 DEF Credit
    <2>6. bankroll' \in Int /\ todo' \subseteq Epochs
      BY <1>0, <2>2, <2>5
    <2>7. "announce" \in Running
      BY DEF Running, Settling
    <2>8. QED
      BY <1>0, <2>4, <2>5, <2>6, <2>7, TypedFrame
  <1>9. CASE Announce
    <2>1. /\ UNCHANGED <<market, sec, files, memory, base, tied, half, due, limits>>
          /\ pc = "announce" /\ pc' = "row" /\ alerts' = [alerts EXCEPT ![hand.epoch] = @ + 1]
      BY <1>9 DEF Announce
    <2>2. hand.epoch \in Epochs
      BY <1>0, <2>1 DEF Settling
    <2>3. alerts' \in [Epochs -> Nat]
      BY <1>0, <2>1, <2>2
    <2>4. "row" \in Running
      BY DEF Running, Settling
    <2>5. QED
      BY <1>0, <1>a, <2>1, <2>2, <2>3, <2>4, TypedFrame
  <1>10. CASE MarkSettled
    <2>1. /\ UNCHANGED <<market, sec, pending, trades, state, bankroll, bets, todo, hand, ghosts, limits>>
          /\ pc = "mark" /\ pc' = "saveSettle"
          /\ settled' = settled \cup {hand.epoch} /\ settledFile' = settledFile \cup {hand.epoch}
      BY <1>10 DEF MarkSettled
    <2>2. hand.epoch \in Epochs
      BY <1>0, <2>1 DEF Settling
    <2>3. settled' \subseteq Epochs /\ settledFile' \subseteq Epochs /\ "saveSettle" \in Running
      BY <1>0, <2>1, <2>2 DEF Running
    <2>4. QED
      BY <1>0, <1>a, <2>1, <2>2, <2>3, TypedFrame
  <1>11. CASE InitRuntimeState
    <2>1. PICK init \in Inits :
             /\ state' = Resolve(init)
             /\ IF state'.source = "configured_init"
                THEN base' = init /\ half' = FALSE
                ELSE UNCHANGED <<base, half>>
      BY <1>11 DEF InitRuntimeState
    <2>2. state' \in States
      BY <2>1, ResolveTyped
    <2>3. state'.bankroll \in Int
      BY <2>2 DEF States
    <2>4. EpochsIn(pending) \subseteq Epochs /\ EpochsIn(trades) \subseteq Epochs
      BY EpochsTyped DEF Typed
    <2>5. base' \in Nat /\ half' \in BOOLEAN
      BY <1>0, <2>1, Constants
    <2>6. /\ UNCHANGED <<market, sec, pending, trades, settledFile, hand, alerts, tied, limits>>
          /\ due' = DueRounds /\ pc' = "pass" /\ bankroll' = state'.bankroll
          /\ bets' = EpochsIn(pending) /\ settled' = settledFile \cup EpochsIn(trades)
          /\ todo' = bets' \ settled'
      BY <1>11 DEF InitRuntimeState, LoadSettled
    <2>7. /\ bets' \subseteq Epochs /\ settled' \subseteq Epochs /\ todo' \subseteq Epochs
          /\ due' \subseteq Epochs
      BY <1>0, <2>4, <2>6 DEF DueRounds
    <2>8. "pass" \in Running /\ "pass" \notin Settling \cup {"saveBet", "saveSettle"}
      BY DEF Running, Settling
    <2>9. QED
      BY <1>0, <1>a, <2>2, <2>3, <2>5, <2>6, <2>7, <2>8, TypedFrame
  <1>12. CASE FreshStart
    <2>1. /\ UNCHANGED <<market, sec, files, memory, alerts, base, tied, due, crashes, reads>>
          /\ half' = TRUE /\ pc' = "archive"
      BY <1>12 DEF FreshStart
    <2>2. "archive" \notin Settling \cup {"saveBet", "saveSettle"}
      BY DEF Settling
    <2>3. QED
      BY <1>0, <1>a, <2>1, <2>2, TypedFrame
  <1>13. CASE Archive
    <2>1. /\ UNCHANGED <<market, sec, memory, ghosts, limits>>
          /\ pc' \in {"archive", "down"} /\ settledFile' \in {settledFile, {}}
          /\ state' \in {state, NoState}
          /\ pending' \in {pending, <<>>} /\ trades' \in {trades, <<>>}
      BY <1>13 DEF Archive
    <2>2. pc' \notin Settling \cup {"saveBet", "saveSettle"}
      BY <2>1 DEF Settling
    <2>3. /\ Len(<<>>) = 0 /\ <<>> \in Seq(Records) /\ pending \in Seq(Records)
          /\ trades \in Seq(Records)
      BY EmptySeq DEF Typed
    <2>4. pending' \in Seq(Records) /\ trades' \in Seq(Records)
      BY <2>1, <2>3
    <2>5. /\ \A i \in 1 .. Len(pending') : pending'[i].ts <= sec'
          /\ \A i \in 1 .. Len(trades') : trades'[i].ts <= sec'
      <3>1. \A i \in 1 .. 0 : FALSE
        OBVIOUS
      <3>2. \A i \in 1 .. Len(pending') : pending'[i].ts <= sec
        <4>1. CASE pending' = pending
          BY <4>1 DEF Typed
        <4>2. CASE pending' = <<>>
          BY <2>3, <3>1, <4>2
        <4>3. QED
          BY <2>1, <4>1, <4>2
      <3>3. \A i \in 1 .. Len(trades') : trades'[i].ts <= sec
        <4>1. CASE trades' = trades
          BY <4>1 DEF Typed
        <4>2. CASE trades' = <<>>
          BY <2>3, <3>1, <4>2
        <4>3. QED
          BY <2>1, <4>1, <4>2
      <3>4. QED
        BY <2>1, <3>2, <3>3
    <2>6. settledFile' \subseteq Epochs /\ state' \in States
      BY <1>0, <1>a, <2>1
    <2>7. QED
      BY <1>0, <2>1, <2>2, <2>4, <2>5, <2>6 DEF Typed
  <1>14. QED
    BY <1>1, <1>2, <1>3, <1>4, <1>5, <1>6, <1>7, <1>8, <1>9, <1>10, <1>11, <1>12, <1>13,
       BetTyped, TradeTyped DEF Next

\* The variables of dry mode keep their types.
LEMMA TypesKept == Spec => []Typed
  <1>1. Typed /\ [Next]_vars => Typed'
    <2> SUFFICES ASSUME Typed, [Next]_vars PROVE Typed'
      OBVIOUS
    <2>1. CASE UNCHANGED vars
      BY <2>1 DEF vars, market, files, memory, ghosts, limits, Typed
    <2>2. QED
      BY <2>1, StepTyped
  <1>2. QED
    BY InitTyped, <1>1, PTL DEF Spec

-----------------------------------------------------------------------------
(* The calendar and the files.                                             *)

\* What the operator has called, what was announced and what is on file lies in the
\* past, and what is on file is final.
PastInv ==
    /\ \A e \in Epochs : oracle[e] # "open" \/ alerts[e] > 0 => Close(e) <= now
    /\ \A e \in due : Final(e)
    /\ \A e \in EpochsIn(trades) : Final(e)
    /\ pc \in Settling => Final(hand.epoch)

\* A running process remembers what is on file; the settlement in hand is neither in
\* its memory nor to be looked at again.
FileInv ==
    /\ settledFile \subseteq EpochsIn(trades)
    /\ pc \in Running =>
          bets = EpochsIn(pending) /\ todo \subseteq bets /\ todo \cap settled = {}
    /\ pc \in Running \ {"mark"} => settled = EpochsIn(trades)
    /\ pc = "mark" => EpochsIn(trades) = settled \cup {hand.epoch}
    /\ pc \in Settling =>
          /\ hand.epoch \in bets /\ hand.epoch \notin settled /\ hand.epoch \notin todo

\* A final round stays final.
LEMMA FinalKept ==
    ASSUME Typed, now' \in Nat, now <= now', NEW e \in Epochs,
           oracle[e] # "open" => oracle'[e] # "open"
    PROVE  Final(e) => Final(e)'
  <1>1. Close(e) \in Nat /\ Close(e)' = Close(e) /\ Buffer \in Nat /\ now \in Nat
    BY Times, Constants DEF Typed, Close, Lock
  <1> DEFINE c == Close(e)
  <1>2. /\ Final(e) <=> oracle[e] # "open" \/ c + Buffer < now
        /\ Final(e)' <=> oracle'[e] # "open" \/ c + Buffer < now'
    BY <1>1 DEF Final
  <1> HIDE DEF c
  <1>3. c + Buffer < now => c + Buffer < now'
    <2>1. c \in Nat
      BY <1>1 DEF c
    <2>2. QED
      BY <1>1, <2>1
  <1>4. QED
    BY <1>2, <1>3

\* A final round has closed.
LEMMA FinalIsPast ==
    ASSUME Typed, PastInv, NEW e \in Epochs, Final(e)
    PROVE  Close(e) <= now
  <1>1. Close(e) \in Nat /\ Buffer \in Nat /\ now \in Nat
    BY Times, Constants DEF Typed
  <1>2. CASE oracle[e] # "open"
    BY <1>2 DEF PastInv
  <1>3. CASE Close(e) + Buffer < now
    BY <1>1, <1>3
  <1>4. QED
    BY <1>2, <1>3 DEF Final

LEMMA InitPast == Init => PastInv /\ FileInv
  <1> SUFFICES ASSUME Init PROVE PastInv /\ FileInv
    OBVIOUS
  <1>1. trades = <<>> /\ EpochsIn(trades) = {} /\ pc = "down" /\ settledFile = {}
    BY NoEpochs DEF Init
  <1>2. pc \notin Running /\ pc \notin Settling /\ pc # "mark"
    BY <1>1 DEF Running, Settling
  <1>3. \A e \in Epochs : oracle[e] = "open" /\ ~(alerts[e] > 0)
    BY DEF Init
  <1>4. due = {}
    BY DEF Init
  <1>5. QED
    BY <1>1, <1>2, <1>3, <1>4 DEF PastInv, FileInv

\* Steps that leave the calendar alone.
LEMMA PastFrame ==
    ASSUME Typed, PastInv, UNCHANGED <<now, oracle, alerts>>, due' \in {due, DueRounds},
           EpochsIn(trades') \subseteq EpochsIn(trades),
           pc' \in Settling => pc \in Settling /\ hand'.epoch = hand.epoch
    PROVE  PastInv'
  <1>1. \A e : Final(e)' <=> Final(e)
    BY DEF Final, Close, Lock
  <1>2. \A e : Close(e)' = Close(e)
    BY DEF Close, Lock
  <1>3. \A e \in due' : Final(e)'
    BY <1>1 DEF PastInv, DueRounds, Final
  <1>4. pc' \in Settling => Final(hand.epoch)'
    <2> SUFFICES ASSUME pc' \in Settling PROVE Final(hand.epoch)'
      OBVIOUS
    <2>1. Final(hand.epoch) /\ hand'.epoch = hand.epoch
      BY DEF PastInv
    <2>2. PICK h : h = hand.epoch
      OBVIOUS
    <2>3. Final(h)
      BY <2>1, <2>2
    <2>4. Final(h)'
      BY <1>1, <2>3
    <2>5. hand'.epoch = h
      BY <2>1, <2>2
    <2>6. QED
      BY <2>4, <2>5 DEF Final, Close, Lock
  <1>5. \A e \in EpochsIn(trades') : Final(e)'
    BY <1>1 DEF PastInv
  <1>6. \A e \in Epochs : oracle'[e] # "open" \/ alerts'[e] > 0 => Close(e)' <= now'
    BY <1>2 DEF PastInv
  <1>7. QED
    BY <1>3, <1>4, <1>5, <1>6 DEF PastInv

\* The clock goes on, or the operator makes a call that is not too late.
LEMMA ChainKeepsPast == ASSUME Typed, PastInv, Tick \/ OracleCalls PROVE PastInv'
  <1>1. UNCHANGED <<trades, pc, hand, alerts, due>>
    BY DEF Tick, OracleCalls, files, memory, ghosts
  <1>2. now \in Nat /\ now' \in Nat /\ now <= now'
    BY DEF Typed, Tick, OracleCalls
  <1>3. \A e \in Epochs : Close(e)' = Close(e) /\ Close(e) \in Nat
    BY Times DEF Close, Lock
  <1>4. \A e \in Epochs : oracle[e] # "open" => oracle'[e] # "open"
    BY DEF Typed, Tick, OracleCalls
  <1>5. \A e \in Epochs : Final(e) => Final(e)'
    BY <1>2, <1>4, FinalKept
  <1>6. \A e \in EpochsIn(trades) : e \in Epochs
    BY EpochsTyped DEF Typed
  <1>7. \A e \in EpochsIn(trades') : Final(e)'
    BY <1>1, <1>5, <1>6 DEF PastInv
  <1>8. pc' \in Settling => Final(hand.epoch)'
    <2> SUFFICES ASSUME pc' \in Settling PROVE Final(hand.epoch)'
      OBVIOUS
    <2>1. PICK h : h = hand.epoch
      OBVIOUS
    <2>2. h \in Epochs /\ Final(h) /\ hand'.epoch = h
      BY <1>1, <2>1 DEF PastInv, Typed
    <2>3. Final(h)'
      BY <1>5, <2>2
    <2>4. QED
      BY <2>2, <2>3 DEF Final, Close, Lock
  <1>9. \A e \in Epochs : oracle'[e] # "open" \/ alerts'[e] > 0 => Close(e)' <= now'
    <2> TAKE e \in Epochs
    <2> DEFINE c == Close(e)
    <2>1. c \in Nat /\ Close(e)' = c
      BY <1>3
    <2>2. (oracle[e] # "open" \/ alerts[e] > 0) => c <= now
      BY DEF PastInv
    <2>3. oracle'[e] # oracle[e] => c <= now
      BY DEF Typed, Tick, OracleCalls, market
    <2> HIDE DEF c
    <2>4. QED
      BY <1>1, <1>2, <2>1, <2>2, <2>3
  <1>10. \A e \in due' : Final(e)'
    <2>1. due' \subseteq Epochs /\ \A e \in due' : Final(e)
      BY <1>1 DEF PastInv, Typed
    <2>2. QED
      BY <1>5, <2>1
  <1>11. QED
    BY <1>7, <1>8, <1>9, <1>10 DEF PastInv

LEMMA SettlingKeepsPast ==
    ASSUME Typed, PastInv, Credit \/ Announce \/ AppendTrade
    PROVE  PastInv'
  <1> USE DEF market, files, memory, ghosts, limits
  <1>1. UNCHANGED <<now, oracle, due>>
    BY DEF Credit, Announce, AppendTrade
  <1>2. \A e : (Final(e)' <=> Final(e)) /\ Close(e)' = Close(e)
    BY <1>1 DEF Final, Close, Lock
  <1>3. \A e \in due' : Final(e)'
    BY <1>1, <1>2 DEF PastInv
  <1>4. pc' \in Settling /\ hand'.epoch \in Epochs /\ Final(hand'.epoch)
    <2>1. CASE Credit
      <3>1. Final(First) /\ First \in Epochs /\ hand'.epoch = First /\ pc' = "announce"
        BY <2>1, FirstIsNext DEF Credit
      <3>2. QED
        BY <3>1 DEF Settling
    <2>2. CASE Announce \/ AppendTrade
      <3>1. pc \in Settling /\ pc' \in Settling /\ hand' = hand
        BY <2>2 DEF Announce, AppendTrade, Settling
      <3>2. QED
        BY <3>1 DEF PastInv, Typed
    <2>3. QED
      BY <2>1, <2>2
  <1>5. \A e \in EpochsIn(trades') : Final(e)
    <2>1. CASE Credit \/ Announce
      <3>1. trades' = trades
        BY <2>1 DEF Credit, Announce
      <3>2. QED
        BY <3>1 DEF PastInv
    <2>2. CASE AppendTrade
      <3> DEFINE r == [epoch |-> hand.epoch, ts |-> hand.ts, after |-> bankroll]
      <3>1. trades' = Append(trades, r) /\ hand' = hand
        BY <2>2 DEF AppendTrade
      <3>2. r \in Records /\ r.epoch = hand.epoch
        BY <2>2 DEF AppendTrade, Settling, Typed, Records, Hands
      <3> HIDE DEF r
      <3>3. EpochsIn(trades') = EpochsIn(trades) \cup {hand.epoch}
        BY <3>1, <3>2, LogGrows DEF Typed
      <3>4. QED
        BY <1>4, <3>1, <3>3 DEF PastInv
    <2>3. QED
      BY <2>1, <2>2
  <1>6. \A e \in Epochs : oracle'[e] # "open" \/ alerts'[e] > 0 => Close(e) <= now
    <2> TAKE e \in Epochs
    <2>1. CASE alerts'[e] = alerts[e]
      BY <1>1, <2>1 DEF PastInv
    <2>2. CASE alerts'[e] # alerts[e]
      <3>1. Announce /\ hand.epoch = e
        BY <2>2 DEF Credit, Announce, AppendTrade, Typed
      <3>2. Final(e)
        BY <3>1 DEF Announce, PastInv, Settling
      <3>3. QED
        BY <3>2, FinalIsPast
    <2>3. QED
      BY <2>1, <2>2
  <1>7. Final(hand.epoch)'
    <2>1. PICK h : h = hand'.epoch
      OBVIOUS
    <2>2. Final(h)'
      BY <1>2, <1>4, <2>1
    <2>3. QED
      BY <2>1, <2>2 DEF Final, Close, Lock
  <1>8. QED
    BY <1>1, <1>2, <1>3, <1>4, <1>5, <1>6, <1>7 DEF PastInv

LEMMA StepKeepsPast == ASSUME Typed, PastInv, Next PROVE PastInv'
  <1> USE DEF market, files, memory, ghosts, limits
  <1>1. CASE DryRecordBet \/ DuplicateBet \/ SaveAfterBet \/ Skip \/ Wake \/ PassOver
             \/ MarkSettled \/ SaveAfterSettle \/ EndPass \/ Crash \/ InitRuntimeState
             \/ FreshStart \/ Archive
    <2>1. UNCHANGED <<now, oracle, alerts>> /\ due' \in {due, DueRounds}
      BY <1>1 DEF DryRecordBet, DuplicateBet, SaveAfterBet, Skip, Wake, PassOver, MarkSettled,
                  SaveAfterSettle, EndPass, Crash, InitRuntimeState, FreshStart, Archive
    <2>2. trades' \in {trades, <<>>}
      BY <1>1 DEF DryRecordBet, DuplicateBet, SaveAfterBet, Skip, Wake, PassOver, MarkSettled,
                  SaveAfterSettle, EndPass, Crash, InitRuntimeState, FreshStart, Archive
    <2>3. pc' \notin Settling
      BY <1>1 DEF DryRecordBet, DuplicateBet, SaveAfterBet, Skip, Wake, PassOver, MarkSettled,
                  SaveAfterSettle, EndPass, Crash, InitRuntimeState, FreshStart, Archive, Settling
    <2>4. EpochsIn(trades') \subseteq EpochsIn(trades)
      BY <2>2, NoEpochs
    <2>5. QED
      BY <2>1, <2>3, <2>4, PastFrame
  <1>2. QED
    BY <1>1, ChainKeepsPast, SettlingKeepsPast DEF Next

\* Where nothing is remembered only the files count.
LEMMA DownKeepsFiles ==
    ASSUME pc' \in {"down", "archive"}, settledFile' \subseteq EpochsIn(trades')
    PROVE  FileInv'
  <1>1. pc' \notin Running /\ pc' \notin Settling /\ pc' # "mark"
    BY DEF Running, Settling
  <1>2. QED
    BY <1>1 DEF FileInv

LEMMA BetKeepsFiles == ASSUME Typed, FileInv, DryRecordBet PROVE FileInv'
  <1>1. PICK e \in (OpenEpoch \cap Epochs) \ bets :
           /\ sec' = sec + 1 /\ bankroll' = bankroll - (Stake + Gas) /\ bets' = bets \cup {e}
           /\ pending' = Append(pending, [epoch |-> e, ts |-> sec + 1, after |-> bankroll'])
    BY DEF DryRecordBet
  <1> DEFINE r == [epoch |-> e, ts |-> sec + 1, after |-> bankroll']
  <1>2. r \in Records /\ r.epoch = e
    BY <1>1, Constants DEF Typed, Records
  <1> HIDE DEF r
  <1>3. pending' = Append(pending, r)
    BY <1>1 DEF r
  <1>4. EpochsIn(pending') = EpochsIn(pending) \cup {e}
    BY <1>2, <1>3, LogGrows DEF Typed
  <1>5. pc = "decide" /\ pc' = "saveBet" /\ UNCHANGED <<trades, settledFile, settled, todo>>
    BY DEF DryRecordBet
  <1>6. pc \in Running /\ pc' \notin Settling /\ pc \notin {"mark"} /\ pc' # "mark"
    BY <1>5 DEF Running, Settling
  <1>7. QED
    BY <1>1, <1>4, <1>5, <1>6 DEF FileInv

LEMMA PassKeepsFiles ==
    ASSUME Typed, FileInv, Wake \/ PassOver \/ Credit \/ Announce
    PROVE  FileInv'
  <1> USE DEF market, files, memory, ghosts, limits
  <1>1. UNCHANGED <<pending, trades, settledFile, bets, settled>>
    BY DEF Wake, PassOver, Credit, Announce
  <1>2. pc \in Running \ {"mark"} /\ pc' \in Running \ {"mark"}
    BY DEF Wake, PassOver, Credit, Announce, Running, Settling
  <1>3. todo' \subseteq bets /\ todo' \cap settled = {}
    BY <1>2 DEF Wake, PassOver, Credit, Announce, FileInv
  <1>4. pc' \in Settling =>
          hand'.epoch \in bets /\ hand'.epoch \notin settled /\ hand'.epoch \notin todo'
    <2>1. CASE Wake \/ PassOver
      BY <2>1 DEF Wake, PassOver, Settling
    <2>2. CASE Credit
      <3>1. First \in todo /\ hand'.epoch = First /\ todo' = todo \ {First}
        BY <2>2, FirstIsNext DEF Credit
      <3>2. QED
        BY <1>2, <3>1 DEF FileInv
    <2>3. CASE Announce
      BY <2>3 DEF Announce, FileInv, Settling
    <2>4. QED
      BY <2>1, <2>2, <2>3
  <1>5. QED
    BY <1>1, <1>2, <1>3, <1>4 DEF FileInv

LEMMA SettleKeepsFiles ==
    ASSUME Typed, FileInv, AppendTrade \/ MarkSettled
    PROVE  FileInv'
  <1> USE DEF market, memory, ghosts, limits
  <1>1. CASE AppendTrade
    <2> DEFINE r == [epoch |-> hand.epoch, ts |-> hand.ts, after |-> bankroll]
    <2>1. /\ trades' = Append(trades, r) /\ pc = "row" /\ pc' = "mark"
          /\ UNCHANGED <<pending, settledFile, bets, settled, todo, hand>>
      BY <1>1 DEF AppendTrade
    <2>2. r \in Records /\ r.epoch = hand.epoch
      BY <2>1 DEF Settling, Typed, Records, Hands
    <2> HIDE DEF r
    <2>3. EpochsIn(trades') = EpochsIn(trades) \cup {hand.epoch}
      BY <2>1, <2>2, LogGrows DEF Typed
    <2>4. pc \in Running \ {"mark"} /\ pc \in Settling /\ pc' \in Running /\ pc' \in Settling
      BY <2>1 DEF Running, Settling
    <2>5. QED
      BY <2>1, <2>3, <2>4 DEF FileInv
  <1>2. CASE MarkSettled
    <2>1. /\ pc = "mark" /\ pc' = "saveSettle"
          /\ settled' = settled \cup {hand.epoch} /\ settledFile' = settledFile \cup {hand.epoch}
          /\ UNCHANGED <<pending, trades, bets, todo, hand>>
      BY <1>2 DEF MarkSettled
    <2>2. pc \in Running /\ pc \in Settling /\ pc' \in Running \ {"mark"} /\ pc' \notin Settling
      BY <2>1 DEF Running, Settling
    <2>3. EpochsIn(trades) = settled \cup {hand.epoch} /\ hand.epoch \notin todo
      BY <2>1, <2>2 DEF FileInv
    <2>4. QED
      BY <2>1, <2>2, <2>3 DEF FileInv
  <1>3. QED
    BY <1>1, <1>2

LEMMA StepKeepsFiles == ASSUME Typed, FileInv, Next PROVE FileInv'
  <1> USE DEF market, files, memory, ghosts, limits
  <1>1. CASE Tick \/ OracleCalls
    <2>1. UNCHANGED <<pending, trades, settledFile, bets, settled, todo, hand, pc>>
      BY <1>1 DEF Tick, OracleCalls
    <2>2. QED
      BY <2>1 DEF FileInv
  <1>2. CASE DuplicateBet \/ Crash \/ FreshStart
    <2>1. UNCHANGED <<trades, settledFile>> /\ pc' \in {"down", "archive"}
      BY <1>2 DEF DuplicateBet, Crash, FreshStart
    <2>2. QED
      BY <2>1, DownKeepsFiles DEF FileInv
  <1>3. CASE Archive
    <2>1. pc' \in {"down", "archive"}
      BY <1>3 DEF Archive
    <2>2. settledFile' \in {settledFile, {}} /\ (trades' = trades \/ settledFile' = {})
      BY <1>3 DEF Archive
    <2>3. QED
      BY <2>1, <2>2, DownKeepsFiles DEF FileInv
  <1>4. CASE SaveAfterBet \/ Skip \/ SaveAfterSettle \/ EndPass
    <2>1. /\ UNCHANGED <<pending, trades, settledFile, bets, settled, todo>>
          /\ pc \in {"saveBet", "decide", "saveSettle", "pass"} /\ pc' \in {"asleep", "pass", "decide"}
      BY <1>4 DEF SaveAfterBet, Skip, SaveAfterSettle, EndPass
    <2>2. pc \in Running \ {"mark"} /\ pc' \in Running \ {"mark"} /\ pc' \notin Settling
      BY <2>1 DEF Running, Settling
    <2>3. QED
      BY <2>1, <2>2 DEF FileInv
  <1>5. CASE InitRuntimeState
    <2>1. /\ UNCHANGED <<pending, trades, settledFile>> /\ pc' = "pass"
          /\ bets' = EpochsIn(pending) /\ settled' = settledFile \cup EpochsIn(trades)
          /\ todo' = bets' \ settled'
      BY <1>5 DEF InitRuntimeState, LoadSettled
    <2>2. pc' \in Running \ {"mark"} /\ pc' \notin Settling
      BY <2>1 DEF Running, Settling
    <2>3. QED
      BY <2>1, <2>2 DEF FileInv
  <1>6. QED
    BY <1>1, <1>2, <1>3, <1>4, <1>5, BetKeepsFiles, PassKeepsFiles, SettleKeepsFiles DEF Next

LEMMA FilesKept == Spec => [](PastInv /\ FileInv)
  <1>1. Typed /\ PastInv /\ FileInv /\ [Next]_vars => PastInv' /\ FileInv'
    <2> SUFFICES ASSUME Typed, PastInv, FileInv, [Next]_vars PROVE PastInv' /\ FileInv'
      OBVIOUS
    <2>1. CASE UNCHANGED vars
      BY <2>1 DEF vars, market, files, memory, ghosts, limits, PastInv, FileInv, Final, Close, Lock
    <2>2. QED
      BY <2>1, StepKeepsPast, StepKeepsFiles
  <1>2. QED
    BY InitPast, TypesKept, <1>1, PTL DEF Spec

-----------------------------------------------------------------------------
(* What is on file was announced.                                          *)

\* A bet that is not on file as settled was announced at most once by every process that
\* died since, and the one in hand once more.
AlertInv ==
    /\ SettlementsAreAnnounced
    /\ \A e \in EpochsIn(pending) :
          \/ e \in EpochsIn(trades)
          \/ pc = "row" /\ hand.epoch = e
          \/ alerts[e] <= crashes
    /\ pc = "row" => alerts[hand.epoch] \in 1 .. crashes + 1

LEMMA InitAlerts == Init => AlertInv
  <1> SUFFICES ASSUME Init PROVE AlertInv
    OBVIOUS
  <1>1. EpochsIn(trades) = {} /\ EpochsIn(pending) = {} /\ pc = "down"
    BY NoEpochs DEF Init
  <1>2. QED
    BY <1>1 DEF AlertInv, SettlementsAreAnnounced

LEMMA BetKeepsAlerts == ASSUME Typed, PastInv, AlertInv, DryRecordBet PROVE AlertInv'
  <1>1. PICK e \in (OpenEpoch \cap Epochs) \ bets :
           pending' = Append(pending, [epoch |-> e, ts |-> sec + 1, after |-> bankroll'])
           /\ bankroll' = bankroll - (Stake + Gas)
    BY DEF DryRecordBet
  <1> DEFINE r == [epoch |-> e, ts |-> sec + 1, after |-> bankroll']
  <1>2. r \in Records /\ r.epoch = e
    BY <1>1, Constants DEF Typed, Records
  <1> HIDE DEF r
  <1>3. pending' = Append(pending, r)
    BY <1>1 DEF r
  <1>4. EpochsIn(pending') = EpochsIn(pending) \cup {e}
    BY <1>2, <1>3, LogGrows DEF Typed
  <1>5. pc = "decide" /\ pc' = "saveBet" /\ UNCHANGED <<trades, alerts, crashes>>
    BY DEF DryRecordBet, ghosts, limits
  <1>6. alerts[e] <= crashes
    <2>1. e \in Epochs /\ now < Lock(e)
      BY <1>1 DEF OpenEpoch
    <2>2. Lock(e) \in Nat /\ Close(e) \in Nat /\ Lock(e) < Close(e) /\ now \in Nat
      BY <2>1, Times DEF Typed
    <2>3. ~(Close(e) <= now)
      BY <2>1, <2>2
    <2>4. ~(alerts[e] > 0)
      BY <2>1, <2>3 DEF PastInv
    <2>5. alerts[e] \in Nat /\ crashes \in Nat
      BY <2>1 DEF Typed
    <2>6. QED
      BY <2>4, <2>5
  <1>7. QED
    BY <1>4, <1>5, <1>6 DEF AlertInv, SettlementsAreAnnounced

LEMMA AnnounceKeepsAlerts ==
    ASSUME Typed, FileInv, AlertInv, Announce
    PROVE  AlertInv'
  <1>1. /\ pc = "announce" /\ pc' = "row" /\ alerts' = [alerts EXCEPT ![hand.epoch] = @ + 1]
        /\ UNCHANGED <<pending, trades, hand, crashes>>
    BY DEF Announce, files, memory, limits
  <1>2. /\ hand.epoch \in Epochs /\ hand.epoch \in EpochsIn(pending)
        /\ hand.epoch \notin EpochsIn(trades)
    BY <1>1 DEF FileInv, Running, Settling, Typed
  <1>3. alerts[hand.epoch] <= crashes
    BY <1>1, <1>2 DEF AlertInv
  <1>4. EpochsIn(trades) \subseteq Epochs /\ EpochsIn(pending) \subseteq Epochs
    BY EpochsTyped DEF Typed
  <1>5. /\ alerts'[hand.epoch] = alerts[hand.epoch] + 1
        /\ \A e \in Epochs : e # hand.epoch => alerts'[e] = alerts[e]
    BY <1>1, <1>2 DEF Typed
  <1>6. alerts'[hand.epoch] \in 1 .. crashes + 1
    <2>1. alerts[hand.epoch] \in Nat /\ crashes \in Nat
      BY <1>2 DEF Typed
    <2> DEFINE a == alerts[hand.epoch]
    <2>2. a \in Nat /\ a <= crashes /\ alerts'[hand.epoch] = a + 1
      BY <1>3, <1>5, <2>1
    <2> HIDE DEF a
    <2>3. QED
      BY <2>1, <2>2
  <1>7. \A e \in EpochsIn(trades) : alerts'[e] \in 1 .. crashes + 1
    BY <1>2, <1>4, <1>5 DEF AlertInv, SettlementsAreAnnounced
  <1>8. \A e \in EpochsIn(pending) :
           e \in EpochsIn(trades) \/ hand.epoch = e \/ alerts'[e] <= crashes
    BY <1>1, <1>4, <1>5 DEF AlertInv
  <1>9. QED
    BY <1>1, <1>6, <1>7, <1>8 DEF AlertInv, SettlementsAreAnnounced

LEMMA StepKeepsAlerts ==
    ASSUME Typed, PastInv, FileInv, AlertInv, Next
    PROVE  AlertInv'
  <1> USE DEF market, files, memory, ghosts, limits
  <1>1. CASE Tick \/ OracleCalls \/ DuplicateBet \/ SaveAfterBet \/ Skip \/ Wake \/ PassOver \/ Credit
             \/ MarkSettled \/ SaveAfterSettle \/ EndPass \/ InitRuntimeState \/ FreshStart
    <2>1. UNCHANGED <<pending, trades, alerts, crashes>>
      BY <1>1 DEF Tick, OracleCalls, DuplicateBet, SaveAfterBet, Skip, Wake, PassOver, Credit,
                  MarkSettled, SaveAfterSettle, EndPass, InitRuntimeState, FreshStart
    <2>2. UNCHANGED <<pc, hand>> \/ (pc # "row" /\ pc' # "row")
      BY <1>1 DEF Tick, OracleCalls, DuplicateBet, SaveAfterBet, Skip, Wake, PassOver, Credit,
                  MarkSettled, SaveAfterSettle, EndPass, InitRuntimeState, FreshStart
    <2>3. QED
      BY <2>1, <2>2 DEF AlertInv, SettlementsAreAnnounced
  <1>2. CASE Crash
    <2>1. UNCHANGED <<pending, trades, alerts>> /\ crashes' = crashes + 1 /\ pc' = "down"
      BY <1>2 DEF Crash
    <2>2. \A e \in EpochsIn(pending) : alerts[e] \in Nat
      BY EpochsTyped DEF Typed
    <2>3. crashes \in Nat
      BY DEF Typed
    <2>4. \A e \in EpochsIn(trades) : alerts[e] \in 1 .. (crashes + 1) + 1
      <3>1. \A a \in 1 .. crashes + 1 : a \in 1 .. (crashes + 1) + 1
        BY <2>3
      <3>2. QED
        BY <3>1 DEF AlertInv, SettlementsAreAnnounced
    <2>5. \A e \in EpochsIn(pending) : e \in EpochsIn(trades) \/ alerts[e] <= crashes + 1
      <3> TAKE e \in EpochsIn(pending)
      <3> DEFINE a == alerts[e]
      <3>1. e \in EpochsIn(trades) \/ a \in 1 .. crashes + 1 \/ a <= crashes
        BY DEF AlertInv
      <3>2. a \in Nat
        BY <2>2
      <3> HIDE DEF a
      <3>3. e \in EpochsIn(trades) \/ a <= crashes + 1
        BY <2>3, <3>1, <3>2
      <3>4. QED
        BY <3>3 DEF a
    <2>6. QED
      BY <2>1, <2>4, <2>5 DEF AlertInv, SettlementsAreAnnounced
  <1>3. CASE AppendTrade
    <2> DEFINE r == [epoch |-> hand.epoch, ts |-> hand.ts, after |-> bankroll]
    <2>1. /\ trades' = Append(trades, r) /\ pc = "row" /\ pc' = "mark"
          /\ UNCHANGED <<pending, alerts, crashes, hand>>
      BY <1>3 DEF AppendTrade
    <2>2. r \in Records /\ r.epoch = hand.epoch
      BY <2>1 DEF Settling, Typed, Records, Hands
    <2> HIDE DEF r
    <2>3. EpochsIn(trades') = EpochsIn(trades) \cup {hand.epoch}
      BY <2>1, <2>2, LogGrows DEF Typed
    <2>4. QED
      BY <2>1, <2>3 DEF AlertInv, SettlementsAreAnnounced
  <1>4. CASE Archive
    <2>1. UNCHANGED <<alerts, crashes>> /\ pc # "row" /\ pc' # "row"
      BY <1>4 DEF Archive
    <2>2. /\ pending' = <<>> \/ (pending' = pending /\ trades' = trades)
          /\ trades' \in {trades, <<>>}
      BY <1>4 DEF Archive
    <2>3. EpochsIn(trades') \subseteq EpochsIn(trades)
      BY <2>2, NoEpochs
    <2>4. EpochsIn(pending') = {} \/ (pending' = pending /\ trades' = trades)
      BY <2>2, NoEpochs
    <2>5. QED
      BY <2>1, <2>3, <2>4 DEF AlertInv, SettlementsAreAnnounced
  <1>5. QED
    BY <1>1, <1>2, <1>3, <1>4, BetKeepsAlerts, AnnounceKeepsAlerts DEF Next

\* A settlement that is on file was announced by every process that saw it through, and
\* by no other than the ones that died with it in hand (dry.py announces, then writes).
THEOREM SettlementsAnnounced == Spec => []SettlementsAreAnnounced
  <1>1. Typed /\ PastInv /\ FileInv /\ AlertInv /\ [Next]_vars => AlertInv'
    <2> SUFFICES ASSUME Typed, PastInv, FileInv, AlertInv, [Next]_vars PROVE AlertInv'
      OBVIOUS
    <2>1. CASE UNCHANGED vars
      BY <2>1 DEF vars, files, memory, ghosts, limits, AlertInv, SettlementsAreAnnounced
    <2>2. QED
      BY <2>1, StepKeepsAlerts
  <1>2. AlertInv => SettlementsAreAnnounced
    BY DEF AlertInv
  <1>3. QED
    BY InitAlerts, TypesKept, FilesKept, <1>1, <1>2, PTL DEF Spec

-----------------------------------------------------------------------------
(* A pass leaves nothing behind that was due.                              *)

Passing == Settling \cup {"pass", "saveSettle", "decide"}

\* As long as no read fails, what was due when the pass began is settled, in hand or
\* still to be looked at.
CompleteInv ==
    reads = 0 /\ pc \in Passing =>
        \A e \in bets \cap due :
            \/ e \in settled
            \/ pc # "decide" /\ e \in todo
            \/ pc \in Settling /\ e = hand.epoch

LEMMA StepKeepsComplete ==
    ASSUME Typed, PastInv, FileInv, CompleteInv, Next
    PROVE  CompleteInv'
  <1> USE DEF market, files, memory, ghosts, limits
  <1>1. CASE Tick \/ OracleCalls
    <2>1. UNCHANGED <<reads, pc, bets, due, settled, todo, hand>>
      BY <1>1 DEF Tick, OracleCalls
    <2>2. QED
      BY <2>1 DEF CompleteInv
  <1>2. CASE DryRecordBet \/ DuplicateBet \/ SaveAfterBet \/ Skip \/ Crash \/ FreshStart \/ Archive
    <2>1. pc' \notin Passing
      BY <1>2 DEF DryRecordBet, DuplicateBet, SaveAfterBet, Skip, Crash, FreshStart, Archive,
                  Passing, Settling
    <2>2. QED
      BY <2>1 DEF CompleteInv
  <1>3. CASE Wake \/ InitRuntimeState
    <2>1. pc' = "pass" /\ todo' = bets' \ settled'
      BY <1>3 DEF Wake, InitRuntimeState
    <2>2. QED
      BY <2>1 DEF CompleteInv
  <1>4. CASE PassOver
    <2>1. /\ UNCHANGED <<pc, bets, due, settled, hand>> /\ pc = "pass"
          /\ todo # {} /\ todo' = todo \ {First}
          /\ (~Final(First) /\ reads' = reads) \/ reads' = reads + 1
      BY <1>4 DEF PassOver
    <2>2. reads' = 0 => reads = 0 /\ ~Final(First)
      BY <2>1 DEF Typed
    <2>4. reads' = 0 => First \notin due
      BY <2>2 DEF PastInv
    <2>5. pc \in Passing /\ pc # "decide" /\ pc \notin Settling
      BY <2>1 DEF Passing, Settling
    <2>6. QED
      BY <2>1, <2>2, <2>4, <2>5 DEF CompleteInv
  <1>5. CASE Credit
    <2>1. /\ UNCHANGED <<bets, due, settled, reads>> /\ pc = "pass" /\ pc' = "announce"
          /\ todo' = todo \ {First} /\ hand'.epoch = First
      BY <1>5 DEF Credit
    <2>2. pc \in Passing /\ pc \notin Settling /\ pc' \in Settling
      BY <2>1 DEF Passing, Settling
    <2>3. QED
      BY <2>1, <2>2 DEF CompleteInv
  <1>6. CASE Announce \/ AppendTrade
    <2>1. /\ UNCHANGED <<bets, due, settled, reads, todo, hand>>
          /\ pc \in {"announce", "row"} /\ pc' \in {"row", "mark"}
      BY <1>6 DEF Announce, AppendTrade
    <2>2. pc \in Passing /\ pc \in Settling /\ pc # "decide" /\ pc' \in Settling /\ pc' # "decide"
      BY <2>1 DEF Passing, Settling
    <2>3. QED
      BY <2>1, <2>2 DEF CompleteInv
  <1>7. CASE MarkSettled
    <2>1. /\ UNCHANGED <<bets, due, reads, todo>> /\ settled' = settled \cup {hand.epoch}
          /\ pc = "mark" /\ pc' = "saveSettle"
      BY <1>7 DEF MarkSettled
    <2>2. pc \in Passing /\ pc # "decide" /\ pc' # "decide"
      BY <2>1 DEF Passing, Settling
    <2>3. QED
      BY <2>1, <2>2 DEF CompleteInv
  <1>8. CASE SaveAfterSettle
    <2>1. UNCHANGED <<bets, due, reads, todo, settled>> /\ pc = "saveSettle" /\ pc' = "pass"
      BY <1>8 DEF SaveAfterSettle
    <2>2. pc \in Passing /\ pc # "decide" /\ pc' # "decide" /\ pc \notin Settling
      BY <2>1 DEF Passing, Settling
    <2>3. QED
      BY <2>1, <2>2 DEF CompleteInv
  <1>9. CASE EndPass
    <2>1. /\ UNCHANGED <<bets, due, reads, todo, settled>> /\ pc = "pass" /\ pc' = "decide"
          /\ todo = {}
      BY <1>9 DEF EndPass
    <2>2. pc \in Passing /\ pc \notin Settling
      BY <2>1 DEF Passing, Settling
    <2>3. QED
      BY <2>1, <2>2 DEF CompleteInv
  <1>10. QED
    BY <1>1, <1>2, <1>3, <1>4, <1>5, <1>6, <1>7, <1>8, <1>9 DEF Next

\* Unless a read failed, a pass that is over has settled every bet whose round the
\* contract was done with when it began, called or refundable
\* (dry_settle_available_bets looks at every open bet, not only at the last one).
THEOREM DryPassesAreComplete == Spec => []PassIsComplete
  <1>1. Init => CompleteInv
    BY DEF Init, CompleteInv, Passing, Settling
  <1>2. Typed /\ PastInv /\ FileInv /\ CompleteInv /\ [Next]_vars => CompleteInv'
    <2> SUFFICES ASSUME Typed, PastInv, FileInv, CompleteInv, [Next]_vars PROVE CompleteInv'
      OBVIOUS
    <2>1. CASE UNCHANGED vars
      BY <2>1 DEF vars, market, files, memory, ghosts, limits, CompleteInv, Close, Lock
    <2>2. QED
      BY <2>1, StepKeepsComplete
  <1>3. CompleteInv => PassIsComplete
    BY DEF CompleteInv, PassIsComplete, Passing, Settling
  <1>4. QED
    BY <1>1, <1>2, <1>3, TypesKept, FilesKept, PTL DEF Spec

-----------------------------------------------------------------------------
(* The order of the records.                                               *)

UpTo(f, n, t) == \A i \in 1 .. n : f[i].ts <= t
After(f, t) == \A i \in 1 .. Len(f) : f[i].ts > t
LastOf(f) == f[Len(f)]

\* No record is later than the saved bankroll but the one that is being saved, which is
\* of the latest second; and none is as old as a bankroll that was configured.
OrderInv ==
    /\ state.ts <= sec /\ (state.source = "none" => state = NoState)
    /\ pc \in {"down", "archive"} => hand.ts = 0
    /\ pc \in Settling \cup {"saveBet", "saveSettle"} => hand.ts = sec
    /\ pc \in Running => state.source # "none"
    /\ pc \in Running \ {"saveBet"} => UpTo(pending, Len(pending), state.ts)
    /\ pc \in Running \ {"mark", "saveSettle"} => UpTo(trades, Len(trades), state.ts)
    /\ pc = "saveBet" =>
          /\ Len(pending) > 0 /\ UpTo(pending, Len(pending) - 1, state.ts)
          /\ LastOf(pending).ts = sec
    /\ pc \in {"mark", "saveSettle"} =>
          /\ Len(trades) > 0 /\ UpTo(trades, Len(trades) - 1, state.ts)
          /\ LastOf(trades).ts = sec
    /\ state.source = "configured_init" =>
          /\ After(pending, state.ts) /\ After(trades, state.ts)
          /\ pc = "pass" => hand.ts = 0
          /\ pc \in {"announce", "row"} => hand.ts > state.ts

LEMMA InitOrdered == Init => OrderInv
  <1> SUFFICES ASSUME Init PROVE OrderInv
    OBVIOUS
  <1>1. /\ state = NoState /\ state.ts = 0 /\ state.source = "none" /\ sec = 1 /\ pc = "down"
        /\ hand.ts = 0
    BY DEF Init, NoState, NoHand
  <1>2. "down" \notin Running /\ "down" \notin Settling
    BY DEF Running, Settling
  <1>3. QED
    BY <1>1, <1>2 DEF OrderInv

\* Steps that write neither a log nor the bankroll file.
LEMMA OrderFrame ==
    ASSUME Typed, OrderInv, UNCHANGED <<pending, trades, state>>,
           sec' \in Nat, sec <= sec', pc' \in Running => pc \in Running,
           pc' = "saveBet" <=> pc = "saveBet",
           pc' \in {"mark", "saveSettle"} <=> pc \in {"mark", "saveSettle"},
           pc' \in {"saveBet", "mark", "saveSettle"} => sec' = sec,
           pc' \in {"down", "archive"} => hand'.ts = 0,
           pc' \in Settling \cup {"saveBet", "saveSettle"} => hand'.ts = sec',
           state.source = "configured_init" =>
              /\ pc' = "pass" => hand'.ts = 0
              /\ pc' \in {"announce", "row"} => hand'.ts > state.ts
    PROVE  OrderInv'
  <1>1. state'.ts <= sec'
    BY DEF Typed, States, OrderInv
  <1>2. QED
    BY <1>1 DEF OrderInv

\* A record is added; the bankroll is saved in the next steps.
LEMMA LogKeepsOrder ==
    ASSUME NEW f \in Seq(Records), NEW r \in Records, NEW t \in Nat, r.ts > t
    PROVE  /\ Len(Append(f, r)) > 0 /\ Len(Append(f, r)) - 1 = Len(f)
           /\ LastOf(Append(f, r)) = r
           /\ UpTo(f, Len(f), t) => UpTo(Append(f, r), Len(f), t)
           /\ After(f, t) => After(Append(f, r), t)
  <1> DEFINE g == Append(f, r)
             n == Len(f)
  <1>1. n \in Nat /\ Len(g) = n + 1 /\ g[n + 1] = r /\ \A i \in 1 .. n : g[i] = f[i]
    BY LogGrows
  <1>2. /\ UpTo(f, Len(f), t) <=> \A i \in 1 .. n : f[i].ts <= t
        /\ UpTo(g, Len(f), t) <=> \A i \in 1 .. n : g[i].ts <= t
        /\ After(f, t) <=> \A i \in 1 .. n : f[i].ts > t
        /\ After(g, t) <=> \A i \in 1 .. Len(g) : g[i].ts > t
        /\ LastOf(g) = g[Len(g)]
    BY DEF UpTo, After, LastOf
  <1> HIDE DEF g, n
  <1>3. \A i \in 1 .. n + 1 : i \in 1 .. n \/ i = n + 1
    BY <1>1
  <1>4. After(f, t) => After(g, t)
    BY <1>1, <1>2, <1>3
  <1>5. Len(g) > 0 /\ Len(g) - 1 = n
    BY <1>1
  <1>6. QED
    BY <1>1, <1>2, <1>4, <1>5 DEF g, n

LEMMA BetKeepsOrder == ASSUME Typed, OrderInv, DryRecordBet PROVE OrderInv'
  <1>1. PICK e \in (OpenEpoch \cap Epochs) \ bets :
           /\ sec' = sec + 1 /\ bankroll' = bankroll - (Stake + Gas)
           /\ pending' = Append(pending, [epoch |-> e, ts |-> sec + 1, after |-> bankroll'])
           /\ hand' = [epoch |-> e, credit |-> 0, ts |-> sec + 1]
    BY DEF DryRecordBet
  <1> DEFINE r == [epoch |-> e, ts |-> sec + 1, after |-> bankroll']
  <1>2. r \in Records /\ r.ts = sec + 1 /\ sec \in Nat
    BY <1>1, Constants DEF Typed, Records
  <1> HIDE DEF r
  <1>3. pending' = Append(pending, r)
    BY <1>1 DEF r
  <1>4. pc = "decide" /\ pc' = "saveBet" /\ UNCHANGED <<trades, state>> /\ hand'.ts = sec'
    BY <1>1 DEF DryRecordBet
  <1>5. pc \in Running \ {"saveBet", "mark", "saveSettle"} /\ pc' \in Running
        /\ pc' \notin {"pass", "announce", "row", "mark", "saveSettle", "down", "archive"}
    BY <1>4 DEF Running, Settling
  <1>6. state.ts \in Nat /\ state.ts <= sec /\ pending \in Seq(Records)
    BY DEF Typed, States, OrderInv
  <1>7. state'.ts <= sec' /\ r.ts > state.ts
    BY <1>1, <1>2, <1>4, <1>6
  <1>8. /\ Len(pending') > 0 /\ Len(pending') - 1 = Len(pending)
        /\ LastOf(pending') = r
        /\ UpTo(pending, Len(pending), state.ts) => UpTo(pending', Len(pending), state.ts)
        /\ After(pending, state.ts) => After(pending', state.ts)
    BY <1>2, <1>3, <1>6, <1>7, LogKeepsOrder
  <1>9. LastOf(pending').ts = sec' /\ UpTo(pending', Len(pending') - 1, state'.ts)
    BY <1>1, <1>2, <1>4, <1>5, <1>8 DEF OrderInv
  <1>10. QED
    BY <1>4, <1>5, <1>7, <1>8, <1>9 DEF OrderInv

LEMMA TradeKeepsOrder == ASSUME Typed, OrderInv, AppendTrade PROVE OrderInv'
  <1> DEFINE r == [epoch |-> hand.epoch, ts |-> hand.ts, after |-> bankroll]
  <1>1. /\ trades' = Append(trades, r) /\ pc = "row" /\ pc' = "mark"
        /\ UNCHANGED <<sec, pending, state, hand>>
    BY DEF AppendTrade, memory
  <1>2. pc \in Running \ {"saveBet", "mark", "saveSettle"} /\ pc \in Settling
        /\ pc' \in Running /\ pc' \notin {"pass", "announce", "row", "saveBet", "down", "archive"}
    BY <1>1 DEF Running, Settling
  <1>3. r \in Records /\ r.ts = sec /\ sec \in Nat
    BY <1>2 DEF Typed, Records, Hands, OrderInv
  <1> HIDE DEF r
  <1>4. state.ts \in Nat /\ state.ts <= sec /\ trades \in Seq(Records)
    BY DEF Typed, States, OrderInv
  <1>5. Len(trades') > 0 /\ Len(trades') - 1 = Len(trades) /\ LastOf(trades') = r
        /\ UpTo(trades', Len(trades), state.ts)
    <2> DEFINE n == Len(trades)
    <2>1. n \in Nat /\ Len(trades') = n + 1 /\ trades'[n + 1] = r
          /\ \A i \in 1 .. n : trades'[i] = trades[i]
      BY <1>1, <1>3, <1>4, LogGrows
    <2>2. \A i \in 1 .. n : trades[i].ts <= state.ts
      BY <1>2 DEF OrderInv, UpTo
    <2>3. UpTo(trades', n, state.ts)
      BY <2>1, <2>2 DEF UpTo
    <2> HIDE DEF n
    <2>4. Len(trades') > 0 /\ Len(trades') - 1 = n /\ LastOf(trades') = r
      BY <2>1 DEF LastOf
    <2>5. QED
      BY <2>3, <2>4 DEF n
  <1>6. state.source = "configured_init" => After(trades', state.ts)
    <2> SUFFICES ASSUME state.source = "configured_init" PROVE After(trades', state.ts)
      OBVIOUS
    <2>1. hand.ts = sec /\ hand.ts > state.ts /\ After(trades, state.ts)
      BY <1>1, <1>2 DEF OrderInv
    <2>2. QED
      BY <1>1, <1>3, <1>4, <2>1, LogKeepsOrder
  <1>7. LastOf(trades').ts = sec' /\ UpTo(trades', Len(trades') - 1, state'.ts)
    BY <1>1, <1>3, <1>5
  <1>8. QED
    BY <1>1, <1>2, <1>4, <1>5, <1>6, <1>7 DEF OrderInv

\* A bankroll saved in the latest second is as late as every record.
LEMMA SaveKeepsOrder ==
    ASSUME Typed, OrderInv, SaveAfterBet \/ SaveAfterSettle
    PROVE  OrderInv'
  <1>1. /\ pc' \in {"asleep", "pass"} /\ UNCHANGED <<sec, pending, trades>>
        /\ pc \in {"saveBet", "saveSettle"}
        /\ state' \in {Save(bankroll, hand.ts, "bet"), Save(bankroll, hand.ts, "settle")}
    BY DEF SaveAfterBet, SaveAfterSettle
  <1>2. hand.ts = sec
    BY <1>1 DEF OrderInv
  <1>3. state'.ts = sec /\ state'.source \in {"bet", "settle"}
    BY <1>1, <1>2 DEF Save
  <1>4. UpTo(pending, Len(pending), sec) /\ UpTo(trades, Len(trades), sec) /\ sec \in Nat
    BY DEF Typed, UpTo
  <1>5. /\ pc' \notin Settling \cup {"saveBet", "mark", "saveSettle", "down", "archive"}
        /\ state'.ts <= sec'
    BY <1>1, <1>3, <1>4 DEF Settling
  <1>6. QED
    BY <1>1, <1>3, <1>4, <1>5 DEF OrderInv

LEMMA LogsUpTo ==
    ASSUME Typed, NEW t, \A i \in DOMAIN Logs : Logs[i].ts <= t
    PROVE  UpTo(pending, Len(pending), t) /\ UpTo(trades, Len(trades), t)
  <1> DEFINE p == Len(pending)
             u == Len(trades)
  <1>1. /\ p \in Nat /\ u \in Nat /\ DOMAIN Logs = 1 .. p + u
        /\ \A i \in 1 .. p : Logs[i] = pending[i]
        /\ \A i \in 1 .. u : Logs[p + i] = trades[i]
    BY LogsTyped
  <1>2. /\ UpTo(pending, Len(pending), t) <=> \A i \in 1 .. p : pending[i].ts <= t
        /\ UpTo(trades, Len(trades), t) <=> \A i \in 1 .. u : trades[i].ts <= t
    BY DEF UpTo
  <1> HIDE DEF p, u
  <1>3. \A i \in 1 .. p : i \in 1 .. p + u
    BY <1>1
  <1>4. \A i \in 1 .. u : p + i \in 1 .. p + u
    BY <1>1
  <1>5. \A i \in 1 .. p : pending[i].ts <= t
    BY <1>1, <1>3
  <1>6. \A i \in 1 .. u : trades[i].ts <= t
    BY <1>1, <1>4
  <1>7. QED
    BY <1>2, <1>5, <1>6

\* Empty logs are in any order.
LEMMA NoRecords ==
    ASSUME NEW t, pending = <<>>, trades = <<>>
    PROVE  /\ UpTo(pending, Len(pending), t) /\ UpTo(trades, Len(trades), t)
           /\ After(pending, t) /\ After(trades, t)
  <1>1. Len(<<>>) = 0 /\ \A i \in 1 .. 0 : FALSE
    OBVIOUS
  <1>2. QED
    BY <1>1 DEF UpTo, After

LEMMA StartKeepsOrder == ASSUME Typed, OrderInv, InitRuntimeState PROVE OrderInv'
  <1>1. PICK init \in Inits : state' = Resolve(init)
    BY DEF InitRuntimeState
  <1>2. pc = "down" /\ pc' = "pass" /\ UNCHANGED <<sec, pending, trades, hand>>
    BY DEF InitRuntimeState
  <1>3. hand'.ts = 0 /\ pc' \notin Settling \cup {"saveBet", "mark", "saveSettle", "down", "archive"}
    BY <1>2 DEF OrderInv, Settling
  <1>4. sec \in Nat /\ state.ts \in Nat /\ \A i \in DOMAIN Logs : Logs[i].ts \in Nat
    BY LogsTyped DEF Typed, States, Records
  <1>5. UpTo(pending, Len(pending), sec) /\ UpTo(trades, Len(trades), sec)
    BY DEF Typed, UpTo
  <1>6. /\ state'.ts <= sec /\ state'.source # "none"
        /\ UpTo(pending, Len(pending), state'.ts) /\ UpTo(trades, Len(trades), state'.ts)
        /\ state'.source = "configured_init" => After(pending, state'.ts) /\ After(trades, state'.ts)
    <2>1. CASE Logs = <<>>
      <3>1. pending = <<>> /\ trades = <<>> /\ Recovered = NoState
        BY <2>1, LogsEmpty, RecoveredIsLatest
      <3>2. (state' = state /\ state # NoState) \/ state' = Save(init, sec, "configured_init")
        BY <1>1, <3>1, ResolveCases
      <3>3. state'.ts <= sec /\ state'.source # "none"
        BY <1>4, <3>2 DEF Save, OrderInv
      <3>4. QED
        BY <3>1, <3>3, NoRecords
    <2>2. CASE Logs # <<>>
      <3>1. PICK k \in DOMAIN Logs :
               /\ \A j \in DOMAIN Logs : Logs[j].ts <= Logs[k].ts
               /\ Recovered = Save(Logs[k].after, Logs[k].ts, "recovered")
        BY <2>2, RecoveredIsLatest
      <3>2. Recovered.ts = Logs[k].ts /\ Recovered.source = "recovered" /\ Recovered # NoState
        BY <3>1 DEF Save, NoState
      <3>3. Logs[k].ts <= sec
        <4>1. \/ k \in 1 .. Len(pending) /\ Logs[k] = pending[k]
              \/ \E j \in 1 .. Len(trades) : Logs[k] = trades[j]
          BY LogsTyped
        <4>2. QED
          BY <1>5, <4>1 DEF UpTo
      <3>4. \/ state' = state /\ state # NoState /\ state.ts >= Recovered.ts
            \/ state' = Recovered
        BY <1>1, <3>2, ResolveCases
      <3>5. \A j \in DOMAIN Logs : Logs[j].ts <= state'.ts
        <4> TAKE j \in DOMAIN Logs
        <4> DEFINE x == Logs[j].ts
                   y == Logs[k].ts
                   z == state.ts
        <4>1. x \in Nat /\ y \in Nat /\ z \in Nat /\ x <= y
          BY <1>4, <3>1
        <4>2. (state'.ts = z /\ z >= y) \/ state'.ts = y
          BY <3>2, <3>4
        <4> HIDE DEF x, y, z
        <4>3. x <= state'.ts
          BY <4>1, <4>2
        <4>4. QED
          BY <4>3 DEF x
      <3>6. UpTo(pending, Len(pending), state'.ts) /\ UpTo(trades, Len(trades), state'.ts)
        BY <3>5, LogsUpTo
      <3>7. state'.ts <= sec /\ state'.source # "none"
        BY <3>2, <3>3, <3>4 DEF OrderInv
      <3>8. state'.source = "configured_init" => state' = state
        BY <3>2, <3>4
      <3>9. QED
        BY <3>6, <3>7, <3>8 DEF OrderInv
    <2>3. QED
      BY <2>1, <2>2
  <1>7. QED
    BY <1>2, <1>3, <1>6 DEF OrderInv

LEMMA ArchiveKeepsOrder == ASSUME Typed, OrderInv, Archive PROVE OrderInv'
  <1>1. /\ UNCHANGED <<sec, hand>> /\ pc = "archive" /\ pc' \in {"archive", "down"}
        /\ pending' \in {pending, <<>>} /\ trades' \in {trades, <<>>}
        /\ state' \in {state, NoState}
    BY DEF Archive, memory
  <1>2. pc' \notin Running /\ pc' \notin Settling \cup {"saveBet", "mark", "saveSettle"}
        /\ hand'.ts = 0 /\ pc' \notin {"pass", "announce", "row"}
    BY <1>1 DEF OrderInv, Running, Settling
  <1>3. NoState.source = "none" /\ NoState.ts = 0 /\ sec \in Nat
    BY DEF NoState, Typed
  <1>4. state'.ts <= sec' /\ (state'.source = "none" => state' = NoState)
    BY <1>1, <1>3 DEF OrderInv
  <1>5. \A t : After(<<>>, t)
    <2>1. Len(<<>>) = 0 /\ \A i \in 1 .. 0 : FALSE
      OBVIOUS
    <2>2. QED
      BY <2>1 DEF After
  <1>6. state'.source = "configured_init" => After(pending', state'.ts) /\ After(trades', state'.ts)
    BY <1>1, <1>3, <1>5 DEF OrderInv
  <1>7. QED
    BY <1>2, <1>4, <1>6 DEF OrderInv

LEMMA CreditKeepsOrder == ASSUME Typed, OrderInv, Credit PROVE OrderInv'
  <1>1. PICK ts \in Seconds : sec' = ts /\ hand'.ts = ts
    BY DEF Credit
  <1>2. UNCHANGED <<pending, trades, state>> /\ pc = "pass" /\ pc' = "announce"
    BY DEF Credit, files
  <1>3. sec \in Nat /\ ts \in Nat /\ sec <= ts /\ (hand.ts = 0 => ts = sec + 1)
    BY <1>1 DEF Typed, Seconds
  <1>4. state.source = "configured_init" => hand'.ts > state.ts
    <2>1. state.ts \in Nat /\ state.ts <= sec
      BY DEF Typed, States, OrderInv
    <2>2. state.source = "configured_init" => hand.ts = 0
      BY <1>2 DEF OrderInv
    <2>3. QED
      BY <1>1, <1>3, <2>1, <2>2
  <1>5. pc \in Running
    BY <1>2 DEF Running
  <1>6. sec' \in Nat /\ sec <= sec' /\ hand'.ts = sec'
    BY <1>1, <1>3
  <1>7. QED
    BY <1>2, <1>4, <1>5, <1>6, OrderFrame

LEMMA StepKeepsOrder == ASSUME Typed, OrderInv, Next PROVE OrderInv'
  <1> USE DEF market, files, memory, ghosts, limits
  <1>0. sec \in Nat /\ sec <= sec /\ NoHand.ts = 0
    BY DEF Typed, NoHand
  <1>1. CASE Tick \/ OracleCalls \/ PassOver
    <2>1. UNCHANGED <<sec, pending, trades, state, hand, pc>>
      BY <1>1 DEF Tick, OracleCalls, PassOver
    <2>2. QED
      BY <2>1 DEF OrderInv
  <1>2. CASE Announce \/ MarkSettled \/ FreshStart
    <2>1. /\ UNCHANGED <<sec, pending, trades, state, hand>>
          /\ <<pc, pc'>> \in {<<"announce", "row">>, <<"mark", "saveSettle">>, <<"down", "archive">>}
      BY <1>2 DEF Announce, MarkSettled, FreshStart
    <2>2. QED
      BY <2>1 DEF OrderInv, Running, Settling
  <1>3. CASE DuplicateBet \/ Crash \/ Skip \/ Wake \/ EndPass
    <2>1. /\ UNCHANGED <<sec, pending, trades, state>> /\ hand'.ts = 0
          /\ pc' \in {"down", "asleep", "pass", "decide"}
          /\ pc' # "down" => pc \in {"decide", "asleep", "pass"}
      BY <1>3 DEF DuplicateBet, Crash, Skip, Wake, EndPass, NoHand
    <2>2. /\ pc' \notin Settling \cup {"saveBet", "mark", "saveSettle", "announce", "row"}
          /\ pc' \in Running => pc \in Running \ {"saveBet", "mark", "saveSettle"}
      BY <2>1 DEF Running, Settling
    <2>3. QED
      BY <2>1, <2>2 DEF OrderInv
  <1>4. QED
    BY <1>1, <1>2, <1>3, BetKeepsOrder, TradeKeepsOrder, SaveKeepsOrder, StartKeepsOrder,
       ArchiveKeepsOrder, CreditKeepsOrder DEF Next

LEMMA OrderKept == Spec => []OrderInv
  <1>1. Typed /\ OrderInv /\ [Next]_vars => OrderInv'
    <2> SUFFICES ASSUME Typed, OrderInv, [Next]_vars PROVE OrderInv'
      OBVIOUS
    <2>1. CASE UNCHANGED vars
      BY <2>1 DEF vars, market, files, memory, ghosts, limits, OrderInv
    <2>2. QED
      BY <2>1, StepKeepsOrder
  <1>2. QED
    BY InitOrdered, TypesKept, <1>1, PTL DEF Spec

-----------------------------------------------------------------------------
(* The bankroll adds up.                                                   *)

Debits(epochs) == (Stake + Gas) * Cardinality(epochs)

\* What the account holds according to the two logs.
DiskBalance == base - Debits(EpochsIn(pending)) + Credits(EpochsIn(trades))

\* What a start may find: a bankroll saved after the last record, one record that no
\* other is as late as and that was not saved any more, or nothing.
Saved ==
    /\ state.source # "none"
    /\ \A i \in DOMAIN Logs : Logs[i].ts <= state.ts
    /\ state.bankroll = DiskBalance
Ahead == \E i \in DOMAIN Logs :
    /\ Logs[i].ts > state.ts /\ Logs[i].after = DiskBalance
    /\ \A j \in DOMAIN Logs : j # i => Logs[j].ts < Logs[i].ts
Untouched == state = NoState /\ Logs = <<>>

\* The bankroll in memory is what the logs say and the credit on its way to them; the
\* bankroll file has it too, unless it is the next thing to be written.
InMemory ==
    /\ pc \in {"announce", "row"} => bankroll = DiskBalance + CreditOf(hand.epoch)
    /\ pc \notin {"announce", "row"} => bankroll = DiskBalance
    /\ pc \notin {"saveBet", "mark", "saveSettle"} => state.bankroll = DiskBalance
    /\ pc = "saveBet" => LastOf(pending).after = bankroll
    /\ pc \in {"mark", "saveSettle"} => LastOf(trades).after = bankroll

BalanceInv ==
    /\ pc = "archive" => half
    /\ ~tied /\ ~half =>
        /\ pc = "down" => Saved \/ Ahead \/ Untouched
        /\ pc \in Running => InMemory

\* One bet more costs the stake and its gas, one settlement more brings its credit.
LEMMA DebitsAdd ==
    ASSUME NEW S, IsFiniteSet(S), NEW e, e \notin S
    PROVE  Debits(S \cup {e}) = Debits(S) + (Stake + Gas) /\ Debits(S) \in Nat
  <1> DEFINE n == Cardinality(S)
             cost == Stake + Gas
  <1>1. n \in Nat /\ Cardinality(S \cup {e}) = n + 1
    BY FS_AddElement, FS_CardinalityType
  <1>2. cost \in Nat
    BY Constants
  <1>3. Debits(S \cup {e}) = cost * (n + 1) /\ Debits(S) = cost * n
    BY <1>1 DEF Debits
  <1> HIDE DEF n, cost
  <1>4. cost * (n + 1) = cost * n + cost /\ cost * n \in Nat
    BY <1>1, <1>2
  <1>5. QED
    BY <1>3, <1>4 DEF cost

\* The rounds the operator made the same of; one round more adds one or none.
OfKind(epochs, kind) == {e \in epochs : oracle[e] = kind}

LEMMA KindAdds ==
    ASSUME NEW S, IsFiniteSet(S), NEW h, h \notin S, NEW kind, NEW unit \in Nat
    PROVE  /\ unit * Cardinality(OfKind(S, kind)) \in Nat
           /\ unit * Cardinality(OfKind(S \cup {h}, kind)) =
                 unit * Cardinality(OfKind(S, kind)) + (IF oracle[h] = kind THEN unit ELSE 0)
  <1> DEFINE K == OfKind(S, kind)
             L == OfKind(S \cup {h}, kind)
             n == Cardinality(K)
             m == Cardinality(L)
  <1>1. IsFiniteSet(K) /\ h \notin K
    BY FS_Subset DEF OfKind
  <1>2. L = IF oracle[h] = kind THEN K \cup {h} ELSE K
    BY DEF OfKind
  <1> HIDE DEF K, L
  <1>3. n \in Nat /\ Cardinality(K \cup {h}) = n + 1
    BY <1>1, FS_AddElement, FS_CardinalityType
  <1>4. m = IF oracle[h] = kind THEN n + 1 ELSE n
    BY <1>2, <1>3
  <1> HIDE DEF n, m
  <1>5. unit * n \in Nat /\ unit * (n + 1) = unit * n + unit
    BY <1>3
  <1>6. unit * m = unit * n + (IF oracle[h] = kind THEN unit ELSE 0)
    BY <1>4, <1>5
  <1>7. QED
    BY <1>5, <1>6 DEF K, L, n, m

LEMMA CreditsAdd ==
    ASSUME Typed, NEW S, IsFiniteSet(S), NEW h \in Epochs, h \notin S
    PROVE  Credits(S \cup {h}) = Credits(S) + CreditOf(h) /\ Credits(S) \in Nat
  <1> DEFINE W(T) == Payout * Cardinality(OfKind(T, "won"))
             O(T) == Stake * Cardinality(OfKind(T, "open"))
             w == IF oracle[h] = "won" THEN Payout ELSE 0
             o == IF oracle[h] = "open" THEN Stake ELSE 0
             T1 == S \cup {h}
  <1>0. Payout \in Nat /\ Stake \in Nat
    BY Constants
  <1>1. W(S) \in Nat /\ W(T1) = W(S) + w
    BY <1>0, KindAdds
  <1>2. O(S) \in Nat /\ O(T1) = O(S) + o
    BY <1>0, KindAdds
  <1>3. Credits(S) = W(S) + O(S) /\ Credits(T1) = W(T1) + O(T1)
    BY DEF Credits, OfKind
  <1>4. CreditOf(h) = w + o /\ w \in Nat /\ o \in Nat
    <2>1. oracle[h] \in {"open", "lost", "won"}
      BY DEF Typed
    <2>2. QED
      BY <1>0, <2>1 DEF CreditOf
  <1> HIDE DEF W, O, w, o, T1
  <1>5. Credits(T1) = Credits(S) + (w + o) /\ Credits(S) \in Nat
    BY <1>1, <1>2, <1>3, <1>4
  <1>6. QED
    BY <1>4, <1>5 DEF T1

LEMMA CreditsTyped == ASSUME NEW S, IsFiniteSet(S) PROVE Credits(S) \in Nat
  <1> DEFINE w == Cardinality({e \in S : oracle[e] = "won"})
             o == Cardinality({e \in S : oracle[e] = "open"})
  <1>1. w \in Nat /\ o \in Nat
    BY FS_Subset, FS_CardinalityType
  <1>2. Credits(S) = Payout * w + Stake * o
    BY DEF Credits
  <1> HIDE DEF w, o
  <1>3. Payout * w \in Nat /\ Stake * o \in Nat
    BY <1>1, Constants
  <1>4. QED
    BY <1>2, <1>3

LEMMA DiskTyped ==
    ASSUME Typed
    PROVE  /\ DiskBalance \in Int /\ Debits(EpochsIn(pending)) \in Int
           /\ Credits(EpochsIn(trades)) \in Int /\ base \in Int
  <1>1. IsFiniteSet(EpochsIn(pending)) /\ IsFiniteSet(EpochsIn(trades))
    BY EpochsTyped DEF Typed
  <1>2. Credits(EpochsIn(trades)) \in Nat
    BY <1>1, CreditsTyped
  <1> DEFINE n == Cardinality(EpochsIn(pending))
             d == Debits(EpochsIn(pending))
             c == Credits(EpochsIn(trades))
  <1>3. n \in Nat /\ d = (Stake + Gas) * n
    BY <1>1, FS_CardinalityType DEF Debits
  <1>4. DiskBalance = base - d + c /\ base \in Nat /\ c \in Nat
    BY <1>2 DEF DiskBalance, Typed
  <1> HIDE DEF n, d, c
  <1>5. d \in Int
    <2>1. (Stake + Gas) \in Nat
      BY Constants
    <2>2. QED
      BY <1>3, <2>1
  <1>6. DiskBalance \in Int
    BY <1>4, <1>5
  <1>7. QED
    BY <1>4, <1>5, <1>6 DEF d, c

\* The account of steps that neither bet nor settle.
LEMMA DiskFrame ==
    ASSUME UNCHANGED <<pending, trades, base, oracle>>
    PROVE  DiskBalance' = DiskBalance /\ \A e : CreditOf(e)' = CreditOf(e)
  <1>1. \A e : CreditOf(e)' = CreditOf(e)
    BY DEF CreditOf
  <1>2. DiskBalance' = DiskBalance
    BY DEF DiskBalance, Debits, Credits, EpochsIn
  <1>3. QED
    BY <1>1, <1>2

\* The operator calls no round that is final already, so no credit changes that is on
\* file or on its way there.
LEMMA OracleKeepsDisk ==
    ASSUME Typed, PastInv, OracleCalls
    PROVE  DiskBalance' = DiskBalance /\ \A e \in Epochs : Final(e) => CreditOf(e)' = CreditOf(e)
  <1>1. PICK c \in Epochs : /\ oracle[c] = "open" /\ now <= Close(c) + Buffer
                            /\ \A e \in Epochs : e # c => oracle'[e] = oracle[e]
    BY DEF OracleCalls, Typed
  <1>2. ~Final(c)
    <2>1. Close(c) \in Nat /\ Buffer \in Nat /\ now \in Nat
      BY Times, Constants DEF Typed
    <2> DEFINE x == Close(c)
    <2>2. x \in Nat /\ now <= x + Buffer
      BY <1>1, <2>1
    <2> HIDE DEF x
    <2>3. ~(x + Buffer < now)
      BY <2>1, <2>2
    <2>4. QED
      BY <1>1, <2>3 DEF Final, x
  <1>3. \A e \in Epochs : Final(e) => oracle'[e] = oracle[e]
    BY <1>1, <1>2
  <1>4. \A e \in EpochsIn(trades) : oracle'[e] = oracle[e]
    BY <1>3, EpochsTyped DEF PastInv, Typed
  <1>5. UNCHANGED <<pending, trades, base>>
    BY DEF OracleCalls, files, ghosts
  <1>6. PICK S : S = EpochsIn(trades)
    OBVIOUS
  <1>7. Credits(S)' = Credits(S)
    <2>1. /\ {e \in S : oracle'[e] = "won"} = {e \in S : oracle[e] = "won"}
          /\ {e \in S : oracle'[e] = "open"} = {e \in S : oracle[e] = "open"}
      BY <1>4, <1>6
    <2>2. QED
      BY <2>1 DEF Credits
  <1>8. S = EpochsIn(trades')
    BY <1>5, <1>6
  <1>9. Credits(EpochsIn(trades))' = Credits(EpochsIn(trades))
    BY <1>6, <1>7, <1>8 DEF Credits
  <1>10. Debits(EpochsIn(pending))' = Debits(EpochsIn(pending))
    BY <1>5 DEF Debits, EpochsIn
  <1>11. DiskBalance' = DiskBalance
    BY <1>5, <1>9, <1>10 DEF DiskBalance
  <1>12. QED
    BY <1>3, <1>11 DEF CreditOf

LEMMA InitBalanced == Init => BalanceInv
  <1> SUFFICES ASSUME Init PROVE BalanceInv
    OBVIOUS
  <1>1. pc = "down" /\ state = NoState /\ pending = <<>> /\ trades = <<>>
    BY DEF Init
  <1>2. Logs = <<>>
    BY <1>1 DEF Logs
  <1>3. pc \notin Running
    BY <1>1 DEF Running, Settling
  <1>4. QED
    BY <1>1, <1>2, <1>3 DEF BalanceInv, Untouched

\* Steps that change neither the logs, the bankroll nor its file.
LEMMA BalanceFrame ==
    ASSUME BalanceInv, UNCHANGED <<bankroll, state, tied, half, pending, trades>>,
           DiskBalance' = DiskBalance,
           pc' = "archive" <=> pc = "archive", pc' = "down" <=> pc = "down",
           pc' \in Running <=> pc \in Running, pc' = "saveBet" <=> pc = "saveBet",
           pc' \in {"announce", "row"} <=> pc \in {"announce", "row"},
           pc' \in {"announce", "row"} => CreditOf(hand.epoch)' = CreditOf(hand.epoch),
           pc' \in {"mark", "saveSettle"} <=> pc \in {"mark", "saveSettle"}
    PROVE  BalanceInv'
  <1>1. Logs' = Logs
    BY DEF Logs
  <1>2. (Saved' <=> Saved) /\ (Untouched' <=> Untouched)
    BY <1>1 DEF Saved, Untouched
  <1>3. Ahead' <=> Ahead
    BY <1>1 DEF Ahead
  <1>4. InMemory => InMemory'
    BY DEF InMemory
  <1>5. QED
    BY <1>2, <1>3, <1>4 DEF BalanceInv

LEMMA QuietKeepsBalance ==
    ASSUME Typed, PastInv, BalanceInv,
           Tick \/ OracleCalls \/ Skip \/ Wake \/ PassOver \/ EndPass \/ Announce \/ MarkSettled
    PROVE  BalanceInv'
  <1> USE DEF market, files, memory, ghosts, limits
  <1>1. UNCHANGED <<bankroll, state, tied, half, pending, trades, base>>
    BY DEF Tick, OracleCalls, Skip, Wake, PassOver, EndPass, Announce, MarkSettled
  <1>2. /\ pc' = "archive" <=> pc = "archive"
        /\ pc' = "down" <=> pc = "down"
        /\ pc' \in Running <=> pc \in Running
        /\ pc' = "saveBet" <=> pc = "saveBet"
        /\ pc' \in {"announce", "row"} <=> pc \in {"announce", "row"}
        /\ pc' \in {"mark", "saveSettle"} <=> pc \in {"mark", "saveSettle"}
        /\ pc' \in {"announce", "row"} => hand' = hand
    BY DEF Tick, OracleCalls, Skip, Wake, PassOver, EndPass, Announce, MarkSettled, Running, Settling
  <1>3. DiskBalance' = DiskBalance /\ \A e \in Epochs : Final(e) => CreditOf(e)' = CreditOf(e)
    <2>1. CASE OracleCalls
      BY <2>1, OracleKeepsDisk
    <2>2. CASE Tick \/ Skip \/ Wake \/ PassOver \/ EndPass \/ Announce \/ MarkSettled
      <3>1. oracle' = oracle
        BY <2>2 DEF Tick, Skip, Wake, PassOver, EndPass, Announce, MarkSettled
      <3>2. QED
        BY <1>1, <3>1, DiskFrame
    <2>3. QED
      BY <2>1, <2>2
  <1>4. pc' \in {"announce", "row"} => CreditOf(hand.epoch)' = CreditOf(hand.epoch)
    <2> SUFFICES ASSUME pc' \in {"announce", "row"}
                 PROVE  CreditOf(hand.epoch)' = CreditOf(hand.epoch)
      OBVIOUS
    <2>1. PICK h : h = hand.epoch
      OBVIOUS
    <2>2. h \in Epochs /\ Final(h) /\ hand'.epoch = h
      <3>1. pc \in Settling /\ hand' = hand
        BY <1>2 DEF Settling
      <3>2. QED
        BY <2>1, <3>1 DEF PastInv, Typed
    <2>3. CreditOf(h)' = CreditOf(h)
      BY <1>3, <2>2
    <2>4. QED
      BY <2>1, <2>2, <2>3 DEF CreditOf
  <1>5. QED
    BY <1>1, <1>2, <1>3, <1>4, BalanceFrame

LEMMA BetKeepsBalance ==
    ASSUME Typed, FileInv, BalanceInv, DryRecordBet
    PROVE  BalanceInv'
  <1>1. PICK e \in (OpenEpoch \cap Epochs) \ bets :
           /\ bankroll' = bankroll - (Stake + Gas)
           /\ pending' = Append(pending, [epoch |-> e, ts |-> sec + 1, after |-> bankroll'])
    BY DEF DryRecordBet
  <1> DEFINE r == [epoch |-> e, ts |-> sec + 1, after |-> bankroll']
  <1>2. r \in Records /\ r.epoch = e /\ r.after = bankroll'
    BY <1>1, Constants DEF Typed, Records
  <1> HIDE DEF r
  <1>3. pending' = Append(pending, r)
    BY <1>1 DEF r
  <1>4. EpochsIn(pending') = EpochsIn(pending) \cup {e} /\ LastOf(pending').after = bankroll'
    BY <1>2, <1>3, LogGrows DEF Typed, LastOf
  <1>5. pc = "decide" /\ pc' = "saveBet" /\ UNCHANGED <<trades, state, tied, half, base, oracle>>
    BY DEF DryRecordBet, market, ghosts
  <1>6. pc \in Running /\ pc' \notin {"announce", "row", "down", "archive", "mark", "saveSettle"}
    BY <1>5 DEF Running, Settling
  <1>7. e \notin EpochsIn(pending) /\ IsFiniteSet(EpochsIn(pending))
    BY <1>1, <1>6, EpochsTyped DEF FileInv, Typed
  <1>8. Debits(EpochsIn(pending')) = Debits(EpochsIn(pending)) + (Stake + Gas)
    BY <1>4, <1>7, DebitsAdd
  <1>9. DiskBalance' = DiskBalance - (Stake + Gas)
    <2> DEFINE d == Debits(EpochsIn(pending))
               c == Credits(EpochsIn(trades))
               cost == Stake + Gas
    <2>1. d \in Int /\ c \in Int /\ base \in Int /\ cost \in Int
      BY DiskTyped, Constants
    <2>2. DiskBalance = base - d + c
      BY DEF DiskBalance
    <2>3. Credits(EpochsIn(trades))' = c
      BY <1>5 DEF Credits, EpochsIn
    <2>4. DiskBalance' = base - (d + cost) + c
      <3>1. Debits(EpochsIn(pending))' = d + cost
        BY <1>8 DEF Debits, EpochsIn
      <3> HIDE DEF d, c, cost
      <3>2. QED
        BY <1>5, <2>3, <3>1 DEF DiskBalance
    <2> HIDE DEF d, c
    <2>5. QED
      BY <2>1, <2>2, <2>4
  <1>10. ~tied /\ ~half => bankroll = DiskBalance
    BY <1>5, <1>6 DEF BalanceInv, InMemory
  <1>11. ~tied' /\ ~half' => InMemory'
    BY <1>1, <1>4, <1>5, <1>6, <1>9, <1>10 DEF InMemory
  <1>12. QED
    BY <1>5, <1>6, <1>11 DEF BalanceInv

LEMMA CreditKeepsBalance ==
    ASSUME Typed, BalanceInv, Credit
    PROVE  BalanceInv'
  <1>1. /\ pc = "pass" /\ pc' = "announce" /\ bankroll' = bankroll + CreditOf(First)
        /\ hand'.epoch = First
        /\ UNCHANGED <<pending, trades, state, tied, half, base, oracle>>
    BY DEF Credit, market, files, ghosts
  <1>2. DiskBalance' = DiskBalance
    BY <1>1, DiskFrame
  <1>3. CreditOf(hand.epoch)' = CreditOf(First)
    BY <1>1 DEF CreditOf
  <1>4. pc \in Running /\ pc \notin {"announce", "row", "saveBet", "mark", "saveSettle"}
    BY <1>1 DEF Running
  <1>5. ~tied /\ ~half => bankroll = DiskBalance /\ state.bankroll = DiskBalance
    BY <1>4 DEF BalanceInv, InMemory
  <1>6. ~tied' /\ ~half' => InMemory'
    BY <1>1, <1>2, <1>3, <1>5 DEF InMemory
  <1>7. QED
    BY <1>1, <1>6 DEF BalanceInv

LEMMA TradeKeepsBalance ==
    ASSUME Typed, FileInv, BalanceInv, AppendTrade
    PROVE  BalanceInv'
  <1> DEFINE r == [epoch |-> hand.epoch, ts |-> hand.ts, after |-> bankroll]
  <1>1. /\ trades' = Append(trades, r) /\ pc = "row" /\ pc' = "mark"
        /\ UNCHANGED <<pending, state, hand, bankroll, tied, half, base, oracle>>
    BY DEF AppendTrade, memory, market, ghosts
  <1>2. pc \in Running \ {"mark"} /\ pc \in Settling
        /\ pc' \notin {"announce", "row", "down", "archive", "saveBet"}
    BY <1>1 DEF Running, Settling
  <1>3. r \in Records /\ r.epoch = hand.epoch /\ r.after = bankroll
    BY <1>2 DEF Typed, Records, Hands
  <1> HIDE DEF r
  <1>4. PICK h : h = hand.epoch
    OBVIOUS
  <1>5. EpochsIn(trades') = EpochsIn(trades) \cup {h} /\ LastOf(trades').after = bankroll
    BY <1>1, <1>3, <1>4, LogGrows DEF Typed, LastOf
  <1>6. h \in Epochs /\ h \notin EpochsIn(trades) /\ IsFiniteSet(EpochsIn(trades))
    BY <1>2, <1>4, EpochsTyped DEF FileInv, Typed
  <1>7. Credits(EpochsIn(trades) \cup {h}) = Credits(EpochsIn(trades)) + CreditOf(h)
    BY <1>6, CreditsAdd
  <1>8. DiskBalance' = DiskBalance + CreditOf(h)
    <2> DEFINE d == Debits(EpochsIn(pending))
               c == Credits(EpochsIn(trades))
               k == CreditOf(h)
    <2>1. d \in Int /\ c \in Int /\ base \in Int /\ k \in Int
      BY <1>6, DiskTyped, CreditTyped
    <2>2. DiskBalance = base - d + c
      BY DEF DiskBalance
    <2>3. Debits(EpochsIn(pending))' = d
      BY <1>1 DEF Debits, EpochsIn
    <2>4. Credits(EpochsIn(trades))' = c + k
      BY <1>1, <1>5, <1>7 DEF Credits, EpochsIn
    <2> HIDE DEF d, c, k
    <2>5. DiskBalance' = base - d + (c + k)
      BY <1>1, <2>3, <2>4 DEF DiskBalance
    <2>6. DiskBalance' = DiskBalance + k
      BY <2>1, <2>2, <2>5
    <2>7. QED
      BY <2>6 DEF k
  <1>9. ~tied /\ ~half => bankroll = DiskBalance + CreditOf(h)
    BY <1>1, <1>2, <1>4 DEF BalanceInv, InMemory
  <1>10. ~tied' /\ ~half' => InMemory'
    BY <1>1, <1>2, <1>5, <1>8, <1>9 DEF InMemory
  <1>11. QED
    BY <1>1, <1>2, <1>10 DEF BalanceInv

LEMMA SaveKeepsBalance ==
    ASSUME Typed, BalanceInv, SaveAfterBet \/ SaveAfterSettle
    PROVE  BalanceInv'
  <1>1. /\ pc' \in {"asleep", "pass"} /\ pc \in {"saveBet", "saveSettle"}
        /\ UNCHANGED <<pending, trades, bankroll, tied, half, base, oracle>>
        /\ state'.bankroll = bankroll
    BY DEF SaveAfterBet, SaveAfterSettle, Save, market, memory, ghosts
  <1>2. DiskBalance' = DiskBalance
    BY <1>1, DiskFrame
  <1>3. pc \in Running /\ pc \notin {"announce", "row"}
    BY <1>1 DEF Running
  <1>4. ~tied /\ ~half => bankroll = DiskBalance
    BY <1>3 DEF BalanceInv, InMemory
  <1>5. ~tied' /\ ~half' => InMemory'
    BY <1>1, <1>2, <1>4 DEF InMemory
  <1>6. QED
    BY <1>1, <1>5 DEF BalanceInv

\* A process that dies leaves the bankroll of its last save, or the record in hand; that
\* the two are of one second is what tied stands for.
LEMMA CrashFinds ==
    ASSUME Typed, OrderInv, InMemory, pc \in Running, ~(Unsaved /\ hand.ts = state.ts)
    PROVE  Saved \/ Ahead
  <1> DEFINE p == Len(pending)
             u == Len(trades)
  <1>0. /\ p \in Nat /\ u \in Nat /\ DOMAIN Logs = 1 .. p + u
        /\ \A i \in 1 .. p : Logs[i] = pending[i]
        /\ \A i \in 1 .. u : Logs[p + i] = trades[i]
        /\ \A i \in DOMAIN Logs : i \in 1 .. p \/ \E j \in 1 .. u : i = p + j
        /\ \A i \in DOMAIN Logs : Logs[i].ts \in Nat
    BY LogsTyped DEF Records
  <1>1. state.ts \in Nat /\ sec \in Nat /\ state.ts <= sec
    BY DEF Typed, States, OrderInv
  <1>2. \A n, t : /\ UpTo(pending, n, t) <=> \A i \in 1 .. n : pending[i].ts <= t
                  /\ UpTo(trades, n, t) <=> \A i \in 1 .. n : trades[i].ts <= t
    BY DEF UpTo
  <1>3. LastOf(pending) = pending[p] /\ LastOf(trades) = trades[u]
    BY DEF LastOf
  <1>4. /\ pc \in Running \ {"saveBet"} => UpTo(pending, p, state.ts)
        /\ pc \in Running \ {"mark", "saveSettle"} => UpTo(trades, u, state.ts)
        /\ pc = "saveBet" => p > 0 /\ UpTo(pending, p - 1, state.ts) /\ LastOf(pending).ts = sec
        /\ pc \in {"mark", "saveSettle"} =>
              u > 0 /\ UpTo(trades, u - 1, state.ts) /\ LastOf(trades).ts = sec
    BY DEF OrderInv
  <1> HIDE DEF p, u
  <1>5. CASE pc \notin {"saveBet", "mark", "saveSettle"}
    <2>1. state.source # "none" /\ state.bankroll = DiskBalance
      BY <1>5 DEF OrderInv, InMemory
    <2>2. \A i \in DOMAIN Logs : Logs[i].ts <= state.ts
      BY <1>0, <1>2, <1>4, <1>5
    <2>3. QED
      BY <2>1, <2>2 DEF Saved
  <1>6. CASE pc \in {"saveBet", "mark", "saveSettle"}
    <2>1. sec > state.ts
      <3>1. hand.ts = sec
        BY <1>6 DEF OrderInv, Settling
      <3>2. sec # state.ts
        BY <1>6, <3>1 DEF Unsaved
      <3>3. QED
        BY <1>1, <3>2
    <2>2. PICK i \in DOMAIN Logs :
             /\ Logs[i].ts = sec /\ Logs[i].after = bankroll
             /\ \A j \in DOMAIN Logs : j # i => Logs[j].ts <= state.ts
      <3>1. CASE pc = "saveBet"
        <4>1. p \in DOMAIN Logs /\ p \in 1 .. p /\ Logs[p] = pending[p]
          BY <1>0, <1>4, <3>1
        <4>2. Logs[p].ts = sec /\ Logs[p].after = bankroll
          BY <1>3, <1>4, <3>1, <4>1 DEF InMemory
        <4>3. \A j \in 1 .. p : j # p => j \in 1 .. p - 1
          BY <1>0
        <4>4. \A j \in 1 .. p - 1 : pending[j].ts <= state.ts
          BY <1>2, <1>4, <3>1
        <4>5. \A j \in 1 .. u : trades[j].ts <= state.ts
          BY <1>2, <1>4, <3>1
        <4>6. \A j \in 1 .. u : Logs[p + j].ts <= state.ts
          BY <1>0, <4>5
        <4>7. \A j \in 1 .. p : j # p => Logs[j].ts <= state.ts
          BY <1>0, <4>3, <4>4
        <4>8. \A j \in DOMAIN Logs : j # p => Logs[j].ts <= state.ts
          BY <1>0, <4>6, <4>7
        <4>9. QED
          BY <4>1, <4>2, <4>8
      <3>2. CASE pc \in {"mark", "saveSettle"}
        <4>1. p + u \in DOMAIN Logs /\ u \in 1 .. u /\ Logs[p + u] = trades[u]
          BY <1>0, <1>4, <3>2
        <4>2. Logs[p + u].ts = sec /\ Logs[p + u].after = bankroll
          BY <1>3, <1>4, <3>2, <4>1 DEF InMemory
        <4>3. \A j \in 1 .. u : p + j # p + u => j \in 1 .. u - 1
          BY <1>0
        <4>4. \A j \in 1 .. u - 1 : trades[j].ts <= state.ts
          BY <1>2, <1>4, <3>2
        <4>5. \A j \in 1 .. p : pending[j].ts <= state.ts
          BY <1>2, <1>4, <3>2
        <4>6. \A j \in 1 .. u : p + j # p + u => Logs[p + j].ts <= state.ts
          BY <1>0, <4>3, <4>4
        <4>7. \A j \in 1 .. p : Logs[j].ts <= state.ts
          BY <1>0, <4>5
        <4>8. \A j \in DOMAIN Logs : j # p + u => Logs[j].ts <= state.ts
          BY <1>0, <4>6, <4>7
        <4>9. QED
          BY <4>1, <4>2, <4>8
      <3>3. QED
        BY <1>6, <3>1, <3>2
    <2>3. \A j \in DOMAIN Logs : j # i => Logs[j].ts < Logs[i].ts
      <3> TAKE j \in DOMAIN Logs
      <3> HAVE j # i
      <3> DEFINE x == Logs[j].ts
      <3>1. x \in Nat /\ x <= state.ts
        BY <1>0, <2>2
      <3> HIDE DEF x
      <3>2. x < sec
        BY <1>1, <2>1, <3>1
      <3>3. QED
        BY <2>2, <3>2 DEF x
    <2>4. bankroll = DiskBalance
      BY <1>6 DEF InMemory
    <2>5. QED
      BY <2>1, <2>2, <2>3, <2>4 DEF Ahead
  <1>7. QED
    BY <1>5, <1>6

LEMMA StopKeepsBalance ==
    ASSUME Typed, OrderInv, BalanceInv, Crash \/ DuplicateBet
    PROVE  BalanceInv'
  <1>0. ~tied' => ~tied /\ ~(Unsaved /\ hand.ts = state.ts)
    <2>1. CASE Crash
      <3>1. tied' = (tied \/ (Unsaved /\ hand.ts = state.ts))
        BY <2>1 DEF Crash
      <3>2. QED
        BY ONLY <3>1
    <2>2. CASE DuplicateBet
      <3>1. tied' = tied /\ ~Unsaved
        BY <2>2 DEF DuplicateBet, Unsaved, ghosts
      <3>2. QED
        BY <3>1
    <2>3. QED
      BY <2>1, <2>2
  <1>1. pc' = "down" /\ pc # "down" /\ UNCHANGED <<pending, trades, state, base, oracle, half>>
    BY DEF Crash, DuplicateBet, files, market, ghosts
  <1>2. pc' \notin Running /\ pc \in Running \cup {"archive"}
    BY <1>1 DEF Running, Settling, Typed
  <1>3. DiskBalance' = DiskBalance /\ Logs' = Logs
    BY <1>1, DiskFrame DEF Logs
  <1>4. (Saved' <=> Saved) /\ (Ahead' <=> Ahead)
    <2>1. Saved' <=> Saved
      BY <1>1, <1>3 DEF Saved
    <2>2. Ahead' <=> Ahead
      BY <1>1, <1>3 DEF Ahead
    <2>3. QED
      BY <2>1, <2>2
  <1>5. ~tied' /\ ~half' => Saved \/ Ahead
    <2> SUFFICES ASSUME ~tied', ~half' PROVE Saved \/ Ahead
      OBVIOUS
    <2>1. ~tied /\ ~half /\ ~(Unsaved /\ hand.ts = state.ts)
      BY <1>0, <1>1
    <2>2. pc \in Running
      BY <1>2, <2>1 DEF BalanceInv
    <2>3. InMemory
      BY <2>1, <2>2 DEF BalanceInv
    <2>4. QED
      BY <2>1, <2>2, <2>3, CrashFinds
  <1>6. QED
    BY <1>1, <1>2, <1>4, <1>5 DEF BalanceInv

\* What a start resolves to is what the logs say, be it the saved bankroll or the log's.
LEMMA StartFinds ==
    ASSUME Typed, OrderInv, Saved \/ Ahead \/ Untouched, NEW init,
           Resolve(init).source # "configured_init" \/ Logs # <<>>
    PROVE  Resolve(init).bankroll = DiskBalance
  <1>1. \A i \in DOMAIN Logs : Logs[i].ts \in Nat
    BY LogsTyped DEF Records
  <1>2. state.ts \in Nat
    BY DEF Typed, States
  <1>3. CASE Logs = <<>>
    <2>1. Recovered = NoState
      BY <1>3, RecoveredIsLatest
    <2>2. Resolve(init) = state /\ state # NoState
      BY <1>3, <2>1, ResolveCases DEF Save
    <2>3. DOMAIN Logs = {}
      BY <1>3
    <2>4. ~Ahead /\ ~Untouched
      BY <2>2, <2>3 DEF Ahead, Untouched
    <2>5. QED
      BY <2>2, <2>4 DEF Saved
  <1>4. CASE Logs # <<>>
    <2>1. PICK k \in DOMAIN Logs :
             /\ \A j \in DOMAIN Logs : Logs[j].ts <= Logs[k].ts
             /\ Recovered = Save(Logs[k].after, Logs[k].ts, "recovered")
      BY <1>4, RecoveredIsLatest
    <2>2. /\ Recovered.ts = Logs[k].ts /\ Recovered.bankroll = Logs[k].after
          /\ Recovered # NoState
      BY <2>1 DEF Save, NoState
    <2>3. \/ Resolve(init) = state /\ state # NoState /\ state.ts >= Logs[k].ts
          \/ Resolve(init) = Recovered /\ ~(state # NoState /\ state.ts >= Logs[k].ts)
      BY <2>2, ResolveCases
    <2>4. CASE Resolve(init) = state /\ state # NoState /\ state.ts >= Logs[k].ts
      <3>1. ~Ahead
        <4> SUFFICES ASSUME NEW i \in DOMAIN Logs, Logs[i].ts > state.ts PROVE FALSE
          BY DEF Ahead
        <4> DEFINE x == Logs[i].ts
                   y == Logs[k].ts
        <4>1. x \in Nat /\ y \in Nat /\ x > state.ts /\ state.ts >= y /\ x <= y
          BY <1>1, <2>1, <2>4
        <4> HIDE DEF x, y
        <4>2. QED
          BY <1>2, <4>1
      <3>2. QED
        BY <2>4, <3>1 DEF Saved, Untouched
    <2>5. CASE Resolve(init) = Recovered /\ ~(state # NoState /\ state.ts >= Logs[k].ts)
      <3>1. ~Saved
        <4>1. state.source # "none" => state # NoState
          BY DEF NoState
        <4>2. Logs[k].ts <= state.ts => state.ts >= Logs[k].ts
          BY <1>1, <1>2, <2>1
        <4>3. QED
          BY <2>1, <2>5, <4>1, <4>2 DEF Saved
      <3>2. Ahead
        BY <1>4, <3>1 DEF Untouched
      <3>3. PICK i \in DOMAIN Logs :
               /\ Logs[i].after = DiskBalance
               /\ \A j \in DOMAIN Logs : j # i => Logs[j].ts < Logs[i].ts
        BY <3>2 DEF Ahead
      <3>4. k = i
        <4> SUFFICES ASSUME k # i PROVE FALSE
          OBVIOUS
        <4> DEFINE x == Logs[i].ts
                   y == Logs[k].ts
        <4>1. x \in Nat /\ y \in Nat /\ y < x /\ x <= y
          BY <1>1, <2>1, <3>3
        <4> HIDE DEF x, y
        <4>2. QED
          BY <4>1
      <3>5. QED
        BY <2>2, <2>5, <3>3, <3>4
    <2>6. QED
      BY <2>3, <2>4, <2>5
  <1>5. QED
    BY <1>3, <1>4

\* Only an account without records begins with what is configured.
LEMMA NewAccount ==
    ASSUME Typed, OrderInv, NEW init, Resolve(init).source = "configured_init"
    PROVE  pending = <<>> /\ trades = <<>> /\ Resolve(init).bankroll = init
  <1>1. CASE Logs = <<>>
    <2>1. Recovered = NoState
      BY <1>1, RecoveredIsLatest
    <2>2. Resolve(init) = Save(init, sec, "configured_init")
      <3>1. Resolve(init) = state => state.source = "configured_init"
        OBVIOUS
      <3>2. QED
        BY <2>1, <3>1, ResolveCases
    <2>3. Resolve(init).bankroll = init
      BY <2>2 DEF Save
    <2>4. QED
      BY <1>1, <2>3, LogsEmpty
  <1>2. CASE Logs # <<>>
    <2>1. PICK k \in DOMAIN Logs : Recovered = Save(Logs[k].after, Logs[k].ts, "recovered")
      BY <1>2, RecoveredIsLatest
    <2>2. Recovered.ts = Logs[k].ts /\ Recovered.source = "recovered" /\ Recovered # NoState
      BY <2>1 DEF Save, NoState
    <2>3. Resolve(init) = state /\ state.ts >= Logs[k].ts
      BY <2>2, ResolveCases
    <2>4. Logs[k].ts > state.ts
      <3>1. \/ k \in 1 .. Len(pending) /\ Logs[k] = pending[k]
            \/ \E j \in 1 .. Len(trades) : Logs[k] = trades[j]
        BY LogsTyped
      <3>2. After(pending, state.ts) /\ After(trades, state.ts)
        BY <2>3 DEF OrderInv
      <3>3. QED
        BY <3>1, <3>2 DEF After
    <2>5. Logs[k].ts \in Nat /\ state.ts \in Nat
      BY LogsTyped DEF Records, Typed, States
    <2>6. QED
      BY <2>3, <2>4, <2>5
  <1>3. QED
    BY <1>1, <1>2

LEMMA StartKeepsBalance ==
    ASSUME Typed, OrderInv, BalanceInv, InitRuntimeState
    PROVE  BalanceInv'
  <1>1. PICK init \in Inits :
           /\ state' = Resolve(init)
           /\ IF state'.source = "configured_init"
              THEN base' = init /\ half' = FALSE
              ELSE UNCHANGED <<base, half>>
    BY DEF InitRuntimeState
  <1>2. /\ pc = "down" /\ pc' = "pass" /\ UNCHANGED <<pending, trades, oracle, tied>>
        /\ bankroll' = state'.bankroll
    BY DEF InitRuntimeState, market
  <1>3. ~tied' /\ ~half' => state'.bankroll = DiskBalance'
    <2>1. CASE state'.source = "configured_init"
      <3>1. pending = <<>> /\ trades = <<>> /\ state'.bankroll = init /\ base' = init
        BY <1>1, <2>1, NewAccount
      <3>2. EpochsIn(pending') = {} /\ EpochsIn(trades') = {}
        BY <1>2, <3>1, NoEpochs
      <3>3. Debits({}) = 0
        BY FS_EmptySet, Constants DEF Debits
      <3>4. Credits({})' = 0
        <4>1. {e \in {} : oracle'[e] = "won"} = {} /\ {e \in {} : oracle'[e] = "open"} = {}
          OBVIOUS
        <4>2. QED
          BY <4>1, FS_EmptySet, Constants DEF Credits
      <3>5. Debits(EpochsIn(pending))' = 0 /\ Credits(EpochsIn(trades))' = 0
        BY <3>2, <3>3, <3>4 DEF Debits, Credits
      <3>6. init \in Nat
        BY Constants
      <3>7. DiskBalance' = init
        BY <3>1, <3>5, <3>6 DEF DiskBalance
      <3>8. QED
        BY <3>1, <3>7
    <2>2. CASE state'.source # "configured_init"
      <3>1. DiskBalance' = DiskBalance
        BY <1>1, <1>2, <2>2, DiskFrame
      <3>2. ~tied' /\ ~half' => Saved \/ Ahead \/ Untouched
        BY <1>1, <1>2, <2>2 DEF BalanceInv
      <3>3. QED
        BY <1>1, <2>2, <3>1, <3>2, StartFinds
    <2>3. QED
      BY <2>1, <2>2
  <1>4. ~tied' /\ ~half' => InMemory'
    BY <1>2, <1>3 DEF InMemory
  <1>5. QED
    BY <1>2, <1>4 DEF BalanceInv

LEMMA StepKeepsBalance ==
    ASSUME Typed, PastInv, FileInv, OrderInv, BalanceInv, Next
    PROVE  BalanceInv'
  <1>1. CASE FreshStart \/ Archive
    <2>1. half' /\ pc' \in {"archive", "down"}
      BY <1>1 DEF FreshStart, Archive, BalanceInv, ghosts
    <2>2. QED
      BY <2>1 DEF BalanceInv
  <1>2. QED
    BY <1>1, QuietKeepsBalance, BetKeepsBalance, CreditKeepsBalance, TradeKeepsBalance,
       SaveKeepsBalance, StopKeepsBalance, StartKeepsBalance DEF Next

\* Every simulated bet is debited once and credited once, whatever crash came between the
\* writes of a bet or a settlement and however many there were: what is in memory at rest
\* is what the account began with, less the bets on file, plus what they brought.
THEOREM BankrollSound == Spec => []BankrollAddsUp
  <1>1. Typed /\ PastInv /\ FileInv /\ OrderInv /\ BalanceInv /\ [Next]_vars => BalanceInv'
    <2> SUFFICES ASSUME Typed, PastInv, FileInv, OrderInv, BalanceInv, [Next]_vars
                 PROVE  BalanceInv'
      OBVIOUS
    <2>1. CASE UNCHANGED vars
      <3>1. UNCHANGED <<bankroll, state, tied, half, pending, trades, pc, hand, base, oracle>>
        BY <2>1 DEF vars, market, files, memory, ghosts
      <3>2. DiskBalance' = DiskBalance /\ CreditOf(hand.epoch)' = CreditOf(hand.epoch)
        BY <3>1, DiskFrame DEF CreditOf
      <3>3. QED
        BY <3>1, <3>2, BalanceFrame
    <2>2. QED
      BY <2>1, StepKeepsBalance
  <1>2. FileInv /\ BalanceInv => BankrollAddsUp
    <2> SUFFICES ASSUME FileInv, BalanceInv, AtRest, ~tied, ~half PROVE bankroll = Accounted
      BY DEF BankrollAddsUp
    <2>1. pc \in Running \ {"mark"} /\ pc \notin {"announce", "row"}
      BY DEF AtRest, Running
    <2>2. bets = EpochsIn(pending) /\ settled = EpochsIn(trades)
      BY <2>1 DEF FileInv
    <2>3. bankroll = DiskBalance
      BY <2>1 DEF BalanceInv, InMemory
    <2>4. QED
      BY <2>2, <2>3 DEF Accounted, DiskBalance, Debits
  <1>3. QED
    BY InitBalanced, TypesKept, FilesKept, OrderKept, <1>1, <1>2, PTL DEF Spec
=============================================================================
