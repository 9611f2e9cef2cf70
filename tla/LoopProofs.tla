------------------------------- MODULE LoopProofs -------------------------------
(******************************************************************************)
(* The round loop, for every interval, delay and bound: its variables keep    *)
(* their types, a bet is sent for the open round and with the chain's next    *)
(* nonce, the operator's last word is the true one, and, when the passes fit  *)
(* into a round, no round goes by without its wakes.                          *)
(******************************************************************************)
EXTENDS RoundLoop, FiniteSetTheorems, SequenceTheorems, WellFoundedInduction, TLAPS

\* Where the thread is: on its way to the wakes of the round in view, in them,
\* or past them.
Ahead  == {"firstScan", "firstWait", "arranged", "flush", "post", "ladder"}
Inside == {"gate", "decide", "send", "receipt"}
Behind == {"asleep", "realign", "claim", "claimWait", "pace", "top", "align"}

LEMMA LoopConstants ==
    ASSUME LoopAssumption, AlarmAssumption
    PROVE  /\ Interval \in Nat /\ Interval > 0 /\ ClaimDelay \in Nat /\ ClaimDelay > 0
           /\ Attempts \in Nat /\ Attempts > 0
           /\ Ladder \in Nat /\ Slack \in Nat /\ Floor \in Nat /\ PostTime \in Nat
           /\ FetchTime \in Nat /\ ReceiptTime \in Nat /\ ClaimTime \in Nat
           /\ RollDelay \in Nat /\ RetryDelay \in Nat /\ OtherAlarms \in Nat
           /\ MaxFaults \in Nat /\ MaxTime \in Nat /\ 2 * Interval <= MaxTime
           /\ Threshold \in Nat /\ Threshold > 0 /\ Realert \in Nat
  BY DEF LoopAssumption, AlarmAssumption

\* A moment is put off to now when it has passed.
LEMMA LaterIsLatest ==
    ASSUME now \in Nat
    PROVE  \A t \in Int : Later(t) = IF t > now THEN t ELSE now
  <1> SUFFICES ASSUME NEW t \in Int
               PROVE  Later(t) = IF t > now THEN t ELSE now
    OBVIOUS
  <1> DEFINE top == IF t > now THEN t ELSE now
  <1>1. top \in {now, t} /\ \A y \in {now, t} : top >= y
    OBVIOUS
  <1>2. \A x \in {now, t} : (\A y \in {now, t} : x >= y) => x = top
    OBVIOUS
  <1> HIDE DEF top
  <1>3. Max({now, t}) = top
    BY <1>1, <1>2 DEF Max
  <1>4. QED
    BY <1>3 DEF Later, top

\* A sleep or a call ends now or later.
LEMMA GoToIsLater ==
    ASSUME now \in Nat, NEW p, NEW t \in Int, GoTo(p, t)
    PROVE  pc' = p /\ until' \in Nat /\ until' = IF t > now THEN t ELSE now
  BY LaterIsLatest DEF GoTo

LEMMA AtIsNow ==
    ASSUME now \in Nat, NEW p, At(p)
    PROVE  pc' = p /\ until' = now
  BY LaterIsLatest DEF At, GoTo

-----------------------------------------------------------------------------
(* The alarm.                                                              *)

LEMMA RecordTyped ==
    ASSUME NEW E, NEW T, NEW a \in Alarms(E, T),
           NEW ready \in BOOLEAN, NEW e \in E, NEW t \in T
    PROVE  Record(a, ready, e, t) \in Alarms(E, T)
  <1>1. RecordReady(a) \in Alarms(E, T)
    BY DEF RecordReady, Alarms
  <1>2. RecordBlocked(a, e, t) \in Alarms(E, T)
    <2> DEFINE b == [a EXCEPT !.lastSeen = e, !.streak = @ + 1]
               c == [b EXCEPT !.alerting = TRUE, !.lastAlert = t]
    <2>1. b \in Alarms(E, T)
      <3>1. a.streak + 1 \in Nat
        BY DEF Alarms
      <3>2. QED
        BY <3>1 DEF Alarms
    <2>2. RecordBlocked(a, e, t) \in {a, b, c}
      BY DEF RecordBlocked
    <2> HIDE DEF b
    <2>3. c \in Alarms(E, T)
      BY <2>1 DEF Alarms
    <2> HIDE DEF c
    <2>4. QED
      BY <2>1, <2>2, <2>3
  <1>3. QED
    BY <1>1, <1>2 DEF Record

-----------------------------------------------------------------------------
(* Types.                                                                  *)

Words == {"blocked", "recovered", "other"}

\* The chain and the nonce that is cached.
ChainTyped ==
    /\ now \in Nat /\ now <= MaxTime
    /\ lock \in Seq(Nat) /\ Len(lock) >= 3
    /\ mined \in Nat /\ mempool \subseteq Nat
    /\ nonce \in Int /\ nonce >= -1

\* The thread: where it goes to the wakes of a round, that round exists, and a
\* handshake under way has an attempt left.
ThreadTyped ==
    /\ pc \in Places /\ until \in Nat
    /\ try \in Nat /\ try <= Attempts
    /\ pc \in {"align", "realign"} => try < Attempts
    /\ view \in Nat /\ view <= Len(lock)
    /\ pc \in Ahead \cup Inside => view >= 2
    /\ iterStart \in Nat /\ iterStart <= now
    /\ scanned \in BOOLEAN
    /\ visited \subseteq 1 .. Len(lock)

\* The alarm and what is said of it.
AlertsTyped ==
    /\ alarm \in Alarms(1 .. Len(lock), 0 .. MaxTime)
    /\ queue \in Seq(Words)
    /\ told \in BOOLEAN /\ run \in Nat

FaultsTyped == faults \in Nat /\ faults <= MaxFaults

TypeInv ==
    /\ ChainTyped /\ FaultsTyped /\ IsFiniteSet(mempool) /\ ThreadTyped /\ AlertsTyped
    /\ pc = "post" => queue # <<>>

LEMMA TypeInvIsTyped ==
    ASSUME LoopAssumption, AlarmAssumption, TypeInv
    PROVE  TypeOK
  <1>1. /\ now \in 0 .. MaxTime /\ faults \in 0 .. MaxFaults /\ try \in 0 .. Attempts
        /\ view \in 0 .. Tip /\ iterStart \in 0 .. now
    BY LoopConstants DEF TypeInv, ChainTyped, FaultsTyped, ThreadTyped, Tip
  <1>2. nonce \in Nat \cup {None}
    BY DEF TypeInv, ChainTyped, ThreadTyped, None
  <1>3. QED
    BY <1>1, <1>2, Zenon
    DEF TypeInv, ChainTyped, ThreadTyped, AlertsTyped, TypeOK, Tip, Words

\* What an accepted or a failed send does to the chain.
LEMMA SendTyped ==
    ASSUME ChainTyped, Accepted \/ SendFails, now' = now, lock' = lock
    PROVE  ChainTyped'
  <1>1. ~Rejected => nonce \in Nat
    <2>1. ~Rejected => ~(nonce < mined)
      BY DEF Rejected
    <2>2. nonce \in Int /\ mined \in Nat
      BY DEF ChainTyped
    <2>3. QED
      BY <2>1, <2>2
  <1>2. CASE Accepted
    BY <1>1, <1>2 DEF Accepted, Sent, ChainTyped
  <1>3. CASE SendFails
    <2>1. mempool' \subseteq Nat
      BY <1>1, <1>3 DEF SendFails, ChainTyped
    <2>2. mined' = mined /\ nonce' = -1
      BY <1>3 DEF SendFails, None
    <2>3. QED
      BY <2>1, <2>2 DEF ChainTyped
  <1>4. QED
    BY <1>2, <1>3

\* A set of numbers has a least member.
LEMMA LeastOfNumbers ==
    ASSUME NEW S \in SUBSET Nat, S # {}
    PROVE  Min(S) \in S /\ \A x \in S : Min(S) <= x
  <1>1. PICK least \in S : \A y \in S : ~(<<y, least>> \in OpToRel(<, Nat))
    BY NatLessThanWellFounded, WFMin
  <1>2. \A y \in S : ~(y < least)
    BY <1>1, Zenon DEF OpToRel
  <1>3. \A y \in S : least <= y
    BY <1>2
  <1>4. QED
    BY <1>3 DEF Min

\* The least nonce that is not taken exists.
LEMMA PendingIsFree ==
    ASSUME ChainTyped, IsFiniteSet(mempool)
    PROVE  Pending \in Nat
  <1> DEFINE all == mined .. mined + Cardinality(mempool)
             free == {n \in all : n \notin mempool}
  <1>1. Cardinality(mempool) \in Nat /\ mined \in Nat
    BY FS_CardinalityType DEF ChainTyped
  <1>2. IsFiniteSet(all) /\ Cardinality(all) = Cardinality(mempool) + 1
    BY <1>1, FS_Interval
  <1>3. free # {}
    <2> SUFFICES ASSUME free = {}
                 PROVE  FALSE
      OBVIOUS
    <2>1. all \subseteq mempool
      OBVIOUS
    <2>2. Cardinality(all) <= Cardinality(mempool)
      BY <2>1, FS_Subset DEF ChainTyped
    <2>3. QED
      BY <1>1, <1>2, <2>2
  <1>4. free \in SUBSET Nat
    BY <1>1
  <1>5. Min(free) \in free
    BY <1>3, <1>4, LeastOfNumbers
  <1>6. QED
    BY <1>4, <1>5 DEF Pending

\* The mempool stays finite.
LEMMA MempoolIsFinite ==
    ASSUME IsFiniteSet(mempool), [Next]_vars
    PROVE  IsFiniteSet(mempool')
  <1>1. \/ mempool' = mempool
        \/ \E n : mempool' = mempool \ {n}
        \/ \E n : mempool' = mempool \cup {n}
    BY DEF Next, vars, chain, Tick, Roll, Mine, Evict, Handshake, HandshakeFails,
           ClaimNothing, Claim, ClaimAnswered, ClaimFirst, Flush, Post, Preflight, PoolGate,
           Decide, Send, BetAnswered, Wake, Pace, StartIteration, Crash, Boot,
           Accepted, SendFails
  <1>2. QED
    BY <1>1, FS_AddElement, FS_RemoveElement

\* A fault is counted, and there are only so many of them.
LEMMA FaultsAreCounted ==
    ASSUME [Next]_vars
    PROVE  \/ faults' = faults
           \/ faults < MaxFaults /\ faults' = faults + 1
           \/ pc \in {"align", "realign"} /\ faults' = faults + 0
  <1>1. CASE Handshake
    <2>1. PICK stale \in {0, 1} :
            /\ pc \in {"align", "realign"}
            /\ stale = 1 => faults < MaxFaults
            /\ faults' = faults + stale
      BY <1>1 DEF Handshake
    <2>2. QED
      BY <2>1
  <1>2. CASE Next /\ ~Handshake
    BY <1>2 DEF Next, Tick, Roll, Mine, Evict, HandshakeFails,
           ClaimNothing, Claim, ClaimAnswered, ClaimFirst, Flush, Post, Preflight, PoolGate,
           Decide, Send, BetAnswered, Wake, Pace, StartIteration, Crash, Boot,
           Accepted, SendFails, Fault
  <1>3. CASE UNCHANGED vars
    BY <1>3 DEF vars
  <1>4. QED
    BY <1>1, <1>2, <1>3

LEMMA StepKeepsFaults ==
    ASSUME LoopAssumption, AlarmAssumption, FaultsTyped, [Next]_vars
    PROVE  FaultsTyped' /\ faults <= faults'
  <1>1. MaxFaults \in Nat
    BY LoopConstants
  <1>2. faults \in Nat /\ faults <= MaxFaults
    BY DEF FaultsTyped
  <1>3. \/ faults' = faults
        \/ faults < MaxFaults /\ faults' = faults + 1
        \/ faults' = faults + 0
    BY FaultsAreCounted
  <1>4. QED
    BY <1>1, <1>2, <1>3 DEF FaultsTyped

LEMMA StepKeepsChain ==
    ASSUME LoopAssumption, AlarmAssumption, ChainTyped, IsFiniteSet(mempool), [Next]_vars
    PROVE  ChainTyped'
  <1>c. MaxTime \in Nat /\ Interval \in Nat
    BY LoopConstants
  <1>1. CASE Tick
    BY <1>1, <1>c DEF Tick, chain, ChainTyped
  <1>2. CASE Roll
    <2>1. lock' = Append(lock, now + Interval) /\ now + Interval \in Nat
      BY <1>2, <1>c DEF Roll, ChainTyped
    <2>2. lock \in Seq(Nat) /\ Len(lock) >= 3
      BY DEF ChainTyped
    <2>3. lock' \in Seq(Nat) /\ Len(lock') >= 3
      BY <2>1, <2>2
    <2>4. QED
      BY <1>2, <2>3 DEF Roll, ChainTyped
  <1>3. CASE Mine \/ Evict
    <2>1. mempool' \subseteq mempool /\ mined' \in {mined, mined + 1}
      BY <1>3 DEF Mine, Evict
    <2>2. now' = now /\ lock' = lock /\ nonce' = nonce
      BY <1>3 DEF Mine, Evict
    <2>3. mined \in Nat /\ mempool \subseteq Nat
      BY DEF ChainTyped
    <2>4. mined' \in Nat /\ mempool' \subseteq Nat
      BY <2>1, <2>3
    <2>5. QED
      BY <2>2, <2>4 DEF ChainTyped
  <1>4. CASE Handshake \/ HandshakeFails \/ Crash
    BY <1>4 DEF Handshake, HandshakeFails, Crash, chain, ChainTyped
  <1>5. CASE Claim
    <2>1. CASE Accepted \/ SendFails
      BY <1>5, <2>1, SendTyped DEF Claim
    <2>2. QED
      BY <1>5, <2>1 DEF Claim
  <1>6. CASE Send
    <2>1. CASE Accepted \/ SendFails
      BY <1>6, <2>1, SendTyped DEF Send
    <2>2. QED
      BY <1>6, <2>1 DEF Send
  <1>7. CASE Preflight
    <2>1. Pending \in Nat /\ mined \in Nat
      BY PendingIsFree DEF ChainTyped
    <2>2. Fetched \subseteq Nat
      BY <2>1 DEF Fetched
    <2>3. nonce' = nonce \/ nonce' \in Fetched
      BY <1>7 DEF Preflight
    <2>4. nonce' \in Int /\ nonce' >= -1
      <3>1. CASE nonce' = nonce
        BY <3>1 DEF ChainTyped
      <3>2. CASE nonce' \in Fetched
        BY <2>2, <3>2
      <3>3. QED
        BY <2>3, <3>1, <3>2
    <2>5. QED
      BY <1>7, <2>4 DEF Preflight, chain, ChainTyped
  <1>8. CASE Boot
    <2>1. Pending \in Nat
      BY PendingIsFree
    <2>2. QED
      BY <1>8, <2>1 DEF Boot, chain, ChainTyped
  <1>9. CASE ClaimNothing \/ ClaimAnswered \/ ClaimFirst \/ Flush \/ Post
    BY <1>9 DEF ClaimNothing, ClaimAnswered, ClaimFirst, Flush, Post, chain, ChainTyped
  <1>10. CASE PoolGate \/ Decide \/ BetAnswered \/ Wake \/ Pace \/ StartIteration
    BY <1>10 DEF PoolGate, Decide, BetAnswered, Wake, Pace, StartIteration, chain, ChainTyped
  <1>11. CASE UNCHANGED vars
    BY <1>11 DEF vars, chain, ChainTyped
  <1>12. QED
    BY <1>1, <1>2, <1>3, <1>4, <1>5, <1>6, <1>7, <1>8, <1>9, <1>10, <1>11 DEF Next

\* A round's lock is a number, as is the moment its claim is due.
LEMMA LocksAreTimes ==
    ASSUME LoopAssumption, AlarmAssumption, ChainTyped
    PROVE  /\ \A i \in 1 .. Len(lock) : lock[i] \in Nat
           /\ \A i \in 1 .. Len(lock) : ClaimTs(i - 1) = lock[i] + ClaimDelay
  <1>0. lock \in Seq(Nat)
    BY DEF ChainTyped
  <1>1. \A i \in 1 .. Len(lock) : lock[i] \in Nat
    BY <1>0, ElementOfSeq
  <1>2. Len(lock) \in Nat
    BY <1>0
  <1>3. \A i \in 1 .. Len(lock) : ClaimTs(i - 1) = lock[i] + ClaimDelay
    <2> SUFFICES ASSUME NEW i \in 1 .. Len(lock)
                 PROVE  ClaimTs(i - 1) = lock[i] + ClaimDelay
      OBVIOUS
    <2>1. i - 1 + 1 = i
      BY <1>2, SMTT(30)
    <2>2. QED
      BY <2>1 DEF ClaimTs
  <1>4. QED
    BY <1>1, <1>3

\* What SleepAndClaim waits for.
LEMMA SleepIsUntilClaim ==
    ASSUME LoopAssumption, AlarmAssumption, ChainTyped, view \in 1 .. Len(lock), SleepAndClaim
    PROVE  /\ pc' = "asleep" /\ until' \in Nat /\ until' >= now
           /\ until' = IF lock[view] + ClaimDelay > now THEN lock[view] + ClaimDelay ELSE now
  <1>1. GoTo("asleep", lock[view] + ClaimDelay)
    BY LocksAreTimes DEF SleepAndClaim
  <1>a. lock[view] \in Nat
    BY LocksAreTimes
  <1>b. ClaimDelay \in Nat
    BY LoopConstants
  <1>2. lock[view] + ClaimDelay \in Nat
    <2> DEFINE t == lock[view]
    <2> HIDE DEF t
    <2>1. t \in Nat
      BY <1>a DEF t
    <2>2. t + ClaimDelay \in Nat
      BY <1>b, <2>1
    <2>3. QED
      BY <2>2 DEF t
  <1>3. now \in Nat
    BY DEF ChainTyped
  <1>4. /\ pc' = "asleep" /\ until' \in Nat
        /\ until' = IF lock[view] + ClaimDelay > now THEN lock[view] + ClaimDelay ELSE now
    <2> DEFINE t == lock[view] + ClaimDelay
    <2>1. GoTo("asleep", t)
      BY <1>1
    <2>b. t \in Nat
      BY <1>2
    <2> HIDE DEF t
    <2>a. t \in Int
      BY <2>b
    <2>2. pc' = "asleep" /\ until' \in Nat /\ until' = IF t > now THEN t ELSE now
      BY <1>3, <2>1, <2>a, GoToIsLater
    <2>3. QED
      BY <2>2 DEF t
  <1>5. QED
    <2> DEFINE t == lock[view] + ClaimDelay
    <2>1. t \in Nat /\ now \in Nat /\ pc' = "asleep" /\ until' \in Nat
          /\ until' = IF t > now THEN t ELSE now
      BY <1>2, <1>3, <1>4
    <2> HIDE DEF t
    <2>2. until' >= now
      BY <2>1
    <2>3. QED
      BY <2>1, <2>2 DEF t

LEMMA AttemptTyped ==
    ASSUME LoopAssumption, AlarmAssumption, now \in Nat, try \in Nat, try < Attempts, NextAttempt
    PROVE  /\ try' \in Nat /\ try' <= Attempts /\ until' \in Nat
           /\ (pc' = pc /\ try' < Attempts) \/ pc' = "down"
           /\ until' >= now
  <1>1. Attempts \in Nat /\ RetryDelay \in Nat
    BY LoopConstants
  <1>2. CASE try' < Attempts
    <2>1. PICK d \in 0 .. RetryDelay : GoTo(pc, now + d)
      BY <1>2 DEF NextAttempt
    <2>2. now + d \in Int
      BY <1>1
    <2>3. pc' = pc /\ until' \in Nat /\ until' = IF now + d > now THEN now + d ELSE now
      BY <2>1, <2>2, GoToIsLater
    <2>4. until' >= now
      BY <1>1, <2>3
    <2>5. try' = try + 1
      BY DEF NextAttempt
    <2>6. QED
      BY <1>1, <1>2, <2>3, <2>4, <2>5
  <1>3. CASE ~(try' < Attempts)
    <2>1. At("down") /\ try' = try + 1
      BY <1>3 DEF NextAttempt
    <2>2. pc' = "down" /\ until' = now
      BY <2>1, AtIsNow
    <2>3. QED
      BY <1>1, <2>1, <2>2
  <1>4. QED
    BY <1>2, <1>3

LEMMA StepKeepsThread ==
    ASSUME LoopAssumption, AlarmAssumption, ChainTyped, ThreadTyped, [Next]_vars
    PROVE  ThreadTyped'
  <1>s. lock \in Seq(Nat)
    BY DEF ChainTyped
  <1>a. now \in Nat /\ Len(lock) \in Nat /\ Len(lock) >= 3
    <2>1. now \in Nat /\ Len(lock) >= 3
      BY DEF ChainTyped
    <2>2. Len(lock) \in Nat
      BY <1>s
    <2>3. QED
      BY <2>1, <2>2
  <1>b. /\ pc \in Places /\ until \in Nat /\ try \in Nat /\ try <= Attempts
        /\ pc \in {"align", "realign"} => try < Attempts
        /\ pc \in Ahead \cup Inside => view >= 2
        /\ scanned \in BOOLEAN
    BY DEF ThreadTyped
  <1>d. /\ view \in Nat /\ view <= Len(lock) /\ iterStart \in Nat /\ iterStart <= now
    BY DEF ThreadTyped
  <1>w. visited \subseteq 1 .. Len(lock)
    BY DEF ThreadTyped
  <1>e. Attempts \in Nat /\ Attempts > 0 /\ Floor \in Nat /\ PostTime \in Nat /\ ClaimTime \in Nat
        /\ ReceiptTime \in Nat /\ FetchTime \in Nat /\ Ladder \in Nat /\ ClaimDelay \in Nat
    BY LoopConstants
  <1>f. pc \in Ahead \cup Inside => view \in 1 .. Len(lock)
    BY <1>a, <1>b, <1>d
  <1>l. view \in 1 .. Len(lock) => lock[view] - Ladder \in Int
    <2> SUFFICES ASSUME view \in 1 .. Len(lock)
                 PROVE  lock[view] - Ladder \in Int
      OBVIOUS
    <2> DEFINE t == lock[view]
    <2>1. t \in Nat
      BY LocksAreTimes
    <2> HIDE DEF t
    <2>2. t - Ladder \in Int
      BY <1>e, <2>1
    <2>3. QED
      BY <2>2 DEF t
  <1>m. now \in Nat
    BY <1>a
  <1>i. iterStart \in Nat /\ iterStart <= now
    BY <1>d
  <1>1. CASE Tick
    <2>1. now' = now + 1
      BY <1>1 DEF Tick
    <2>2. iterStart' \in Nat /\ iterStart' <= now'
      <3>1. iterStart' = iterStart
        BY <1>1 DEF Tick
      <3>2. QED
        BY <1>m, <1>i, <2>1, <3>1
    <2>3. QED
      BY <1>1, <1>b, <1>d, <1>w, <2>2 DEF Tick, chain, ThreadTyped
  <1>2. CASE Roll
    <2>1. Len(lock') = Len(lock) + 1
      BY <1>2, <1>s DEF Roll
    <2>2. view' <= Len(lock') /\ visited' \subseteq 1 .. Len(lock')
      <3>1. view' = view /\ visited' = visited
        BY <1>2 DEF Roll
      <3>2. view <= Len(lock') /\ 1 .. Len(lock) \subseteq 1 .. Len(lock')
        <4> DEFINE n == Len(lock)
                   m == Len(lock')
        <4>1. n \in Nat /\ m = n + 1 /\ view \in Nat /\ view <= n
          BY <1>a, <1>d, <2>1
        <4> HIDE DEF n, m
        <4>2. view <= m /\ 1 .. n \subseteq 1 .. m
          BY <4>1
        <4>3. QED
          BY <4>2 DEF n, m
      <3>3. QED
        BY <1>w, <3>1, <3>2
    <2>3. QED
      BY <1>2, <1>b, <1>d, <1>w, <2>2 DEF Roll, ThreadTyped
  <1>3. CASE Mine \/ Evict
    BY <1>3 DEF Mine, Evict, ThreadTyped
  <1>n. ASSUME NextAttempt, pc \in {"align", "realign"}, UNCHANGED <<now, lock, view, iterStart, scanned, visited>>
        PROVE  ThreadTyped'
    <2>1. try < Attempts
      BY <1>b, <1>n
    <2>2. /\ try' \in Nat /\ try' <= Attempts /\ until' \in Nat
          /\ (pc' = pc /\ try' < Attempts) \/ pc' = "down"
      BY <1>a, <1>b, <1>n, <2>1, AttemptTyped
    <2>3. pc' \in Places /\ (pc' \in {"align", "realign"} => try' < Attempts)
          /\ ~(pc' \in Ahead \cup Inside)
      BY <1>b, <1>n, <2>2 DEF Places, Ahead, Inside
    <2>4. QED
      BY <1>b, <1>d, <1>w, <1>n, <2>2, <2>3 DEF ThreadTyped
  <1>4. CASE Handshake
    <2>1. PICK stale \in {0, 1} :
            LET e == Tip - stale
            IN  IF e \in Open
                THEN /\ try' = 0
                     /\ CASE pc = "align" /\ ~scanned -> At("firstScan") /\ view' = e
                          [] pc = "align" /\ scanned  -> At("arranged") /\ view' = e
                          [] OTHER -> At("claim") /\ UNCHANGED view
                ELSE NextAttempt /\ UNCHANGED view
      BY <1>4 DEF Handshake
    <2>2. /\ pc \in {"align", "realign"}
          /\ UNCHANGED <<now, lock, iterStart, scanned, visited>>
      BY <1>4 DEF Handshake, chain
    <2> DEFINE e == Tip - stale
    <2>3. e \in Nat /\ e >= 2 /\ e <= Len(lock)
      <3> DEFINE n == Len(lock)
      <3>1. e = n - stale /\ n \in Nat /\ n >= 3
        BY <1>a DEF Tip
      <3> HIDE DEF e, n
      <3>2. e \in Nat /\ e >= 2 /\ e <= n
        BY <2>1, <3>1
      <3>3. QED
        BY <3>2 DEF n
    <2> HIDE DEF e
    <2>4. CASE e \in Open
      <3>1. try' = 0
        BY <2>1, <2>4 DEF e
      <3>2. \/ At("firstScan") /\ view' = e
            \/ At("arranged") /\ view' = e
            \/ At("claim") /\ view' = view
        BY <1>b, <2>1, <2>2, <2>4 DEF e
      <3>3. /\ until' \in Nat
            /\ \/ pc' = "firstScan" /\ view' = e
               \/ pc' = "arranged" /\ view' = e
               \/ pc' = "claim" /\ view' = view
        BY <1>a, <3>2, AtIsNow
      <3>4. pc' \in Places /\ pc' \notin {"align", "realign"}
        BY <3>3 DEF Places
      <3>5. view' \in Nat /\ view' <= Len(lock) /\ (pc' \in Ahead \cup Inside => view' >= 2)
        BY <1>d, <2>3, <3>3 DEF Ahead, Inside
      <3>6. try' \in Nat /\ try' <= Attempts
        BY <1>e, <3>1
      <3>7. QED
        BY <1>b, <1>d, <1>w, <2>2, <3>3, <3>4, <3>5, <3>6 DEF ThreadTyped
    <2>5. CASE e \notin Open
      <3>1. NextAttempt /\ UNCHANGED view
        BY <2>1, <2>5 DEF e
      <3>2. QED
        BY <1>n, <2>2, <3>1
    <2>6. QED
      BY <2>4, <2>5
  <1>5. CASE HandshakeFails
    BY <1>5, <1>n DEF HandshakeFails, chain
  <1>6. CASE ClaimNothing \/ Claim
    <2>1. /\ pc' \in {"arranged", "pace", "claimWait", "firstWait"}
          /\ pc' \in {"arranged", "firstWait"} => pc = "firstScan"
          /\ until' \in Nat
      <3>1. PICK p \in {"arranged", "pace", "claimWait", "firstWait"} :
                /\ p \in {"arranged", "firstWait"} => pc = "firstScan"
                /\ At(p) \/ GoTo(p, now + ClaimTime)
        BY <1>6 DEF ClaimNothing, Claim, Scanning, After
      <3>2. now + ClaimTime \in Int
        BY <1>a, <1>e
      <3>3. pc' = p /\ until' \in Nat
        BY <1>a, <3>1, <3>2, AtIsNow, GoToIsLater
      <3>4. QED
        BY <3>1, <3>3
    <2>2. scanned' = TRUE
      BY <1>6 DEF ClaimNothing, Claim
    <2>3. pc' \in Places /\ pc' \notin {"align", "realign"} /\ (pc' \in Ahead \cup Inside => view >= 2)
      BY <1>b, <2>1 DEF Places, Ahead, Inside
    <2>4. UNCHANGED <<now, lock, view, iterStart, visited, try>>
      BY <1>6 DEF ClaimNothing, Claim, chain
    <2>5. QED
      BY <1>b, <1>d, <1>w, <2>1, <2>2, <2>3, <2>4 DEF ThreadTyped
  <1>7. CASE ClaimAnswered
    <2>1. PICK p \in {"arranged", "pace"} : (p = "arranged" => pc = "firstWait") /\ At(p)
      BY <1>7 DEF ClaimAnswered, After
    <2>2. pc' = p /\ until' \in Nat
      BY <1>a, <2>1, AtIsNow
    <2>3. pc' \in Places /\ pc' \notin {"align", "realign"} /\ (pc' \in Ahead \cup Inside => view >= 2)
      BY <1>b, <2>1, <2>2 DEF Places, Ahead, Inside
    <2>4. QED
      BY <1>7, <1>b, <1>d, <1>w, <2>2, <2>3 DEF ClaimAnswered, chain, ThreadTyped
  <1>8. CASE ClaimFirst
    <2>1. view \in 2 .. Len(lock)
      BY <1>8, <1>a, <1>b, <1>d DEF ClaimFirst, Ahead
    <2>2. ClaimTs(view - 2) \in Nat
      <3> DEFINE i == view - 1
      <3>1. i \in 1 .. Len(lock) /\ i - 1 = view - 2
        BY <2>1, <1>a
      <3> HIDE DEF i
      <3>2. ClaimTs(i - 1) = lock[i] + ClaimDelay /\ lock[i] \in Nat
        BY <3>1, LocksAreTimes
      <3> DEFINE t == lock[i]
      <3>3. t \in Nat /\ ClaimTs(i - 1) = t + ClaimDelay
        BY <3>2
      <3> HIDE DEF t
      <3>4. ClaimTs(i - 1) \in Nat
        BY <1>e, <3>3
      <3>5. QED
        BY <3>1, <3>4
    <2> DEFINE wake == ClaimTs(view - 2)
    <2>3. wake \in Int /\ (GoTo("asleep", wake) \/ At("flush"))
      BY <1>8, <2>2 DEF ClaimFirst
    <2> HIDE DEF wake
    <2>4. pc' \in {"asleep", "flush"} /\ until' \in Nat
      BY <1>a, <2>3, AtIsNow, GoToIsLater
    <2>5. pc' \in Places /\ pc' \notin {"align", "realign"}
      BY <2>4 DEF Places
    <2>6. view >= 2
      BY <1>a, <2>1
    <2>7. QED
      BY <1>8, <1>b, <1>d, <1>w, <2>4, <2>5, <2>6 DEF ClaimFirst, chain, ThreadTyped
  <1>9. CASE Flush \/ Post
    <2>1. view \in 1 .. Len(lock) /\ view >= 2
      BY <1>9, <1>b, <1>f DEF Flush, Post, Ahead
    <2>2. lock[view] - Ladder \in Int /\ now + PostTime \in Int
      BY <1>a, <1>e, <1>l, <2>1
    <2>3. GoTo("post", now + PostTime) \/ GoTo("ladder", lock[view] - Ladder)
      BY <1>9 DEF Flush, Post
    <2>4. pc' \in {"post", "ladder"} /\ until' \in Nat
      BY <1>a, <2>2, <2>3, GoToIsLater
    <2>5. pc' \in Places /\ pc' \notin {"align", "realign"}
      BY <2>4 DEF Places
    <2>6. QED
      BY <1>9, <1>b, <1>d, <1>w, <2>1, <2>4, <2>5 DEF Flush, Post, chain, ThreadTyped
  <1>10. CASE Preflight
    <2>1. view \in 1 .. Len(lock) /\ view >= 2
      BY <1>10, <1>b, <1>f DEF Preflight, Ahead
    <2>2. SleepAndClaim \/ At("down") \/ At("gate")
      BY <1>10 DEF Preflight
    <2>3. pc' \in {"asleep", "down", "gate"} /\ until' \in Nat
      BY <1>a, <2>1, <2>2, AtIsNow, SleepIsUntilClaim
    <2>4. pc' \in Places /\ pc' \notin {"align", "realign"}
      BY <2>3 DEF Places
    <2>5. visited' \subseteq 1 .. Len(lock)
      BY <1>10, <1>w, <2>1 DEF Preflight
    <2>6. QED
      BY <1>10, <1>b, <1>d, <1>w, <2>1, <2>3, <2>4, <2>5 DEF Preflight, chain, ThreadTyped
  <1>11. CASE PoolGate \/ Decide \/ BetAnswered
    <2>1. view \in 1 .. Len(lock) /\ view >= 2
      BY <1>11, <1>b, <1>f DEF PoolGate, Decide, BetAnswered, Inside
    <2>2. SleepAndClaim \/ GoTo("decide", now + FetchTime) \/ At("send")
      BY <1>11 DEF PoolGate, Decide, BetAnswered
    <2>3. now + FetchTime \in Int
      BY <1>a, <1>e
    <2>4. pc' \in {"asleep", "decide", "send"} /\ until' \in Nat
      BY <1>a, <2>1, <2>2, <2>3, AtIsNow, GoToIsLater, SleepIsUntilClaim
    <2>5. pc' \in Places /\ pc' \notin {"align", "realign"}
      BY <2>4 DEF Places
    <2>6. UNCHANGED <<now, lock, view, iterStart, scanned, visited, try>>
      BY <1>11 DEF PoolGate, Decide, BetAnswered, chain
    <2>7. QED
      BY <1>b, <1>d, <1>w, <2>1, <2>4, <2>5, <2>6 DEF ThreadTyped
  <1>12. CASE Send
    <2>1. GoTo("receipt", now + ReceiptTime) \/ At("down")
      BY <1>12 DEF Send
    <2>2. now + ReceiptTime \in Int
      BY <1>a, <1>e
    <2>3. pc' \in {"receipt", "down"} /\ until' \in Nat
      BY <1>a, <2>1, <2>2, AtIsNow, GoToIsLater
    <2>4. pc' \in Places /\ pc' \notin {"align", "realign"} /\ view >= 2
      BY <1>12, <1>b, <2>3 DEF Send, Places, Inside
    <2>5. UNCHANGED <<now, lock, view, iterStart, scanned, visited, try>>
      BY <1>12 DEF Send
    <2>6. QED
      BY <1>b, <1>d, <1>w, <2>3, <2>4, <2>5 DEF ThreadTyped
  <1>13. CASE Wake \/ Pace \/ StartIteration \/ Crash
    <2>1. FloorEnd \in Int
      BY <1>d, <1>e DEF FloorEnd
    <2>2. \/ At("realign") /\ try' = 0
          \/ GoTo("top", FloorEnd) /\ try' = try
          \/ At("align") /\ try' = 0
          \/ At("down") /\ try' = try
      BY <1>13 DEF Wake, Pace, StartIteration, Crash
    <2>3. /\ pc' \in {"realign", "top", "align", "down"} /\ until' \in Nat
          /\ pc' \in {"realign", "align"} => try' = 0
          /\ try' \in {0, try}
      <3> DEFINE t == FloorEnd
      <3>a. t \in Int
        BY <2>1
      <3> HIDE DEF t
      <3>1. CASE GoTo("top", t) /\ try' = try
        <4>1. pc' = "top" /\ until' \in Nat
          BY <1>a, <3>a, <3>1, GoToIsLater
        <4>2. QED
          BY <3>1, <4>1
      <3>2. CASE At("realign") /\ try' = 0
        BY <1>a, <3>2, AtIsNow
      <3>3. CASE At("align") /\ try' = 0
        BY <1>a, <3>3, AtIsNow
      <3>4. CASE At("down") /\ try' = try
        <4>1. pc' = "down" /\ until' = now
          BY <1>a, <3>4, AtIsNow
        <4>2. QED
          BY <1>a, <3>4, <4>1
      <3>5. QED
        BY <2>2, <3>1, <3>2, <3>3, <3>4 DEF t
    <2>4. /\ pc' \in Places /\ ~(pc' \in Ahead \cup Inside)
          /\ pc' \in {"align", "realign"} => try' < Attempts
          /\ try' \in Nat /\ try' <= Attempts
      BY <1>b, <1>e, <2>3 DEF Places, Ahead, Inside
    <2>5. iterStart' \in {now, iterStart} /\ UNCHANGED <<now, lock, view, scanned, visited>>
      BY <1>13 DEF Wake, Pace, StartIteration, Crash, chain
    <2>6. iterStart' \in Nat /\ iterStart' <= now'
      <3>1. now' = now /\ (iterStart' = now \/ iterStart' = iterStart)
        BY <2>5
      <3>2. QED
        BY <1>m, <1>i, <3>1
    <2>7. QED
      BY <1>b, <1>d, <1>w, <2>3, <2>4, <2>5, <2>6 DEF ThreadTyped
  <1>14. CASE Boot
    <2>1. pc' = "top" /\ until' = now
      BY <1>14, <1>a, AtIsNow DEF Boot
    <2>2. /\ try' = 0 /\ view' = 0 /\ iterStart' = now /\ scanned' = FALSE /\ visited' = {}
          /\ now' = now /\ lock' = lock
      BY <1>14 DEF Boot, chain
    <2>3. pc' \in Places /\ pc' \notin {"align", "realign"} /\ ~(pc' \in Ahead \cup Inside)
      BY <2>1 DEF Places, Ahead, Inside
    <2>4. try' <= Attempts /\ view' <= Len(lock) /\ iterStart' <= now'
      BY <1>a, <1>e, <2>2
    <2>5. QED
      BY <1>a, <2>1, <2>2, <2>3, <2>4 DEF ThreadTyped
  <1>15. CASE UNCHANGED vars
    BY <1>15 DEF vars, chain, ThreadTyped
  <1>16. QED
    BY <1>1, <1>2, <1>3, <1>4, <1>5, <1>6, <1>7, <1>8, <1>9, <1>10, <1>11, <1>12, <1>13,
       <1>14, <1>15
    DEF Next

LEMMA AlarmsGrow ==
    ASSUME NEW E, NEW F, E \subseteq F, NEW T, NEW a \in Alarms(E, T)
    PROVE  a \in Alarms(F, T)
  BY DEF Alarms

\* The events a verdict adds to the queue.
LEMMA EventsTyped ==
    ASSUME NEW a, NEW b, NEW n \in Nat
    PROVE  EventOf(a, b) \in Seq(Words) /\ [i \in 1 .. n |-> "other"] \in Seq(Words)
  <1>1. EventOf(a, b) \in {<<"blocked">>, <<"recovered">>, <<>>}
    BY DEF EventOf
  <1>2. EventOf(a, b) \in Seq(Words)
    <2>1. <<"blocked">> \in Seq(Words) /\ <<"recovered">> \in Seq(Words) /\ <<>> \in Seq(Words)
      BY DEF Words
    <2>2. QED
      BY <1>1, <2>1
  <1>3. [i \in 1 .. n |-> "other"] \in Seq(Words)
    BY DEF Words
  <1>4. QED
    BY <1>2, <1>3

LEMMA StepKeepsAlerts ==
    ASSUME LoopAssumption, AlarmAssumption, TypeInv, [Next]_vars
    PROVE  AlertsTyped'
  <1>1. alarm \in Alarms(1 .. Len(lock), 0 .. MaxTime)
    BY DEF TypeInv, AlertsTyped
  <1>2. queue \in Seq(Words) /\ told \in BOOLEAN
    BY DEF TypeInv, AlertsTyped
  <1>3. run \in Nat
    BY DEF TypeInv, AlertsTyped
  <1>4. CASE Roll
    <2>1. lock \in Seq(Nat)
      BY DEF TypeInv, ChainTyped
    <2>2. Len(lock') = Len(lock) + 1 /\ Len(lock) \in Nat
      BY <1>4, <2>1 DEF Roll
    <2>3. 1 .. Len(lock) \subseteq 1 .. Len(lock')
      <3> DEFINE n == Len(lock)
                 m == Len(lock')
      <3>1. m = n + 1 /\ n \in Nat
        BY <2>2
      <3> HIDE DEF n, m
      <3>2. 1 .. n \subseteq 1 .. m
        BY <3>1
      <3>3. QED
        BY <3>2 DEF n, m
    <2>4. alarm \in Alarms(1 .. Len(lock'), 0 .. MaxTime)
      BY <1>1, <2>3, AlarmsGrow
    <2>5. alarm' = alarm /\ queue' = queue /\ told' = told /\ run' = run
      BY <1>4 DEF Roll, alerts
    <2>6. QED
      BY <1>2, <1>3, <2>4, <2>5 DEF AlertsTyped
  <1>5. CASE Post
    <2>1. lock' = lock /\ alarm' = alarm /\ run' = run
      BY <1>5 DEF Post, chain
    <2>2. pc = "post" /\ queue' = Tail(queue)
          /\ told' = IF Head(queue) = "other" THEN told ELSE Head(queue) = "blocked"
      BY <1>5 DEF Post
    <2>3. told' \in BOOLEAN
      BY <1>2, <2>2
    <2>4. queue # <<>>
      BY <2>2 DEF TypeInv
    <2>5. queue' \in Seq(Words)
      BY <1>2, <2>2, <2>4
    <2>6. QED
      BY <1>1, <1>3, <2>1, <2>3, <2>5 DEF AlertsTyped
  <1>6. CASE PoolGate
    <2>1. PICK ready \in BOOLEAN, others \in 0 .. OtherAlarms :
             /\ alarm' = Record(alarm, ready, view, now)
             /\ queue' = queue \o EventOf(alarm, alarm') \o [i \in 1 .. others |-> "other"]
             /\ run' = IF ready THEN 0 ELSE run + 1
      BY <1>6 DEF PoolGate
    <2>2. view \in 1 .. Len(lock)
      <3>1. view \in Nat /\ view <= Len(lock) /\ view >= 2
        BY <1>6 DEF PoolGate, TypeInv, ThreadTyped, Inside
      <3>2. Len(lock) \in Nat
        BY DEF TypeInv, ChainTyped
      <3> DEFINE n == Len(lock)
      <3>3. n \in Nat /\ view \in Nat /\ view <= n /\ view >= 2
        BY <3>1, <3>2
      <3> HIDE DEF n
      <3>4. view \in 1 .. n
        BY <3>3
      <3>5. QED
        BY <3>4 DEF n
    <2>3. now \in 0 .. MaxTime
      <3>1. now \in Nat /\ now <= MaxTime
        BY DEF TypeInv, ChainTyped
      <3>2. MaxTime \in Nat
        BY LoopConstants
      <3>3. QED
        BY <3>1, <3>2
    <2>4. alarm' \in Alarms(1 .. Len(lock), 0 .. MaxTime)
      BY <1>1, <2>1, <2>2, <2>3, RecordTyped
    <2>5. others \in Nat
      BY LoopConstants
    <2>6. queue' \in Seq(Words)
      <3>1. EventOf(alarm, alarm') \in Seq(Words)
        BY <2>5, EventsTyped
      <3>2. [i \in 1 .. others |-> "other"] \in Seq(Words)
        BY <2>5, EventsTyped
      <3>3. QED
        BY <1>2, <2>1, <3>1, <3>2, ConcatProperties
    <2>7. run' \in Nat
      BY <1>3, <2>1
    <2>8. lock' = lock /\ told' = told
      BY <1>6 DEF PoolGate, chain
    <2>9. QED
      BY <1>2, <2>4, <2>6, <2>7, <2>8 DEF AlertsTyped
  <1>7. CASE Boot
    <2>1. NewAlarm \in Alarms(1 .. Len(lock), 0 .. MaxTime)
      <3>1. \A E, T : NewAlarm \in Alarms(E, T)
        BY DEF NewAlarm, Alarms, Never
      <3>2. QED
        BY <3>1
    <2>2. <<>> \in Seq(Words)
      OBVIOUS
    <2>3. alarm' = NewAlarm /\ queue' = <<>> /\ told' = FALSE /\ run' = 0 /\ lock' = lock
      BY <1>7 DEF Boot, chain
    <2>4. QED
      BY <2>1, <2>2, <2>3 DEF AlertsTyped
  <1>8. CASE \/ Tick \/ Mine \/ Evict \/ Handshake \/ HandshakeFails
             \/ ClaimNothing \/ Claim \/ ClaimAnswered \/ ClaimFirst \/ Flush
             \/ Preflight \/ Decide \/ Send \/ BetAnswered
             \/ Wake \/ Pace \/ StartIteration \/ Crash \/ UNCHANGED vars
    <2>1. lock' = lock /\ alarm' = alarm /\ queue' = queue /\ told' = told /\ run' = run
      BY <1>8 DEF Tick, Mine, Evict, Handshake, HandshakeFails, ClaimNothing, Claim,
                  ClaimAnswered, ClaimFirst, Flush, Preflight, Decide, Send, BetAnswered,
                  Wake, Pace, StartIteration, Crash, vars, chain, alerts
    <2>2. QED
      BY <1>1, <1>2, <1>3, <2>1 DEF AlertsTyped
  <1>9. QED
    BY <1>4, <1>5, <1>6, <1>7, <1>8 DEF Next

\* An alert is under way only while one is queued.
LEMMA PostHasAnAlert ==
    ASSUME pc = "post" => queue # <<>>, now \in Nat, [Next]_vars
    PROVE  pc' = "post" => queue' # <<>>
  <1>1. CASE Flush \/ Post
    <2>1. queue' # <<>> \/ GoTo("ladder", lock[view] - Ladder)
      BY <1>1 DEF Flush, Post, alerts
    <2>2. QED
      BY <2>1 DEF GoTo
  <1>2. CASE \/ Tick \/ Roll \/ Mine \/ UNCHANGED vars
    BY <1>2 DEF Tick, Roll, Mine, vars, alerts
  <1>3. CASE Evict
    BY <1>3 DEF Evict
  <1>4. CASE Handshake \/ HandshakeFails
    <2>1. pc' # "post"
      BY <1>4 DEF Handshake, HandshakeFails, NextAttempt, At, GoTo
    <2>2. QED
      BY <2>1
  <1>5. CASE \/ ClaimNothing \/ Claim \/ ClaimAnswered \/ ClaimFirst
             \/ Preflight \/ PoolGate \/ Decide \/ Send \/ BetAnswered
             \/ Wake \/ Pace \/ StartIteration \/ Crash \/ Boot
    <2>1. pc' # "post"
      BY <1>5 DEF ClaimNothing, Claim, ClaimAnswered, ClaimFirst, Preflight, PoolGate, Decide,
                  Send, BetAnswered, Wake, Pace, StartIteration, Crash, Boot, After,
                  SleepAndClaim, At, GoTo
    <2>2. QED
      BY <2>1
  <1>6. QED
    BY <1>1, <1>2, <1>3, <1>4, <1>5 DEF Next

\* The initial state: the contract has three rounds, the process is down.
LEMMA StartIsTyped ==
    ASSUME LoopAssumption, AlarmAssumption, Init
    PROVE  TypeInv
  <1>1. /\ Interval \in Nat /\ MaxTime \in Nat /\ 2 * Interval <= MaxTime
        /\ MaxFaults \in Nat /\ Attempts \in Nat
    BY LoopConstants
  <1>2. 2 * Interval \in Nat /\ 3 * Interval \in Nat
    BY <1>1
  <1>3. /\ now = 2 * Interval /\ lock = <<Interval, 2 * Interval, 3 * Interval>>
        /\ mined = 0 /\ mempool = {} /\ nonce = -1
    BY DEF Init, None
  <1>4. ChainTyped
    <2>1. now \in Nat /\ now <= MaxTime
      BY <1>1, <1>2, <1>3
    <2>2. lock \in Seq(Nat) /\ Len(lock) >= 3
      BY <1>1, <1>2, <1>3
    <2>3. QED
      BY <1>3, <2>1, <2>2 DEF ChainTyped
  <1>5. FaultsTyped
    BY <1>1 DEF FaultsTyped, Init
  <1>6. IsFiniteSet(mempool)
    BY <1>3, FS_EmptySet
  <1>7. ThreadTyped
    <2>1. pc = "down" /\ until = now /\ try = 0 /\ view = 0 /\ iterStart = now
          /\ scanned = FALSE /\ visited = {}
      BY DEF Init
    <2>2. view <= Len(lock) /\ Len(lock) = 3
      BY <1>3, <2>1
    <2>3. until \in Nat /\ iterStart \in Nat /\ iterStart <= now /\ try \in Nat /\ try <= Attempts
      BY <1>1, <1>2, <1>3, <2>1
    <2>4. pc \in Places /\ pc \notin {"align", "realign"} /\ ~(pc \in Ahead \cup Inside)
      BY <2>1 DEF Places, Ahead, Inside
    <2>5. QED
      BY <2>1, <2>2, <2>3, <2>4 DEF ThreadTyped
  <1>8. AlertsTyped
    <2>1. \A E, T : NewAlarm \in Alarms(E, T)
      BY DEF NewAlarm, Alarms, Never
    <2>2. alarm = NewAlarm /\ queue = <<>> /\ told = FALSE /\ run = 0
      BY DEF Init
    <2>3. <<>> \in Seq(Words)
      OBVIOUS
    <2>4. QED
      BY <2>1, <2>2, <2>3 DEF AlertsTyped
  <1>9. pc # "post"
    BY DEF Init
  <1>10. QED
    BY <1>4, <1>5, <1>6, <1>7, <1>8, <1>9 DEF TypeInv

LEMMA StepKeepsType ==
    ASSUME LoopAssumption, AlarmAssumption, TypeInv, [Next]_vars
    PROVE  TypeInv'
  <1>1. ChainTyped /\ FaultsTyped /\ IsFiniteSet(mempool) /\ ThreadTyped
        /\ (pc = "post" => queue # <<>>) /\ now \in Nat
    BY DEF TypeInv, ChainTyped
  <1>2. ChainTyped'
    BY <1>1, StepKeepsChain
  <1>3. FaultsTyped'
    BY <1>1, StepKeepsFaults
  <1>4. IsFiniteSet(mempool')
    BY <1>1, MempoolIsFinite
  <1>5. ThreadTyped'
    BY <1>1, StepKeepsThread
  <1>6. AlertsTyped'
    BY StepKeepsAlerts
  <1>7. pc' = "post" => queue' # <<>>
    BY <1>1, PostHasAnAlert
  <1>8. QED
    BY <1>2, <1>3, <1>4, <1>5, <1>6, <1>7 DEF TypeInv

LEMMA AlwaysTyped == Spec => []TypeInv
  <1>1. Init => TypeInv
    BY LoopAssumption, AlarmAssumption, StartIsTyped
  <1>2. TypeInv /\ [Next]_vars => TypeInv'
    BY LoopAssumption, AlarmAssumption, StepKeepsType
  <1>3. QED
    BY <1>1, <1>2, PTL DEF Spec

\* The loop's variables keep their types: engine.py never indexes a round that
\* does not exist and never makes more attempts than the handshake has.
THEOREM LoopTyped == Spec => []TypeOK
  <1>1. TypeInv => TypeOK
    BY LoopAssumption, AlarmAssumption, TypeInvIsTyped
  <1>2. QED
    BY <1>1, AlwaysTyped, PTL

-----------------------------------------------------------------------------
(* Rounds and visits.                                                      *)

\* A round that is not the last one has been locked, an interval before the next;
\* executeRound is late by RollDelay at most; the thread is awake when it is due.
ClockInv ==
    /\ \A i \in 1 .. Len(lock) - 1 : lock[i] <= now /\ lock[i] + Interval <= lock[i + 1]
    /\ now <= lock[Len(lock)] + RollDelay
    /\ pc # "down" => now <= until

\* A round is visited once: it comes into view while it is open, and once the
\* thread has been through its wakes it sleeps past its lock.
VisitInv ==
    /\ \A e \in visited : e <= view
    /\ pc \in Ahead => view \notin visited
    /\ pc \in Inside => view \in visited
    /\ pc = "asleep" /\ view \in visited => lock[view] <= until
    /\ pc \in Behind \ {"asleep"} /\ view \in visited => lock[view] <= now
    /\ alarm.lastSeen \in visited \cup {0}
    /\ pc = "gate" => alarm.lastSeen # view

\* The first scan is over before the first visit.
ScanFirst ==
    /\ visited # {} => scanned
    /\ pc \in {"firstScan", "firstWait"} => visited = {}
    /\ pc \in (Ahead \cup Inside) \ {"firstScan"} => scanned

\* A bet on its way is in time.
SendInv == pc = "send" => now < lock[view] /\ until <= now

NonceInv == ~LaggingNonce => (pc \in {"gate", "decide", "send"} => nonce = Pending)

-----------------------------------------------------------------------------
(* Where the steps of the thread lead, and until when.                     *)

LEMMA Numbers ==
    ASSUME TypeInv
    PROVE  /\ now \in Nat /\ until \in Nat /\ view \in Nat /\ iterStart \in Nat /\ iterStart <= now
           /\ lock \in Seq(Nat) /\ Len(lock) \in Nat /\ Len(lock) >= 3 /\ view <= Len(lock)
           /\ pc \in Ahead \cup Inside => view \in 1 .. Len(lock) /\ view - 1 \in 1 .. Len(lock)
  <1>1. now \in Nat /\ lock \in Seq(Nat) /\ Len(lock) >= 3
    BY DEF TypeInv, ChainTyped
  <1>2. until \in Nat /\ view \in Nat /\ iterStart \in Nat /\ iterStart <= now /\ view <= Len(lock)
        /\ (pc \in Ahead \cup Inside => view >= 2)
    BY DEF TypeInv, ThreadTyped
  <1>3. Len(lock) \in Nat
    BY <1>1
  <1>4. pc \in Ahead \cup Inside => view \in 1 .. Len(lock) /\ view - 1 \in 1 .. Len(lock)
    <2> DEFINE n == Len(lock)
    <2>1. n \in Nat /\ view \in Nat /\ view <= n
      BY <1>2, <1>3
    <2> HIDE DEF n
    <2>2. view >= 2 => view \in 1 .. n /\ view - 1 \in 1 .. n
      BY <2>1
    <2>3. QED
      BY <1>2, <2>2 DEF n
  <1>5. QED
    BY <1>1, <1>2, <1>3, <1>4

LEMMA TickMoves ==
    ASSUME TypeInv, Tick
    PROVE  /\ now' = now + 1 /\ (pc # "down" => now < until)
           /\ UNCHANGED <<lock, pc, until, view, iterStart, scanned, visited, nonce, mined, mempool>>
           /\ UNCHANGED <<alarm, queue, told, run>>
  BY DEF Tick, chain, alerts

\* The only open round is the last one.
LEMMA OpenIsTip ==
    ASSUME TypeInv, ClockInv, NEW e \in Open
    PROVE  e = Len(lock) /\ lock[e] > now
  <1>1. e \in {Len(lock), Len(lock) - 1} /\ lock[e] > now
    BY DEF Open, Tip
  <1>2. e # Len(lock) - 1
    <2> SUFFICES ASSUME e = Len(lock) - 1
                 PROVE  FALSE
      OBVIOUS
    <2>1. Len(lock) \in Nat /\ Len(lock) >= 3
      BY Numbers
    <2>2. e \in 1 .. Len(lock) - 1 /\ e \in 1 .. Len(lock)
      <3> DEFINE n == Len(lock)
      <3>1. n \in Nat /\ n >= 3 /\ e = n - 1
        BY <2>1
      <3> HIDE DEF n
      <3>2. e \in 1 .. n - 1 /\ e \in 1 .. n
        BY <3>1
      <3>3. QED
        BY <3>2 DEF n
    <2>3. lock[e] <= now
      BY <2>2 DEF ClockInv
    <2>4. lock[e] \in Nat /\ now \in Nat
      BY <2>2, Numbers, ElementOfSeq
    <2> DEFINE t == lock[e]
    <2>5. t <= now /\ t > now /\ t \in Nat /\ now \in Nat
      BY <1>1, <2>3, <2>4
    <2> HIDE DEF t
    <2>6. QED
      BY <2>5
  <1>3. QED
    BY <1>1, <1>2

LEMMA HandshakeMoves ==
    ASSUME LoopAssumption, AlarmAssumption, TypeInv, ClockInv, Handshake \/ HandshakeFails
    PROVE  /\ pc \in {"align", "realign"}
           /\ UNCHANGED <<now, lock, iterStart, scanned, visited, nonce, mined, mempool>>
           /\ UNCHANGED <<alarm, queue, told, run>>
           /\ now <= until'
           /\ \/ /\ lock[Len(lock)] > now /\ until' = now
                 /\ \/ /\ pc = "align" /\ view' = Len(lock)
                       /\ pc' = IF scanned THEN "arranged" ELSE "firstScan"
                    \/ pc = "realign" /\ pc' = "claim" /\ view' = view
              \/ /\ view' = view /\ pc' \in {pc, "down"}
                 /\ faults' = 0 => ~(lock[Len(lock)] > now)
  <1>1. /\ pc \in {"align", "realign"}
        /\ UNCHANGED <<now, lock, iterStart, scanned, visited, nonce, mined, mempool>>
        /\ UNCHANGED <<alarm, queue, told, run>>
    BY DEF Handshake, HandshakeFails, chain, alerts
  <1>2. now \in Nat /\ try \in Nat /\ try < Attempts /\ scanned \in BOOLEAN
    BY <1>1 DEF TypeInv, ThreadTyped, ChainTyped
  <1>3. NextAttempt => now <= until' /\ pc' \in {pc, "down"}
    <2> SUFFICES ASSUME NextAttempt
                 PROVE  now <= until' /\ pc' \in {pc, "down"}
      OBVIOUS
    <2>1. until' \in Nat /\ until' >= now /\ ((pc' = pc /\ try' < Attempts) \/ pc' = "down")
      BY <1>2, AttemptTyped
    <2>2. QED
      BY <1>2, <2>1
  <1>4. CASE Handshake
    <2>1. PICK stale \in {0, 1} :
            LET e == Tip - stale
            IN  /\ faults' = faults + stale
                /\ IF e \in Open
                   THEN CASE pc = "align" /\ ~scanned -> At("firstScan") /\ view' = e
                          [] pc = "align" /\ scanned  -> At("arranged") /\ view' = e
                          [] OTHER -> At("claim") /\ UNCHANGED view
                   ELSE NextAttempt /\ UNCHANGED view
      BY <1>4 DEF Handshake
    <2> DEFINE e == Tip - stale
    <2>2. CASE e \in Open
      <3>1. e = Len(lock) /\ lock[e] > now
        BY <2>2, OpenIsTip
      <3> HIDE DEF e
      <3>2. \/ At("firstScan") /\ view' = e /\ pc = "align" /\ ~scanned
            \/ At("arranged") /\ view' = e /\ pc = "align" /\ scanned
            \/ At("claim") /\ view' = view /\ pc = "realign"
        BY <1>1, <1>2, <2>1, <2>2 DEF e
      <3>3. \/ pc' = "firstScan" /\ until' = now /\ view' = e /\ pc = "align" /\ ~scanned
            \/ pc' = "arranged" /\ until' = now /\ view' = e /\ pc = "align" /\ scanned
            \/ pc' = "claim" /\ until' = now /\ view' = view /\ pc = "realign"
        BY <1>2, <3>2, AtIsNow
      <3>4. now <= until'
        BY <1>2, <3>3
      <3>5. lock[Len(lock)] > now
        BY <3>1
      <3>6. /\ until' = now
            /\ \/ /\ pc = "align" /\ view' = Len(lock)
                  /\ pc' = IF scanned THEN "arranged" ELSE "firstScan"
               \/ pc = "realign" /\ pc' = "claim" /\ view' = view
        BY <3>1, <3>3
      <3>7. QED
        BY <1>1, <3>4, <3>5, <3>6
    <2>3. CASE e \notin Open
      <3>1. NextAttempt /\ view' = view
        BY <2>1, <2>3
      <3>2. faults' = 0 => ~(lock[Len(lock)] > now)
        <4> SUFFICES ASSUME faults' = 0
                     PROVE  ~(lock[Len(lock)] > now)
          OBVIOUS
        <4>1. faults \in Nat
          BY DEF TypeInv, FaultsTyped
        <4>2. stale = 0
          BY <2>1, <4>1
        <4>3. Len(lock) \in Nat
          BY Numbers
        <4>4. e = Len(lock)
          BY <4>2, <4>3 DEF Tip
        <4>5. QED
          BY <2>3, <4>4 DEF Open, Tip
      <3>3. QED
        BY <1>1, <1>3, <3>1, <3>2
    <2>4. QED
      BY <2>2, <2>3
  <1>5. CASE HandshakeFails
    <2>1. NextAttempt /\ view' = view /\ faults' = faults + 1
      BY <1>5 DEF HandshakeFails, Fault
    <2>2. faults' # 0
      BY <2>1 DEF TypeInv, FaultsTyped
    <2>3. QED
      BY <1>1, <1>3, <2>1, <2>2
  <1>6. QED
    BY <1>4, <1>5

LEMMA ClaimMoves ==
    ASSUME LoopAssumption, AlarmAssumption, TypeInv, ClaimNothing \/ Claim \/ ClaimAnswered
    PROVE  /\ UNCHANGED <<now, lock, view, iterStart, visited>>
           /\ UNCHANGED <<alarm, queue, told, run>>
           /\ now <= until' /\ until' <= now + ClaimTime
           /\ scanned' = (scanned \/ pc \in {"firstScan", "claim"})
           /\ \/ pc = "firstScan" /\ pc' = "firstWait"
              \/ pc \in {"firstScan", "firstWait"} /\ pc' = "arranged" /\ until' = now
              \/ pc = "claim" /\ pc' = "claimWait"
              \/ pc \in {"claim", "claimWait"} /\ pc' = "pace" /\ until' = now
  <1>1. now \in Nat /\ ClaimTime \in Nat
    BY Numbers, LoopConstants
  <1>2. now + ClaimTime \in Int
    BY <1>1
  <1>3. /\ UNCHANGED <<now, lock, view, iterStart, visited>>
        /\ UNCHANGED <<alarm, queue, told, run>>
    BY DEF ClaimNothing, Claim, ClaimAnswered, chain, alerts
  <1>4. scanned' = (scanned \/ pc \in {"firstScan", "claim"})
    <2>1. scanned \in BOOLEAN
      BY DEF TypeInv, ThreadTyped
    <2>2. CASE ClaimNothing \/ Claim
      BY <2>2 DEF ClaimNothing, Claim, Scanning
    <2>3. CASE ClaimAnswered
      BY <2>1, <2>3 DEF ClaimAnswered
    <2>4. QED
      BY <2>2, <2>3
  <1>5. \/ pc = "firstScan" /\ GoTo("firstWait", now + ClaimTime)
        \/ pc \in {"firstScan", "firstWait"} /\ At("arranged")
        \/ pc = "claim" /\ GoTo("claimWait", now + ClaimTime)
        \/ pc \in {"claim", "claimWait"} /\ At("pace")
    BY DEF ClaimNothing, Claim, ClaimAnswered, Scanning, After
  <1>6. /\ now <= until' /\ until' <= now + ClaimTime
        /\ \/ pc = "firstScan" /\ pc' = "firstWait"
           \/ pc \in {"firstScan", "firstWait"} /\ pc' = "arranged" /\ until' = now
           \/ pc = "claim" /\ pc' = "claimWait"
           \/ pc \in {"claim", "claimWait"} /\ pc' = "pace" /\ until' = now
    <2> DEFINE t == now + ClaimTime
    <2>1. \A p : GoTo(p, t) => pc' = p /\ until' = t
      <3>1. \A p : GoTo(p, t) => pc' = p /\ until' = IF t > now THEN t ELSE now
        BY <1>1, <1>2, GoToIsLater
      <3>2. t > now \/ t = now
        BY <1>1
      <3> HIDE DEF t
      <3>3. QED
        BY <3>1, <3>2
    <2>2. now <= t
      BY <1>1
    <2> HIDE DEF t
    <2>3. \A p : At(p) => pc' = p /\ until' = now
      BY <1>1, AtIsNow
    <2>4. CASE \/ pc = "firstScan" /\ GoTo("firstWait", t)
               \/ pc = "claim" /\ GoTo("claimWait", t)
      <3>1. until' = t /\ (\/ pc = "firstScan" /\ pc' = "firstWait"
                           \/ pc = "claim" /\ pc' = "claimWait")
        BY <2>1, <2>4
      <3>2. t \in Nat
        BY <1>1 DEF t
      <3>3. now <= until' /\ until' <= t
        BY <2>2, <3>1, <3>2
      <3>4. QED
        BY <3>1, <3>3 DEF t
    <2>5. CASE \/ pc \in {"firstScan", "firstWait"} /\ At("arranged")
               \/ pc \in {"claim", "claimWait"} /\ At("pace")
      <3>1. until' = now /\ (\/ pc \in {"firstScan", "firstWait"} /\ pc' = "arranged"
                             \/ pc \in {"claim", "claimWait"} /\ pc' = "pace")
        BY <2>3, <2>5
      <3>2. now <= until' /\ until' <= now + ClaimTime
        BY <1>1, <3>1
      <3>3. QED
        BY <3>1, <3>2
    <2>6. QED
      BY <1>5, <2>4, <2>5 DEF t
  <1>7. QED
    BY <1>3, <1>4, <1>6

LEMMA ClaimFirstMoves ==
    ASSUME LoopAssumption, AlarmAssumption, TypeInv, ClaimFirst
    PROVE  /\ pc = "arranged"
           /\ UNCHANGED <<now, lock, view, iterStart, scanned, visited>>
           /\ UNCHANGED <<alarm, queue, told, run>>
           /\ now <= until'
           /\ \/ pc' = "asleep" /\ now < lock[view - 1] + ClaimDelay
              \/ pc' = "flush" /\ until' = now
  <1>1. /\ pc = "arranged"
        /\ UNCHANGED <<now, lock, view, iterStart, scanned, visited>>
        /\ UNCHANGED <<alarm, queue, told, run>>
    BY DEF ClaimFirst, chain, alerts
  <1>2. now \in Nat /\ view - 1 \in 1 .. Len(lock) /\ view \in Nat
    BY <1>1, Numbers DEF Ahead
  <1> DEFINE i == view - 1
             w == ClaimTs(view - 2)
  <1>3. i - 1 = view - 2 /\ i \in 1 .. Len(lock)
    BY <1>2
  <1>4. ClaimTs(i - 1) = lock[i] + ClaimDelay /\ lock[i] \in Nat
    BY <1>3, LocksAreTimes DEF TypeInv
  <1>5. w = lock[i] + ClaimDelay /\ lock[i] \in Nat
    BY <1>3, <1>4
  <1>6. \/ now < w /\ GoTo("asleep", w)
        \/ At("flush")
    BY DEF ClaimFirst
  <1> HIDE DEF w, i
  <1>7. w \in Int
    <2> DEFINE t == lock[i]
    <2>1. w = t + ClaimDelay /\ t \in Nat /\ ClaimDelay \in Nat
      BY <1>5, LoopConstants
    <2> HIDE DEF t
    <2>2. QED
      BY <2>1
  <1>8. \/ now < w /\ pc' = "asleep" /\ until' = w
        \/ pc' = "flush" /\ until' = now
    <2>1. CASE now < w /\ GoTo("asleep", w)
      <3>1. pc' = "asleep" /\ until' = IF w > now THEN w ELSE now
        BY <1>2, <1>7, <2>1, GoToIsLater
      <3>2. w > now
        BY <1>2, <1>7, <2>1
      <3>3. QED
        BY <2>1, <3>1, <3>2
    <2>2. CASE At("flush")
      BY <1>2, <2>2, AtIsNow
    <2>3. QED
      BY <1>6, <2>1, <2>2
  <1>9. now <= until'
    <2> DEFINE u == until'
    <2>1. (now < w /\ u = w) \/ u = now
      BY <1>8
    <2>a. now \in Nat
      BY <1>2
    <2> HIDE DEF u
    <2>2. now <= u
      BY <1>7, <2>1, <2>a
    <2>3. QED
      BY <2>2 DEF u
  <1>10. w = lock[view - 1] + ClaimDelay
    BY <1>5 DEF i
  <1>11. QED
    BY <1>1, <1>8, <1>9, <1>10

\* Where the alerts are flushed or skipped, and each one posted.
LEMMA AlertMoves ==
    ASSUME LoopAssumption, AlarmAssumption, TypeInv, Flush \/ Post
    PROVE  /\ pc \in {"flush", "post"} /\ queue' = IF pc = "flush" THEN queue ELSE Tail(queue)
           /\ UNCHANGED <<now, lock, view, iterStart, scanned, visited, alarm, run>>
           /\ now <= until'
           /\ \/ pc' = "post" /\ until' = now + PostTime /\ queue' # <<>>
              \/ /\ pc' = "ladder"
                 /\ until' = IF lock[view] - Ladder > now THEN lock[view] - Ladder ELSE now
                 /\ queue' = <<>> \/ (pc = "flush" /\ ~HasSlack)
  <1>1. /\ pc \in {"flush", "post"} /\ queue' = IF pc = "flush" THEN queue ELSE Tail(queue)
        /\ UNCHANGED <<now, lock, view, iterStart, scanned, visited, alarm, run>>
    BY DEF Flush, Post, chain, alerts
  <1>2. now \in Nat /\ view \in 1 .. Len(lock)
    BY <1>1, Numbers DEF Ahead
  <1>3. lock[view] \in Nat /\ Ladder \in Nat /\ PostTime \in Nat
    BY <1>2, LocksAreTimes, LoopConstants DEF TypeInv
  <1> DEFINE t == lock[view] - Ladder
             s == now + PostTime
  <1>4. t \in Int
    <2> DEFINE u == lock[view]
    <2>1. u \in Nat /\ Ladder \in Nat /\ t = u - Ladder
      BY <1>3
    <2> HIDE DEF u, t
    <2>2. QED
      BY <2>1
  <1>5. s \in Nat /\ s >= now
    <2>1. now \in Nat /\ PostTime \in Nat
      BY <1>2, <1>3
    <2>2. QED
      BY <2>1
  <1>6. \/ GoTo("post", s) /\ queue' # <<>>
        \/ GoTo("ladder", t) /\ (queue' = <<>> \/ (pc = "flush" /\ ~HasSlack))
    <2>1. CASE Flush
      <3>1. queue' = queue /\ pc = "flush"
        BY <2>1 DEF Flush, alerts
      <3>2. QED
        BY <2>1, <3>1 DEF Flush
    <2>2. CASE Post
      BY <2>2 DEF Post
    <2>3. QED
      BY <2>1, <2>2
  <1> HIDE DEF s, t
  <1>7. \/ pc' = "post" /\ until' = s /\ queue' # <<>>
        \/ /\ pc' = "ladder" /\ until' = (IF t > now THEN t ELSE now)
           /\ queue' = <<>> \/ (pc = "flush" /\ ~HasSlack)
    <2>1. CASE GoTo("post", s) /\ queue' # <<>>
      <3>1. pc' = "post" /\ until' = IF s > now THEN s ELSE now
        BY <1>2, <1>5, <2>1, GoToIsLater
      <3>2. until' = s
        BY <1>2, <1>5, <3>1
      <3>3. QED
        BY <2>1, <3>1, <3>2
    <2>2. CASE GoTo("ladder", t) /\ (queue' = <<>> \/ (pc = "flush" /\ ~HasSlack))
      <3>1. pc' = "ladder" /\ until' = IF t > now THEN t ELSE now
        BY <1>2, <1>4, <2>2, GoToIsLater
      <3>2. QED
        BY <2>2, <3>1
    <2>3. QED
      BY <1>6, <2>1, <2>2
  <1>8. now <= until'
    <2>1. until' = s \/ until' = (IF t > now THEN t ELSE now)
      BY <1>7
    <2>2. now \in Nat
      BY <1>2
    <2>3. QED
      BY <1>4, <1>5, <2>1, <2>2
  <1>9. QED
    BY <1>1, <1>7, <1>8 DEF s, t

LEMMA PreflightMoves ==
    ASSUME LoopAssumption, AlarmAssumption, TypeInv, Preflight
    PROVE  /\ pc = "ladder" /\ until <= now /\ visited' = visited \cup {view}
           /\ UNCHANGED <<now, lock, mined, mempool, view, iterStart, scanned>>
           /\ UNCHANGED <<alarm, queue, told, run>>
           /\ now <= until'
           /\ \/ pc' = "down" /\ faults' # 0
              \/ pc' = "asleep" /\ lock[view] <= until' /\ faults' # 0
              \/ pc' = "gate" /\ until' = now /\ nonce' \in Fetched
  <1>1. /\ pc = "ladder" /\ visited' = visited \cup {view}
        /\ UNCHANGED <<now, lock, mined, mempool, view, iterStart, scanned>>
        /\ UNCHANGED <<alarm, queue, told, run>>
    BY DEF Preflight, chain, alerts
  <1>2. now \in Nat /\ until \in Nat /\ view \in 1 .. Len(lock)
    BY <1>1, Numbers DEF Ahead
  <1>3. until <= now
    BY <1>2 DEF Preflight, Due
  <1>4. lock[view] \in Nat /\ ClaimDelay \in Nat
    BY <1>2, LocksAreTimes, LoopConstants DEF TypeInv
  <1>5. Fault => faults' # 0
    BY DEF Fault, TypeInv, FaultsTyped
  <1>6. CASE Fault /\ SleepAndClaim
    <2> DEFINE t == lock[view]
    <2>1. /\ pc' = "asleep" /\ until' \in Nat /\ until' >= now
          /\ until' = IF t + ClaimDelay > now THEN t + ClaimDelay ELSE now
      BY <1>2, <1>6, SleepIsUntilClaim DEF TypeInv
    <2>2. t \in Nat
      BY <1>4
    <2> HIDE DEF t
    <2>3. t <= until' /\ now <= until'
      BY <1>2, <1>4, <2>1, <2>2, SMTT(30)
    <2>4. QED
      BY <1>1, <1>3, <1>5, <1>6, <2>1, <2>3 DEF t
  <1>7. CASE Fault /\ At("down")
    <2>1. pc' = "down" /\ until' = now
      BY <1>2, <1>7, AtIsNow
    <2>2. now <= until'
      BY <1>2, <2>1
    <2>3. QED
      BY <1>1, <1>3, <1>5, <1>7, <2>1, <2>2
  <1>8. CASE At("gate") /\ nonce' \in Fetched
    <2>1. pc' = "gate" /\ until' = now
      BY <1>2, <1>8, AtIsNow
    <2>2. now <= until'
      BY <1>2, <2>1
    <2>3. QED
      BY <1>1, <1>3, <1>8, <2>1, <2>2
  <1>9. QED
    BY <1>6, <1>7, <1>8 DEF Preflight

\* From the verdict to the sleep for the claim.
LEMMA DecisionMoves ==
    ASSUME LoopAssumption, AlarmAssumption, TypeInv, PoolGate \/ Decide \/ Send \/ BetAnswered
    PROVE  /\ pc \in Inside /\ UNCHANGED <<now, lock, view, iterStart, scanned, visited>>
           /\ now <= until'
           /\ (~PoolGate => UNCHANGED <<alarm, queue, told, run>>)
           /\ \/ /\ pc' = "asleep" /\ pc # "send"
                 /\ until' = IF lock[view] + ClaimDelay > now THEN lock[view] + ClaimDelay ELSE now
              \/ pc = "gate" /\ pc' = "decide" /\ until' = now + FetchTime
              \/ pc = "decide" /\ pc' = "send" /\ until' = now /\ now < lock[view]
              \/ pc = "send" /\ pc' = "receipt" /\ until' = now + ReceiptTime
              \/ pc = "send" /\ pc' = "down"
  <1>1. /\ pc \in Inside /\ UNCHANGED <<now, lock, view, iterStart, scanned, visited>>
        /\ (~PoolGate => UNCHANGED <<alarm, queue, told, run>>)
    BY DEF PoolGate, Decide, Send, BetAnswered, Inside, chain, alerts
  <1>2. now \in Nat /\ view \in 1 .. Len(lock) /\ FetchTime \in Nat /\ ReceiptTime \in Nat
    BY <1>1, Numbers, LoopConstants
  <1>3. \/ SleepAndClaim /\ pc # "send"
        \/ pc = "gate" /\ GoTo("decide", now + FetchTime)
        \/ pc = "decide" /\ At("send") /\ ~TooLate
        \/ pc = "send" /\ GoTo("receipt", now + ReceiptTime)
        \/ pc = "send" /\ At("down")
    BY DEF PoolGate, Decide, Send, BetAnswered
  <1>4. CASE SleepAndClaim /\ pc # "send"
    <2>1. /\ pc' = "asleep" /\ until' \in Nat /\ until' >= now
          /\ until' = IF lock[view] + ClaimDelay > now THEN lock[view] + ClaimDelay ELSE now
      BY <1>2, <1>4, SleepIsUntilClaim DEF TypeInv
    <2>2. now <= until'
      BY <1>2, <2>1
    <2>3. QED
      BY <1>1, <1>4, <2>1, <2>2
  <1>5. ASSUME NEW p, NEW d \in Nat, GoTo(p, now + d)
        PROVE  pc' = p /\ until' = now + d /\ now <= until'
    <2> DEFINE t == now + d
    <2>1. t \in Nat /\ t >= now /\ GoTo(p, t)
      BY <1>2, <1>5
    <2> HIDE DEF t
    <2>2. pc' = p /\ until' = IF t > now THEN t ELSE now
      BY <1>2, <2>1, GoToIsLater
    <2>3. until' = t /\ now <= until'
      BY <1>2, <2>1, <2>2, SMTT(30)
    <2>4. QED
      BY <2>2, <2>3 DEF t
  <1>6. CASE pc = "gate" /\ GoTo("decide", now + FetchTime)
    BY <1>1, <1>2, <1>5, <1>6
  <1>7. CASE pc = "send" /\ GoTo("receipt", now + ReceiptTime)
    BY <1>1, <1>2, <1>5, <1>7
  <1>8. CASE \/ pc = "decide" /\ At("send") /\ ~TooLate
             \/ pc = "send" /\ At("down")
    <2>1. \/ pc = "decide" /\ pc' = "send" /\ until' = now /\ ~TooLate
          \/ pc = "send" /\ pc' = "down" /\ until' = now
      BY <1>2, <1>8, AtIsNow
    <2>2. now <= until'
      BY <1>2, <2>1
    <2>3. ~TooLate => now < lock[view]
      <3>1. lock[view] \in Nat
        BY <1>2, LocksAreTimes DEF TypeInv
      <3> DEFINE t == lock[view]
      <3>2. t \in Nat /\ (~TooLate => ~(now >= t))
        BY <3>1 DEF TooLate
      <3> HIDE DEF t
      <3>3. ~TooLate => now < t
        BY <1>2, <3>2
      <3>4. QED
        BY <3>3 DEF t
    <2>4. QED
      BY <1>1, <2>1, <2>2, <2>3
  <1>9. QED
    BY <1>3, <1>4, <1>6, <1>7, <1>8

\* The end of an iteration, and of a process.
LEMMA RestMoves ==
    ASSUME LoopAssumption, AlarmAssumption, TypeInv, Wake \/ Pace \/ StartIteration \/ Crash
    PROVE  /\ UNCHANGED <<now, lock, view, scanned, visited>>
           /\ UNCHANGED <<alarm, queue, told, run>>
           /\ now <= until'
           /\ \/ /\ pc = "asleep" /\ pc' = "realign" /\ until <= now /\ until' = now
                 /\ iterStart' = iterStart
              \/ /\ pc = "pace" /\ pc' = "top" /\ iterStart' = iterStart
                 /\ until' = IF iterStart + Floor > now THEN iterStart + Floor ELSE now
              \/ pc = "top" /\ pc' = "align" /\ until <= now /\ until' = now
              \/ pc' = "down" /\ faults' # 0
  <1>1. /\ UNCHANGED <<now, lock, view, scanned, visited>>
        /\ UNCHANGED <<alarm, queue, told, run>>
    BY DEF Wake, Pace, StartIteration, Crash, chain, alerts
  <1>2. now \in Nat /\ until \in Nat /\ iterStart \in Nat /\ Floor \in Nat
    BY Numbers, LoopConstants
  <1>3. CASE Wake \/ StartIteration
    <2>1. \/ pc = "asleep" /\ At("realign") /\ iterStart' = iterStart
          \/ pc = "top" /\ At("align")
      BY <1>3 DEF Wake, StartIteration
    <2>2. /\ until' = now
          /\ \/ pc = "asleep" /\ pc' = "realign" /\ iterStart' = iterStart
             \/ pc = "top" /\ pc' = "align"
      BY <1>2, <2>1, AtIsNow
    <2>3. until <= now /\ now <= until'
      BY <1>2, <1>3, <2>2 DEF Wake, StartIteration, Due
    <2>4. QED
      BY <1>1, <2>2, <2>3
  <1>4. CASE Pace
    <2> DEFINE t == iterStart + Floor
    <2>1. pc = "pace" /\ GoTo("top", t) /\ iterStart' = iterStart /\ t \in Int
      BY <1>2, <1>4 DEF Pace, FloorEnd
    <2> HIDE DEF t
    <2>2. pc' = "top" /\ until' = IF t > now THEN t ELSE now
      BY <1>2, <2>1, GoToIsLater
    <2>3. now <= until'
      BY <1>2, <2>1, <2>2
    <2>4. QED
      BY <1>1, <2>1, <2>2, <2>3 DEF t
  <1>5. CASE Crash
    <2>1. At("down") /\ faults' = faults + 1
      BY <1>5 DEF Crash, Fault
    <2>2. pc' = "down" /\ until' = now
      BY <1>2, <2>1, AtIsNow
    <2>3. faults' # 0
      BY <2>1 DEF TypeInv, FaultsTyped
    <2>4. now <= until'
      BY <1>2, <2>2
    <2>5. QED
      BY <1>1, <2>2, <2>3, <2>4
  <1>6. QED
    BY <1>3, <1>4, <1>5

LEMMA BootMoves ==
    ASSUME TypeInv, Boot
    PROVE  /\ pc' = "top" /\ until' = now /\ now' = now /\ lock' = lock
           /\ view' = 0 /\ iterStart' = now /\ scanned' = FALSE /\ visited' = {}
           /\ alarm' = NewAlarm /\ queue' = <<>> /\ told' = FALSE /\ run' = 0
  <1>1. now \in Nat
    BY Numbers
  <1>2. pc' = "top" /\ until' = now
    BY <1>1, AtIsNow DEF Boot
  <1>3. QED
    BY <1>2 DEF Boot, chain

LEMMA ChainMoves ==
    ASSUME TypeInv, Roll \/ Mine \/ Evict
    PROVE  /\ UNCHANGED <<now, pc, until, view, iterStart, scanned, visited, nonce>>
           /\ UNCHANGED <<alarm, queue, told, run>>
           /\ \/ lock' = lock
              \/ lock' = Append(lock, now + Interval) /\ now >= lock[Len(lock)]
  BY DEF Roll, Mine, Evict, alerts, Tip

-----------------------------------------------------------------------------
(* The clock.                                                              *)

LEMMA StepKeepsClock ==
    ASSUME LoopAssumption, AlarmAssumption, TypeInv, ClockInv, [Next]_vars
    PROVE  ClockInv'
  <1>1. now \in Nat /\ until \in Nat /\ Interval \in Nat /\ RollDelay \in Nat
    BY Numbers, LoopConstants
  <1>2. lock \in Seq(Nat) /\ Len(lock) \in Nat /\ Len(lock) >= 3
    BY Numbers
  <1>3. \A i \in 1 .. Len(lock) : lock[i] \in Nat
    BY <1>2, ElementOfSeq
  <1>4. \A i \in 1 .. Len(lock) - 1 : lock[i] <= now /\ lock[i] + Interval <= lock[i + 1]
    BY DEF ClockInv
  <1>5. now <= lock[Len(lock)] + RollDelay /\ (pc # "down" => now <= until)
    BY DEF ClockInv
  <1>6. CASE Roll
    <2> DEFINE n == Len(lock)
               new == now + Interval
    <2>1. lock' = Append(lock, new) /\ now >= lock[n] /\ now' = now /\ until' = until /\ pc' = pc
      BY <1>6 DEF Roll, Tip
    <2>2. new \in Nat
      BY <1>1
    <2>3. Len(lock') = n + 1 /\ lock'[n + 1] = new /\ (\A i \in 1 .. n : lock'[i] = lock[i])
      BY <1>2, <2>1, <2>2, AppendProperties
    <2>4. n \in Nat /\ n \in 1 .. n /\ n + 1 - 1 = n
      BY <1>2
    <2>5. ASSUME NEW i \in 1 .. n
          PROVE  lock'[i] <= now /\ lock'[i] + Interval <= lock'[i + 1]
      <3> HIDE DEF n
      <3>1. CASE i = n
        <4> DEFINE t == lock[n]
        <4>1. t \in Nat /\ t <= now
          BY <1>1, <1>3, <2>1, <2>4 DEF n
        <4>2. lock'[i] = t /\ lock'[i + 1] = new
          BY <2>3, <2>4, <3>1
        <4> HIDE DEF t
        <4>3. t + Interval <= new
          BY <1>1, <4>1
        <4>4. QED
          BY <4>1, <4>2, <4>3
      <3>2. CASE i # n
        <4>1. i \in 1 .. n - 1 /\ i + 1 \in 1 .. n /\ i \in 1 .. n
          BY <2>4, <3>2
        <4>2. lock[i] <= now /\ lock[i] + Interval <= lock[i + 1]
          BY <1>4, <4>1 DEF n
        <4>3. lock'[i] = lock[i] /\ lock'[i + 1] = lock[i + 1]
          BY <2>3, <4>1
        <4>4. QED
          BY <4>2, <4>3
      <3>3. QED
        BY <3>1, <3>2
    <2>6. now <= new + RollDelay
      BY <1>1
    <2>7. Len(lock') - 1 = n
      BY <2>3, <2>4
    <2>8. now' <= lock'[Len(lock')] + RollDelay
      BY <2>1, <2>3, <2>6
    <2>9. \A i \in 1 .. Len(lock') - 1 : lock'[i] <= now' /\ lock'[i] + Interval <= lock'[i + 1]
      BY <2>1, <2>5, <2>7
    <2> HIDE DEF n, new
    <2>10. pc' # "down" => now' <= until'
      BY <1>5, <2>1
    <2>11. QED
      BY <2>8, <2>9, <2>10 DEF ClockInv
  <1>7. CASE Tick
    <2>1. now' = now + 1 /\ lock' = lock /\ until' = until /\ pc' = pc /\ (pc # "down" => now < until)
      BY <1>7, TickMoves
    <2> DEFINE t == lock[Len(lock)]
    <2>2. t \in Nat
      BY <1>2, <1>3
    <2>3. now < t + RollDelay
      BY <1>7 DEF Tick, Tip
    <2> HIDE DEF t
    <2>4. now' <= t + RollDelay /\ (pc' # "down" => now' <= until')
      BY <1>1, <2>1, <2>2, <2>3
    <2>5. ASSUME NEW i \in 1 .. Len(lock) - 1
          PROVE  lock[i] <= now'
      <3> DEFINE s == lock[i]
      <3>1. i \in 1 .. Len(lock)
        BY <1>2
      <3>2. s \in Nat /\ s <= now
        BY <1>3, <1>4, <3>1
      <3> HIDE DEF s
      <3>3. s <= now'
        BY <1>1, <2>1, <3>2
      <3>4. QED
        BY <3>3 DEF s
    <2>6. \A i \in 1 .. Len(lock) - 1 : lock[i] + Interval <= lock[i + 1]
      BY <1>4
    <2>7. QED
      BY <2>1, <2>4, <2>5, <2>6 DEF t, ClockInv
  <1>8. ASSUME now' = now, lock' = lock, pc' # "down" => now <= until'
        PROVE  ClockInv'
    BY <1>4, <1>5, <1>8 DEF ClockInv
  <1>9. CASE Mine \/ Evict \/ UNCHANGED vars
    BY <1>5, <1>8, <1>9 DEF Mine, Evict, vars, chain
  <1>10. CASE Handshake \/ HandshakeFails
    BY <1>8, <1>10, HandshakeMoves
  <1>11. CASE ClaimNothing \/ Claim \/ ClaimAnswered
    BY <1>8, <1>11, ClaimMoves
  <1>12. CASE ClaimFirst
    BY <1>8, <1>12, ClaimFirstMoves
  <1>13. CASE Flush \/ Post
    BY <1>8, <1>13, AlertMoves
  <1>14. CASE Preflight
    BY <1>8, <1>14, PreflightMoves
  <1>15. CASE PoolGate \/ Decide \/ Send \/ BetAnswered
    BY <1>8, <1>15, DecisionMoves
  <1>16. CASE Wake \/ Pace \/ StartIteration \/ Crash
    BY <1>8, <1>16, RestMoves
  <1>17. CASE Boot
    BY <1>1, <1>8, <1>17, BootMoves
  <1>18. QED
    BY <1>6, <1>7, <1>9, <1>10, <1>11, <1>12, <1>13, <1>14, <1>15, <1>16, <1>17 DEF Next

LEMMA StartOfClock ==
    ASSUME LoopAssumption, AlarmAssumption, Init
    PROVE  ClockInv
  <1>1. Interval \in Nat /\ RollDelay \in Nat
    BY LoopConstants
  <1>2. now = 2 * Interval /\ lock = <<Interval, 2 * Interval, 3 * Interval>> /\ pc = "down"
    BY DEF Init
  <1>3. Len(lock) = 3 /\ lock[1] = Interval /\ lock[2] = 2 * Interval /\ lock[3] = 3 * Interval
    BY <1>2
  <1>4. \A i \in 1 .. 2 : lock[i] <= now /\ lock[i] + Interval <= lock[i + 1]
    BY <1>1, <1>2, <1>3
  <1>5. now <= 3 * Interval + RollDelay
    BY <1>1, <1>2
  <1>6. QED
    BY <1>2, <1>3, <1>4, <1>5 DEF ClockInv

\* Types and clock together.
LoopInv == TypeInv /\ ClockInv

LEMMA LoopStarts ==
    ASSUME LoopAssumption, AlarmAssumption, Init
    PROVE  LoopInv
  BY StartIsTyped, StartOfClock DEF LoopInv

LEMMA StepKeepsLoop ==
    ASSUME LoopAssumption, AlarmAssumption, LoopInv, [Next]_vars
    PROVE  LoopInv'
  BY StepKeepsType, StepKeepsClock DEF LoopInv

-----------------------------------------------------------------------------
(* Bets.                                                                   *)

LEMMA StepKeepsSend ==
    ASSUME LoopAssumption, AlarmAssumption, LoopInv, SendInv, [Next]_vars
    PROVE  SendInv'
  <1>0. TypeInv /\ ClockInv
    BY DEF LoopInv
  <1>1. now \in Nat /\ until \in Nat
    BY <1>0, Numbers
  <1> SUFFICES ASSUME pc' = "send"
               PROVE  now' < lock'[view'] /\ until' <= now'
    BY DEF SendInv
  <1>2. CASE Decide
    <2>1. pc = "decide" /\ UNCHANGED <<now, lock, view>> /\ until' = now /\ now < lock[view]
      <3>1. pc = "decide"
        BY <1>2 DEF Decide
      <3>2. QED
        BY <1>0, <1>2, <3>1, DecisionMoves
    <2>2. now' < lock'[view']
      BY <2>1
    <2>3. until' <= now'
      BY <1>1, <2>1
    <2>4. QED
      BY <2>2, <2>3
  <1>3. pc # "send" => Decide
    <2>1. CASE Handshake \/ HandshakeFails
      BY <1>0, <2>1, HandshakeMoves
    <2>2. CASE ClaimNothing \/ Claim \/ ClaimAnswered
      BY <1>0, <2>2, ClaimMoves
    <2>3. CASE ClaimFirst \/ Flush \/ Post \/ Preflight
      BY <1>0, <2>3, ClaimFirstMoves, AlertMoves, PreflightMoves
    <2>4. CASE PoolGate \/ Send \/ BetAnswered
      <3>1. pc # "decide"
        BY <2>4 DEF PoolGate, Send, BetAnswered
      <3>2. QED
        BY <1>0, <2>4, <3>1, DecisionMoves
    <2>5. CASE Wake \/ Pace \/ StartIteration \/ Crash
      BY <1>0, <2>5, RestMoves
    <2>6. CASE Boot
      BY <1>0, <2>6, BootMoves
    <2>7. CASE Tick \/ Roll \/ Mine \/ Evict \/ UNCHANGED vars
      BY <2>7 DEF Tick, Roll, Mine, Evict, vars
    <2>8. QED
      BY <2>1, <2>2, <2>3, <2>4, <2>5, <2>6, <2>7 DEF Next
  <1>4. CASE pc = "send"
    <2>1. view \in 1 .. Len(lock) /\ now < lock[view] /\ until <= now
      BY <1>0, <1>4, Numbers DEF SendInv, Inside
    <2>2. ~Tick
      <3>1. until <= now => ~(now < until)
        BY <1>1
      <3>2. QED
        BY <1>4, <2>1, <3>1 DEF Tick
    <2>3. CASE Roll
      <3>1. lock' = Append(lock, now + Interval) /\ UNCHANGED <<now, until, view>>
        BY <2>3 DEF Roll
      <3>2. lock \in Seq(Nat) /\ now + Interval \in Nat
        <4>1. Interval \in Nat
          BY LoopConstants
        <4>2. now + Interval \in Nat
          BY <1>1, <4>1
        <4>3. QED
          BY <1>0, <4>2, Numbers
      <3>3. lock'[view] = lock[view]
        BY <2>1, <3>1, <3>2, AppendProperties
      <3>4. now' < lock'[view'] /\ until' <= now'
        <4>1. now' = now /\ until' = until /\ lock'[view'] = lock[view]
          BY <3>1, <3>3
        <4>2. QED
          BY <2>1, <4>1, Zenon
      <3>5. QED
        BY <3>4
    <2>4. CASE Mine \/ Evict \/ UNCHANGED vars
      <3>1. UNCHANGED <<now, until, lock, view>>
        BY <2>4 DEF Mine, Evict, vars, chain
      <3>2. QED
        BY <2>1, <3>1, Zenon
    <2>5. pc' # "send" \/ Roll \/ Mine \/ Evict \/ UNCHANGED vars
      <3>1. CASE Handshake \/ HandshakeFails \/ Wake \/ Pace \/ StartIteration \/ Crash
        BY <1>0, <1>4, <3>1, HandshakeMoves, RestMoves
      <3>2. CASE \/ ClaimNothing \/ Claim \/ ClaimAnswered \/ ClaimFirst \/ Flush \/ Post
                 \/ Preflight \/ PoolGate \/ Decide \/ BetAnswered \/ Boot
        BY <1>4, <3>2 DEF ClaimNothing, Claim, ClaimAnswered, ClaimFirst, Flush, Post,
                          Preflight, PoolGate, Decide, BetAnswered, Boot, Scanning
      <3>3. CASE Send
        BY <1>0, <1>4, <3>3, DecisionMoves
      <3>4. QED
        BY <2>2, <3>1, <3>2, <3>3 DEF Next
    <2>6. QED
      BY <2>3, <2>4, <2>5
  <1>5. QED
    BY <1>2, <1>3, <1>4

\* A bet goes out for the round that is open on the chain (engine.py:1820-1850):
\* the deadline the bot compares its clock with is the lock the contract keeps.
THEOREM SendsSound == Spec => []SendsAreForTheOpenRound
  <1>1. Init => LoopInv /\ SendInv
    BY LoopAssumption, AlarmAssumption, LoopStarts DEF Init, SendInv
  <1>2. LoopInv /\ SendInv /\ [Next]_vars => LoopInv' /\ SendInv'
    BY LoopAssumption, AlarmAssumption, StepKeepsLoop, StepKeepsSend
  <1>3. LoopInv /\ SendInv => SendsAreForTheOpenRound
    <2> SUFFICES ASSUME LoopInv, SendInv, pc = "send"
                 PROVE  view = Tip /\ now < lock[view]
      BY DEF SendsAreForTheOpenRound
    <2>1. view \in 1 .. Len(lock) /\ now < lock[view] /\ now \in Nat /\ Len(lock) \in Nat
      BY Numbers DEF SendInv, LoopInv, Inside
    <2>2. lock[view] \in Nat
      BY <2>1, Numbers, ElementOfSeq DEF LoopInv
    <2> DEFINE t == lock[view]
    <2>3. view \in 1 .. Len(lock) - 1 => t <= now
      BY DEF LoopInv, ClockInv
    <2>4. t \in Nat /\ now < t /\ now \in Nat
      BY <2>1, <2>2
    <2> HIDE DEF t
    <2>5. view \notin 1 .. Len(lock) - 1
      BY <2>3, <2>4
    <2>6. view = Len(lock)
      BY <2>1, <2>5
    <2>7. QED
      BY <2>1, <2>6 DEF Tip
  <1>4. QED
    BY <1>1, <1>2, <1>3, PTL DEF Spec

-----------------------------------------------------------------------------
(* Visits.                                                                 *)

\* A verdict is about the round in view.
LEMMA RecordSees ==
    ASSUME NEW E, NEW T, NEW a \in Alarms(E, T), NEW ready \in BOOLEAN, NEW e, NEW t
    PROVE  Record(a, ready, e, t).lastSeen \in {a.lastSeen, e}
  <1>1. RecordReady(a).lastSeen = a.lastSeen
    BY DEF RecordReady, Alarms
  <1>2. RecordBlocked(a, e, t).lastSeen \in {a.lastSeen, e}
    <2> DEFINE b == [a EXCEPT !.lastSeen = e, !.streak = @ + 1]
               c == [b EXCEPT !.alerting = TRUE, !.lastAlert = t]
    <2>1. RecordBlocked(a, e, t) \in {a, b, c}
      BY DEF RecordBlocked
    <2>2. b.lastSeen = e
      BY DEF Alarms
    <2>3. c.lastSeen = e
      BY <2>2 DEF Alarms
    <2> HIDE DEF b, c
    <2>4. QED
      BY <2>1, <2>2, <2>3
  <1>3. QED
    BY <1>1, <1>2 DEF Record

LEMMA GateSees ==
    ASSUME TypeInv, PoolGate
    PROVE  alarm'.lastSeen \in {alarm.lastSeen, view}
  <1>1. PICK ready \in BOOLEAN : alarm' = Record(alarm, ready, view, now)
    BY DEF PoolGate
  <1>2. QED
    BY <1>1, RecordSees DEF TypeInv, AlertsTyped

LEMMA StepKeepsVisit ==
    ASSUME LoopAssumption, AlarmAssumption, LoopInv, VisitInv, [Next]_vars
    PROVE  VisitInv'
  <1>0. TypeInv /\ ClockInv
    BY DEF LoopInv
  <1>n. now \in Nat /\ until \in Nat /\ view \in Nat /\ view <= Len(lock) /\ Len(lock) \in Nat
    BY <1>0, Numbers
  <1>l. \A i \in 1 .. Len(lock) : lock[i] \in Nat
    BY <1>0, LocksAreTimes DEF TypeInv
  <1>s. visited \subseteq 1 .. Len(lock)
    BY <1>0 DEF TypeInv, ThreadTyped
  <1>v. view \in visited => lock[view] \in Nat
    BY <1>l, <1>s
  \* The thread leaves the round, or goes on where it stands.
  <1>1. ASSUME UNCHANGED <<lock, view, visited, alarm>>, now <= now', pc' # "gate",
               pc' \in Ahead => pc \in Ahead,
               pc' \in Inside => pc \in Inside,
               pc' = "asleep" /\ view \in visited => lock[view] <= until',
               pc' \in Behind \ {"asleep"} /\ view \in visited => lock[view] <= now'
        PROVE  VisitInv'
    BY <1>1 DEF VisitInv
  <1>2. CASE Tick
    <2>1. now' = now + 1 /\ UNCHANGED <<lock, pc, until, view, visited, alarm>>
      BY <1>0, <1>2, TickMoves
    <2>2. pc \in Behind \ {"asleep"} /\ view \in visited => lock[view] <= now'
      <3> SUFFICES ASSUME pc \in Behind \ {"asleep"}, view \in visited
                   PROVE  lock[view] <= now'
        OBVIOUS
      <3> DEFINE t == lock[view]
      <3>1. t \in Nat /\ t <= now
        BY <1>v DEF VisitInv
      <3> HIDE DEF t
      <3>2. t <= now'
        BY <1>n, <2>1, <3>1
      <3>3. QED
        BY <3>2 DEF t
    <2>3. QED
      BY <2>1, <2>2 DEF VisitInv
  <1>3. CASE Roll
    <2>1. lock' = Append(lock, now + Interval) /\ UNCHANGED <<now, pc, until, view, visited, alarm>>
      BY <1>3 DEF Roll, alerts
    <2>2. now + Interval \in Nat
      <3>1. Interval \in Nat
        BY LoopConstants
      <3>2. QED
        BY <1>n, <3>1
    <2>3. \A i \in 1 .. Len(lock) : lock'[i] = lock[i]
      <3>1. lock \in Seq(Nat)
        BY <1>0, Numbers
      <3>2. QED
        BY <2>1, <2>2, <3>1, AppendProperties
    <2>4. view \in visited => lock'[view] = lock[view]
      BY <1>s, <2>3
    <2>5. QED
      BY <2>1, <2>4 DEF VisitInv
  <1>4. CASE Mine \/ Evict \/ UNCHANGED vars
    <2>1. UNCHANGED <<now, lock, pc, until, view, visited, alarm>>
      BY <1>4 DEF Mine, Evict, vars, chain, alerts
    <2>2. QED
      BY <2>1 DEF VisitInv
  <1>5. CASE Handshake \/ HandshakeFails
    <2>1. /\ pc \in {"align", "realign"} /\ UNCHANGED <<now, lock, visited, alarm>>
          /\ \/ /\ lock[Len(lock)] > now
                /\ pc = "align" /\ view' = Len(lock) /\ pc' \in {"arranged", "firstScan"}
             \/ pc' = "claim" /\ view' = view
             \/ view' = view /\ pc' \in {pc, "down"}
      BY <1>0, <1>5, HandshakeMoves
    <2>2. view \in visited => lock[view] <= now
      BY <2>1 DEF VisitInv, Behind
    <2>3. CASE /\ lock[Len(lock)] > now
               /\ pc = "align" /\ view' = Len(lock) /\ pc' \in {"arranged", "firstScan"}
      <3>1. Len(lock) \notin visited
        <4> SUFFICES ASSUME Len(lock) \in visited
                     PROVE  FALSE
          OBVIOUS
        <4>1. Len(lock) <= view
          BY DEF VisitInv
        <4>2. view = Len(lock)
          BY <1>n, <4>1
        <4> DEFINE t == lock[view]
        <4>3. t \in Nat /\ t <= now /\ t > now
          BY <1>v, <2>2, <2>3, <4>2
        <4> HIDE DEF t
        <4>4. QED
          BY <1>n, <4>3
      <3>2. \A e \in visited : e <= Len(lock)
        BY <1>s, <1>n
      <3>3. QED
        BY <2>1, <2>3, <3>1, <3>2 DEF VisitInv, Ahead, Inside, Behind
    <2>4. CASE view' = view /\ pc' \in {"claim", pc, "down"}
      <3>1. pc' \in {"claim", "align", "realign", "down"}
        BY <2>1, <2>4
      <3>2. now <= now' /\ UNCHANGED <<lock, view, visited, alarm>>
        BY <1>n, <2>1, <2>4
      <3>3. view \in visited => lock[view] <= now'
        BY <2>1, <2>2
      <3>4. QED
        BY <1>1, <3>1, <3>2, <3>3 DEF Ahead, Inside, Behind
    <2>5. QED
      BY <2>1, <2>3, <2>4
  <1>6. CASE ClaimNothing \/ Claim \/ ClaimAnswered
    <2>1. /\ UNCHANGED <<now, lock, view, visited, alarm>>
          /\ \/ pc \in Ahead /\ pc' \in {"firstWait", "arranged"}
             \/ pc \in {"claim", "claimWait"} /\ pc' \in {"claimWait", "pace"}
      BY <1>0, <1>6, ClaimMoves DEF Ahead
    <2>2. QED
      BY <1>1, <1>n, <2>1 DEF VisitInv, Ahead, Inside, Behind
  <1>7. CASE ClaimFirst
    <2>1. /\ UNCHANGED <<now, lock, view, visited, alarm>>
          /\ pc = "arranged" /\ pc' \in {"asleep", "flush"}
      BY <1>0, <1>7, ClaimFirstMoves
    <2>2. QED
      BY <1>1, <1>n, <2>1 DEF VisitInv, Ahead, Inside, Behind
  <1>8. CASE Flush \/ Post
    <2>1. /\ UNCHANGED <<now, lock, view, visited, alarm>>
          /\ pc \in {"flush", "post"} /\ pc' \in {"post", "ladder"}
      BY <1>0, <1>8, AlertMoves
    <2>2. QED
      BY <1>1, <1>n, <2>1 DEF VisitInv, Ahead, Inside, Behind
  <1>9. CASE Preflight
    <2>1. /\ UNCHANGED <<now, lock, view, alarm>> /\ visited' = visited \cup {view}
          /\ pc = "ladder"
          /\ \/ pc' \in {"down", "gate"}
             \/ pc' = "asleep" /\ lock[view] <= until'
      BY <1>0, <1>9, PreflightMoves
    <2>2. view \notin visited /\ view # 0
      BY <1>0, <1>n, <2>1, Numbers DEF VisitInv, Ahead
    <2>3. \A e \in visited' : e <= view
      BY <1>n, <2>1 DEF VisitInv
    <2>4. QED
      BY <2>1, <2>2, <2>3 DEF VisitInv, Ahead, Inside, Behind
  <1>10. CASE PoolGate \/ Decide \/ Send \/ BetAnswered
    <2>1. /\ pc \in Inside /\ UNCHANGED <<now, lock, view, visited>>
          /\ \/ /\ pc' = "asleep"
                /\ until' = IF lock[view] + ClaimDelay > now THEN lock[view] + ClaimDelay ELSE now
             \/ pc' \in {"decide", "send", "receipt", "down"}
          /\ (~PoolGate => UNCHANGED alarm)
      BY <1>0, <1>10, DecisionMoves
    <2>2. view \in visited
      BY <2>1 DEF VisitInv
    <2>3. pc' = "asleep" => lock[view] <= until'
      <3> SUFFICES ASSUME pc' = "asleep"
                   PROVE  lock[view] <= until'
        OBVIOUS
      <3> DEFINE t == lock[view]
      <3>1. t \in Nat /\ until' = IF t + ClaimDelay > now THEN t + ClaimDelay ELSE now
        BY <1>v, <2>1, <2>2
      <3> HIDE DEF t
      <3>2. ClaimDelay \in Nat
        BY LoopConstants
      <3>3. t <= until'
        BY <1>n, <3>1, <3>2
      <3>4. QED
        BY <3>3 DEF t
    <2>4. alarm'.lastSeen \in visited \cup {0}
      <3>1. alarm'.lastSeen \in {alarm.lastSeen, view}
        BY <1>0, <2>1, GateSees
      <3>2. QED
        BY <2>2, <3>1 DEF VisitInv
    <2>5. QED
      BY <2>1, <2>2, <2>3, <2>4 DEF VisitInv, Ahead, Inside, Behind
  <1>11. CASE Wake \/ Pace \/ StartIteration \/ Crash
    <2>1. /\ UNCHANGED <<now, lock, view, visited, alarm>>
          /\ \/ pc = "asleep" /\ pc' = "realign" /\ until <= now
             \/ pc = "pace" /\ pc' = "top"
             \/ pc = "top" /\ pc' = "align"
             \/ pc' = "down"
      BY <1>0, <1>11, RestMoves
    <2>2. pc = "asleep" /\ until <= now /\ view \in visited => lock[view] <= now
      <3> SUFFICES ASSUME pc = "asleep", until <= now, view \in visited
                   PROVE  lock[view] <= now
        OBVIOUS
      <3> DEFINE t == lock[view]
      <3>1. t \in Nat /\ t <= until
        BY <1>v DEF VisitInv
      <3> HIDE DEF t
      <3>2. t <= now
        BY <1>n, <3>1
      <3>3. QED
        BY <3>2 DEF t
    <2>3. QED
      BY <1>1, <1>n, <2>1, <2>2 DEF VisitInv, Ahead, Inside, Behind
  <1>12. CASE Boot
    <2>1. pc' = "top" /\ visited' = {} /\ alarm' = NewAlarm
      BY <1>0, <1>12, BootMoves
    <2>2. NewAlarm.lastSeen = 0
      BY DEF NewAlarm
    <2>3. QED
      BY <2>1, <2>2 DEF VisitInv, Ahead, Inside, Behind
  <1>13. QED
    BY <1>2, <1>3, <1>4, <1>5, <1>6, <1>7, <1>8, <1>9, <1>10, <1>11, <1>12 DEF Next

LEMMA StartOfVisits ==
    ASSUME Init
    PROVE  VisitInv
  BY DEF Init, NewAlarm, VisitInv, Ahead, Inside, Behind

LEMMA AlwaysVisited == Spec => [](LoopInv /\ VisitInv)
  <1>1. Init => LoopInv /\ VisitInv
    BY LoopAssumption, AlarmAssumption, LoopStarts, StartOfVisits
  <1>2. LoopInv /\ VisitInv /\ [Next]_vars => LoopInv' /\ VisitInv'
    BY LoopAssumption, AlarmAssumption, StepKeepsLoop, StepKeepsVisit
  <1>3. QED
    BY <1>1, <1>2, PTL DEF Spec

\* One process goes through the wakes of a round once, whatever epoch a node that
\* is behind reports (engine.py:2230-2254): a round comes into view while its
\* lock lies ahead, and a thread that has been through its wakes sleeps past it.
THEOREM VisitedOnce == Spec => []NoRoundIsVisitedTwice
  <1>1. LoopInv /\ VisitInv => NoRoundIsVisitedTwice
    BY DEF VisitInv, NoRoundIsVisitedTwice, Ahead
  <1>2. QED
    BY <1>1, AlwaysVisited, PTL

-----------------------------------------------------------------------------
(* The nonce.                                                              *)

\* A transaction of the wallet that is mined does not change its next nonce.
LEMMA MineKeepsPending ==
    ASSUME mined \in Nat, IsFiniteSet(mempool), Mine
    PROVE  Pending' = Pending
  <1> DEFINE free == {n \in mined .. mined + Cardinality(mempool) : n \notin mempool}
             left == {n \in mined' .. mined' + Cardinality(mempool') : n \notin mempool'}
  <1>1. mined \in mempool /\ mined' = mined + 1 /\ mempool' = mempool \ {mined}
    BY DEF Mine
  <1> DEFINE k == Cardinality(mempool)
  <1>2. k \in Nat /\ Cardinality(mempool') = k - 1
    BY <1>1, FS_RemoveElement, FS_CardinalityType
  <1> HIDE DEF k
  <1>3. mined' + (k - 1) = mined + k
    BY <1>1, <1>2
  <1>4. \A n : n \in mined .. mined + k /\ n # mined <=> n \in mined' .. mined' + (k - 1)
    BY <1>1, <1>2, <1>3
  <1>5. \A n : n \in mined .. mined + k /\ n \notin mempool
                 <=> n \in mined' .. mined' + (k - 1) /\ n \notin mempool'
    <2>1. \A n : n \notin mempool => n # mined
      BY <1>1
    <2>2. \A n : n \in mined' .. mined' + (k - 1) => n # mined
      BY <1>1, <1>2
    <2>3. \A n : n # mined => (n \in mempool' <=> n \in mempool)
      BY <1>1
    <2>4. QED
      BY <1>4, <2>1, <2>2, <2>3, Zenon
  <1>6. left = {n \in mined' .. mined' + (k - 1) : n \notin mempool'}
    BY <1>2, Zenon
  <1>7. free = {n \in mined .. mined + k : n \notin mempool}
    BY DEF k
  <1> HIDE DEF free, left
  <1>8. \A n : n \in free <=> n \in left
    BY <1>5, <1>6, <1>7, Zenon
  <1>9. left = free
    BY <1>8, Zenon
  <1>10. QED
    BY <1>9, Zenon DEF Pending, free, left

\* Between the preflight and the send nothing but the chain's own mining happens
\* to the wallet's transactions.
LEMMA StepKeepsNonce ==
    ASSUME LoopAssumption, AlarmAssumption, LoopInv, NonceInv, [Next]_vars
    PROVE  NonceInv'
  <1> DEFINE Counting == {"gate", "decide", "send"}
  <1> SUFFICES ASSUME ~LaggingNonce, pc' \in Counting
               PROVE  nonce' = Pending'
    BY DEF NonceInv
  <1>0. TypeInv /\ ClockInv
    BY DEF LoopInv
  <1>1. CASE pc \in Counting /\ nonce' = nonce /\ Pending' = Pending
    BY <1>1 DEF NonceInv
  <1>2. CASE Preflight
    <2>1. pc' = "gate" => nonce' \in Fetched /\ mined' = mined /\ mempool' = mempool
      BY <1>0, <1>2, PreflightMoves
    <2>2. pc' = "gate"
      BY <1>0, <1>2, PreflightMoves
    <2>3. Fetched = {Pending}
      BY DEF Fetched
    <2>4. Pending' = Pending
      BY <2>1, <2>2 DEF Pending
    <2>5. QED
      BY <2>1, <2>2, <2>3, <2>4
  <1>3. CASE Mine
    <2>1. Pending' = Pending
      BY <1>0, <1>3, MineKeepsPending DEF TypeInv, ChainTyped
    <2>2. pc' = pc /\ nonce' = nonce
      BY <1>3 DEF Mine
    <2>3. QED
      BY <1>1, <2>1, <2>2
  <1>4. CASE Evict
    BY <1>4 DEF Evict
  <1>5. CASE Tick \/ Roll \/ PoolGate \/ Decide \/ UNCHANGED vars
    <2>1. UNCHANGED <<nonce, mined, mempool>>
      BY <1>5 DEF Tick, Roll, PoolGate, Decide, vars, chain
    <2>2. pc \in Counting
      BY <1>5 DEF Tick, Roll, PoolGate, Decide, vars
    <2>3. Pending' = Pending
      BY <2>1 DEF Pending
    <2>4. QED
      BY <1>1, <2>1, <2>2, <2>3
  <1>6. CASE Handshake \/ HandshakeFails
    BY <1>0, <1>6, HandshakeMoves
  <1>7. CASE ClaimNothing \/ Claim \/ ClaimAnswered \/ ClaimFirst \/ Flush \/ Post
    BY <1>0, <1>7, ClaimMoves, ClaimFirstMoves, AlertMoves
  <1>8. CASE Send \/ BetAnswered
    <2>1. pc \in {"send", "receipt"}
      BY <1>8 DEF Send, BetAnswered
    <2>2. QED
      BY <1>0, <1>8, <2>1, DecisionMoves
  <1>9. CASE Wake \/ Pace \/ StartIteration \/ Crash
    BY <1>0, <1>9, RestMoves
  <1>10. CASE Boot
    BY <1>0, <1>10, BootMoves
  <1>11. QED
    BY <1>2, <1>3, <1>4, <1>5, <1>6, <1>7, <1>8, <1>9, <1>10 DEF Next

\* A bet is signed with the next nonce of the chain (live.py:570-575), after claims
\* that timed out, sends whose answer was lost and transactions the nodes dropped,
\* as long as the node that is asked counts what the others know.
THEOREM NonceSound == Spec => [](~LaggingNonce => BetHasTheNextNonce)
  <1>1. Init => LoopInv /\ NonceInv
    BY LoopAssumption, AlarmAssumption, LoopStarts DEF Init, NonceInv
  <1>2. LoopInv /\ NonceInv /\ [Next]_vars => LoopInv' /\ NonceInv'
    BY LoopAssumption, AlarmAssumption, StepKeepsLoop, StepKeepsNonce
  <1>3. NonceInv => (~LaggingNonce => BetHasTheNextNonce)
    BY DEF NonceInv, BetHasTheNextNonce
  <1>4. QED
    BY <1>1, <1>2, <1>3, PTL DEF Spec

-----------------------------------------------------------------------------
(* What the operator hears.                                                *)

\* Once the queue is sent, someone who has been told w believes b.
Hears(q, w, b) ==
    \/ /\ \A i \in 1 .. Len(q) : q[i] = "other"
       /\ w <=> b
    \/ \E i \in 1 .. Len(q) :
         /\ q[i] # "other"
         /\ \A j \in 1 .. Len(q) : j > i => q[j] = "other"
         /\ q[i] = "blocked" <=> b

\* Alerts of other alarms say nothing.
LEMMA OthersSayNothing ==
    ASSUME NEW q \in Seq(Words), NEW r \in Seq(Words), NEW w, NEW b, Hears(q, w, b),
           \A i \in 1 .. Len(r) : r[i] = "other"
    PROVE  Hears(q \o r, w, b)
  <1> DEFINE s == q \o r
             n == Len(q)
             m == Len(r)
  <1>1. n \in Nat /\ m \in Nat /\ Len(s) = n + m
    BY ConcatProperties
  <1>2. \A i \in 1 .. n + m : s[i] = IF i <= n THEN q[i] ELSE r[i - n]
    BY ConcatProperties
  <1>3. \A i \in 1 .. m : r[i] = "other"
    OBVIOUS
  <1>4. \/ (\A i \in 1 .. n : q[i] = "other") /\ (w <=> b)
        \/ \E i \in 1 .. n : /\ q[i] # "other"
                             /\ \A j \in 1 .. n : j > i => q[j] = "other"
                             /\ q[i] = "blocked" <=> b
    BY DEF Hears
  <1> SUFFICES \/ (\A i \in 1 .. n + m : s[i] = "other") /\ (w <=> b)
               \/ \E i \in 1 .. n + m : /\ s[i] # "other"
                                        /\ \A j \in 1 .. n + m : j > i => s[j] = "other"
                                        /\ s[i] = "blocked" <=> b
    BY <1>1, Zenon DEF Hears
  <1> HIDE DEF s, n, m
  <1>5. \A i \in 1 .. n : i \in 1 .. n + m /\ s[i] = q[i]
    <2> SUFFICES ASSUME NEW i \in 1 .. n
                 PROVE  i \in 1 .. n + m /\ s[i] = q[i]
      OBVIOUS
    <2>1. i \in 1 .. n + m /\ i <= n
      BY <1>1
    <2>2. QED
      BY <1>2, <2>1
  <1>6. \A i \in 1 .. n + m : i \in 1 .. n \/ s[i] = "other"
    <2> SUFFICES ASSUME NEW i \in 1 .. n + m, i \notin 1 .. n
                 PROVE  s[i] = "other"
      OBVIOUS
    <2>1. ~(i <= n) /\ i - n \in 1 .. m
      BY <1>1
    <2>2. QED
      BY <1>2, <1>3, <2>1
  <1>7. QED
    BY <1>4, <1>5, <1>6, Zenon

\* An alert of this alarm settles it.
LEMMA AWordIsHeard ==
    ASSUME NEW q \in Seq(Words), NEW x \in {"blocked", "recovered"}, NEW w
    PROVE  Hears(q \o <<x>>, w, x = "blocked")
  <1> DEFINE s == q \o <<x>>
             n == Len(q)
  <1>1. n \in Nat /\ Len(s) = n + 1 /\ s[n + 1] = x
    OBVIOUS
  <1>2. \A j \in 1 .. n + 1 : ~(j > n + 1)
    BY <1>1
  <1>3. n + 1 \in 1 .. Len(s) /\ s[n + 1] # "other"
    BY <1>1
  <1>4. \A j \in 1 .. Len(s) : j > n + 1 => s[j] = "other"
    BY <1>1, <1>2
  <1> HIDE DEF s, n
  <1>5. s[n + 1] = "blocked" <=> x = "blocked"
    BY <1>1
  <1>6. Hears(s, w, x = "blocked")
    BY <1>3, <1>4, <1>5, Zenon DEF Hears
  <1>7. QED
    BY <1>6 DEF s

\* To be sent a word is to have been told it.
LEMMA SentIsTold ==
    ASSUME NEW q \in Seq(Words), q # <<>>, NEW w \in BOOLEAN, NEW b, Hears(q, w, b)
    PROVE  Hears(Tail(q), IF Head(q) = "other" THEN w ELSE Head(q) = "blocked", b)
  <1> DEFINE s == Tail(q)
             n == Len(q)
             v == IF Head(q) = "other" THEN w ELSE Head(q) = "blocked"
  <1>1. n \in Nat /\ n >= 1 /\ Len(s) = n - 1 /\ Head(q) = q[1]
    OBVIOUS
  <1>2. \A i \in 1 .. n - 1 : s[i] = q[i + 1]
    BY <1>1, HeadTailProperties
  <1>3. \/ (\A i \in 1 .. n : q[i] = "other") /\ (w <=> b)
        \/ \E i \in 1 .. n : /\ q[i] # "other"
                             /\ \A j \in 1 .. n : j > i => q[j] = "other"
                             /\ q[i] = "blocked" <=> b
    BY DEF Hears
  <1>4. v = IF q[1] = "other" THEN w ELSE q[1] = "blocked"
    BY <1>1, Zenon
  <1> SUFFICES \/ (\A i \in 1 .. n - 1 : s[i] = "other") /\ (v <=> b)
               \/ \E i \in 1 .. n - 1 : /\ s[i] # "other"
                                        /\ \A j \in 1 .. n - 1 : j > i => s[j] = "other"
                                        /\ s[i] = "blocked" <=> b
    BY <1>1, Zenon DEF Hears
  <1> HIDE DEF s, n, v
  <1>5. \A i \in 1 .. n - 1 : i + 1 \in 1 .. n
    BY <1>1
  <1>6. 1 \in 1 .. n /\ \A i \in 1 .. n : i # 1 => i - 1 \in 1 .. n - 1 /\ s[i - 1] = q[i]
    <2> SUFFICES ASSUME NEW i \in 1 .. n, i # 1
                 PROVE  i - 1 \in 1 .. n - 1 /\ s[i - 1] = q[i]
      BY <1>1
    <2>1. i - 1 \in 1 .. n - 1 /\ i - 1 + 1 = i
      BY <1>1
    <2>2. QED
      BY <1>2, <2>1
  <1>7. CASE (\A i \in 1 .. n : q[i] = "other") /\ (w <=> b)
    BY <1>2, <1>4, <1>5, <1>6, <1>7, Zenon
  <1>8. ASSUME NEW i \in 1 .. n, q[i] # "other",
               \A j \in 1 .. n : j > i => q[j] = "other", q[i] = "blocked" <=> b
        PROVE  \/ (\A k \in 1 .. n - 1 : s[k] = "other") /\ (v <=> b)
               \/ \E k \in 1 .. n - 1 : /\ s[k] # "other"
                                        /\ \A j \in 1 .. n - 1 : j > k => s[j] = "other"
                                        /\ s[k] = "blocked" <=> b
    <2>1. CASE i = 1
      <3>1. \A k \in 1 .. n - 1 : k + 1 > 1
        BY <1>1
      <3>2. \A k \in 1 .. n - 1 : s[k] = "other"
        BY <1>2, <1>5, <1>8, <2>1, <3>1
      <3>3. v <=> b
        BY <1>4, <1>8, <2>1, Zenon
      <3>4. QED
        BY <3>2, <3>3
    <2>2. CASE i # 1
      <3>1. i - 1 \in 1 .. n - 1 /\ s[i - 1] = q[i]
        BY <1>6, <2>2
      <3>2. \A j \in 1 .. n - 1 : j > i - 1 => j + 1 > i
        BY <1>1
      <3>3. \A j \in 1 .. n - 1 : j > i - 1 => s[j] = "other"
        BY <1>2, <1>5, <1>8, <3>2
      <3>4. QED
        BY <1>8, <3>1, <3>3, Zenon
    <2>3. QED
      BY <2>1, <2>2
  <1>9. QED
    BY <1>3, <1>7, <1>8, Zenon

\* It is the last of the pool's words in the queue that counts.
LEMMA LastWordCounts ==
    ASSUME queue \in Seq(Words), told \in BOOLEAN, NEW b \in BOOLEAN, Hears(queue, told, b)
    PROVE  b = IF PoolWords = {} THEN told ELSE queue[Max(PoolWords)] = "blocked"
  <1>1. DOMAIN queue = 1 .. Len(queue) /\ Len(queue) \in Nat
    OBVIOUS
  <1>2. PoolWords = {i \in 1 .. Len(queue) : queue[i] # "other"}
    BY <1>1 DEF PoolWords
  <1>3. CASE (\A i \in 1 .. Len(queue) : queue[i] = "other") /\ (told <=> b)
    <2>1. PoolWords = {}
      BY <1>2, <1>3
    <2>2. QED
      BY <1>3, <2>1, Zenon
  <1>4. ASSUME NEW i \in 1 .. Len(queue), queue[i] # "other",
               \A j \in 1 .. Len(queue) : j > i => queue[j] = "other",
               queue[i] = "blocked" <=> b
        PROVE  b = IF PoolWords = {} THEN told ELSE queue[Max(PoolWords)] = "blocked"
    <2>1. i \in PoolWords
      BY <1>2, <1>4
    <2>2. \A j \in PoolWords : ~(j > i) /\ j \in Int
      BY <1>2, <1>4
    <2>3. \A j \in PoolWords : i >= j
      BY <2>2
    <2>4. \A x \in PoolWords : (\A y \in PoolWords : x >= y) => x = i
      BY <2>1, <2>2
    <2>5. Max(PoolWords) = i
      BY <2>1, <2>3, <2>4 DEF Max
    <2>6. QED
      BY <1>4, <2>1, <2>5, Zenon
  <1>5. QED
    BY <1>3, <1>4, Zenon DEF Hears

\* The alarm alerts while the run has reached the threshold.
Alerts(a) ==
    /\ a.alerting <=> a.streak >= Threshold
    /\ a.alerting <=> a.lastAlert # Never

\* A verdict on a new round is counted, and said if it changes anything.
IsSaid(a, b, ready) ==
    /\ Alerts(b) /\ b.streak = IF ready THEN 0 ELSE a.streak + 1
    /\ \/ EventOf(a, b) = <<>> /\ (a.alerting <=> b.alerting)
       \/ EventOf(a, b) = <<"blocked">> /\ b.alerting
       \/ EventOf(a, b) = <<"recovered">> /\ ~b.alerting

LEMMA VerdictIsSaid ==
    ASSUME LoopAssumption, AlarmAssumption, NEW E, NEW T, NEW a \in Alarms(E, T), Alerts(a),
           NEW ready \in BOOLEAN, NEW e, NEW t \in Nat, a.lastSeen # e,
           NEW b, b = Record(a, ready, e, t)
    PROVE  IsSaid(a, b, ready)
  <1>0. SUFFICES /\ Alerts(b) /\ b.streak = IF ready THEN 0 ELSE a.streak + 1
                 /\ \/ EventOf(a, b) = <<>> /\ (a.alerting <=> b.alerting)
                    \/ EventOf(a, b) = <<"blocked">> /\ b.alerting
                    \/ EventOf(a, b) = <<"recovered">> /\ ~b.alerting
    BY Zenon DEF IsSaid
  <1>1. Threshold \in Nat /\ Threshold > 0 /\ Realert \in Nat
    BY LoopConstants
  <1>2. a.streak \in Nat /\ a.alerting \in BOOLEAN
    BY DEF Alarms
  <1>3. CASE ready
    <2>1. b.streak = 0 /\ b.lastAlert = Never /\ b.alerting = FALSE
      BY <1>3 DEF Record, RecordReady, Alarms
    <2>2. EventOf(a, b) = IF a.alerting THEN <<"recovered">> ELSE <<>>
      BY <1>2, <2>1 DEF EventOf
    <2>3. Alerts(b)
      <3>1. ~(b.streak >= Threshold)
        BY <1>1, <2>1
      <3>2. QED
        BY <2>1, <3>1 DEF Alerts
    <2>4. QED
      BY <1>2, <1>3, <2>1, <2>2, <2>3
  <1>4. CASE ~ready
    <2> DEFINE c == [a EXCEPT !.lastSeen = e, !.streak = @ + 1]
               d == [c EXCEPT !.alerting = TRUE, !.lastAlert = t]
    <2>1. b = IF Raises(c, t) THEN d ELSE c
      BY <1>4 DEF Record, RecordBlocked
    <2>2. c.streak = a.streak + 1 /\ c.alerting = a.alerting /\ c.lastAlert = a.lastAlert
      BY DEF Alarms
    <2>3. d.streak = c.streak /\ d.alerting = TRUE /\ d.lastAlert = t
      BY DEF Alarms
    <2> HIDE DEF c, d
    <2>4. t # Never
      BY DEF Never
    <2>5. CASE Raises(c, t)
      <3>1. b = d /\ b.streak >= Threshold
        BY <2>1, <2>2, <2>3, <2>5 DEF Raises
      <3>2. Alerts(b)
        BY <2>3, <2>4, <3>1 DEF Alerts
      <3>3. CASE t = a.lastAlert
        <4>1. EventOf(a, b) = <<>>
          BY <2>3, <3>1, <3>3 DEF EventOf
        <4>2. a.alerting
          BY <2>4, <3>3 DEF Alerts
        <4>3. QED
          BY <1>4, <2>2, <2>3, <3>1, <3>2, <4>1, <4>2
      <3>4. CASE t # a.lastAlert
        <4>1. EventOf(a, b) = <<"blocked">>
          BY <2>3, <3>1, <3>4 DEF EventOf
        <4>2. QED
          BY <1>4, <2>2, <2>3, <3>1, <3>2, <4>1
      <3>5. QED
        BY <3>3, <3>4
    <2>6. CASE ~Raises(c, t)
      <3>1. b = c
        BY <2>1, <2>6
      <3>2. EventOf(a, b) = <<>>
        BY <2>2, <3>1 DEF EventOf
      <3>3. c.alerting => a.streak + 1 >= Threshold
        BY <1>1, <1>2, <2>2 DEF Alerts
      <3>4. a.streak + 1 >= Threshold => c.alerting
        BY <2>2, <2>6 DEF Raises
      <3>5. c.alerting <=> c.lastAlert # Never
        BY <2>2 DEF Alerts
      <3>6. Alerts(b)
        BY <2>2, <3>1, <3>3, <3>4, <3>5 DEF Alerts
      <3>7. QED
        BY <1>4, <2>2, <3>1, <3>2, <3>6
    <2>7. QED
      BY <2>5, <2>6
  <1>5. QED
    BY <1>3, <1>4

\* In a process that runs the alarm counts the blocked rounds, and what the
\* operator hears is whether it alerts.
SpeechInv ==
    pc # "down" =>
        /\ run = alarm.streak
        /\ Alerts(alarm)
        /\ Hears(queue, told, alarm.alerting)

LEMMA StepKeepsSpeech ==
    ASSUME LoopAssumption, AlarmAssumption, LoopInv, VisitInv, SpeechInv, [Next]_vars
    PROVE  SpeechInv'
  <1>0. TypeInv /\ ClockInv
    BY DEF LoopInv
  <1>t. /\ alarm \in Alarms(1 .. Len(lock), 0 .. MaxTime) /\ queue \in Seq(Words)
        /\ told \in BOOLEAN /\ now \in Nat
    BY <1>0, Numbers DEF TypeInv, AlertsTyped
  <1>1. CASE Post
    <2>1. /\ pc = "post" /\ queue' = Tail(queue) /\ UNCHANGED <<alarm, run>>
          /\ told' = IF Head(queue) = "other" THEN told ELSE Head(queue) = "blocked"
      BY <1>1 DEF Post
    <2>2. queue # <<>>
      BY <1>0, <2>1 DEF TypeInv
    <2>3. Hears(queue, told, alarm.alerting)
      BY <2>1 DEF SpeechInv
    <2>4. Hears(queue', told', alarm.alerting)
      BY <1>t, <2>1, <2>2, <2>3, SentIsTold
    <2>5. QED
      BY <2>1, <2>4 DEF SpeechInv
  <1>2. CASE PoolGate
    <2>1. PICK ready \in BOOLEAN, others \in 0 .. OtherAlarms :
             /\ alarm' = Record(alarm, ready, view, now)
             /\ queue' = queue \o EventOf(alarm, alarm') \o [i \in 1 .. others |-> "other"]
             /\ run' = IF ready THEN 0 ELSE run + 1
      BY <1>2 DEF PoolGate
    <2>2. pc = "gate" /\ told' = told
      BY <1>2 DEF PoolGate
    <2>3. run = alarm.streak /\ Alerts(alarm) /\ Hears(queue, told, alarm.alerting)
          /\ alarm.lastSeen # view
      BY <2>2 DEF SpeechInv, VisitInv
    <2> DEFINE E == EventOf(alarm, alarm')
               r == [i \in 1 .. others |-> "other"]
    <2>4. /\ Alerts(alarm') /\ alarm'.streak = IF ready THEN 0 ELSE alarm.streak + 1
          /\ \/ E = <<>> /\ (alarm.alerting <=> alarm'.alerting)
             \/ E = <<"blocked">> /\ alarm'.alerting
             \/ E = <<"recovered">> /\ ~alarm'.alerting
      <3>1. /\ Alerts(alarm') /\ alarm'.streak = IF ready THEN 0 ELSE alarm.streak + 1
            /\ \/ EventOf(alarm, alarm') = <<>> /\ (alarm.alerting <=> alarm'.alerting)
               \/ EventOf(alarm, alarm') = <<"blocked">> /\ alarm'.alerting
               \/ EventOf(alarm, alarm') = <<"recovered">> /\ ~alarm'.alerting
        <4>1. now \in Nat /\ alarm \in Alarms(1 .. Len(lock), 0 .. MaxTime)
          BY <1>t
        <4>2. Alerts(alarm) /\ alarm.lastSeen # view /\ alarm' = Record(alarm, ready, view, now)
          BY <2>1, <2>3
        <4>3. IsSaid(alarm, alarm', ready)
          BY <4>1, <4>2, VerdictIsSaid, Zenon
        <4>4. QED
          BY <4>3, Zenon DEF IsSaid
      <3>2. QED
        BY <3>1, Zenon
    <2>5. others \in Nat
      BY LoopConstants
    <2>6. r \in Seq(Words) /\ E \in Seq(Words) /\ \A i \in 1 .. Len(r) : r[i] = "other"
      <3>1. r \in Seq(Words)
        BY <2>5, EventsTyped, Zenon
      <3>2. E \in Seq(Words)
        BY <2>5, EventsTyped, Zenon
      <3>3. \A i \in 1 .. Len(r) : r[i] = "other"
        BY <2>5
      <3>4. QED
        BY <3>1, <3>2, <3>3
    <2>7. queue \o E \in Seq(Words)
      BY <1>t, <2>6, ConcatProperties
    <2> HIDE DEF E, r
    <2>8. Hears(queue \o E, told, alarm'.alerting)
      <3>1. CASE E = <<>> /\ (alarm.alerting <=> alarm'.alerting)
        <4>1. queue \o E = queue
          BY <1>t, <3>1, ConcatEmptySeq
        <4>2. Hears(queue, told, alarm'.alerting)
          BY <2>3, <3>1, Zenon DEF Hears
        <4>3. QED
          BY <4>1, <4>2
      <3>2. CASE E = <<"blocked">> /\ alarm'.alerting
        <4>1. Hears(queue \o <<"blocked">>, told, "blocked" = "blocked")
          BY <1>t, AWordIsHeard
        <4>2. Hears(queue \o <<"blocked">>, told, alarm'.alerting)
          BY <3>2, <4>1, Zenon DEF Hears
        <4>3. QED
          BY <3>2, <4>2
      <3>3. CASE E = <<"recovered">> /\ ~alarm'.alerting
        <4>1. Hears(queue \o <<"recovered">>, told, "recovered" = "blocked")
          BY <1>t, AWordIsHeard
        <4>2. ~("recovered" = "blocked")
          OBVIOUS
        <4>3. Hears(queue \o <<"recovered">>, told, alarm'.alerting)
          BY <3>3, <4>1, <4>2, Zenon DEF Hears
        <4>4. QED
          BY <3>3, <4>3
      <3>4. QED
        BY <2>4, <3>1, <3>2, <3>3
    <2>9. Hears(queue \o E \o r, told, alarm'.alerting)
      BY <2>6, <2>7, <2>8, OthersSayNothing
    <2>10. queue' = queue \o E \o r
      BY <2>1 DEF E, r
    <2>11. Hears(queue', told', alarm'.alerting)
      BY <2>2, <2>9, <2>10
    <2>12. run' = alarm'.streak
      BY <2>1, <2>3, <2>4
    <2>13. QED
      BY <2>4, <2>11, <2>12 DEF SpeechInv
  <1>3. CASE Boot
    <2>1. alarm' = NewAlarm /\ queue' = <<>> /\ told' = FALSE /\ run' = 0
      BY <1>0, <1>3, BootMoves
    <2>2. NewAlarm.streak = 0 /\ NewAlarm.alerting = FALSE /\ NewAlarm.lastAlert = Never
      BY DEF NewAlarm
    <2>3. ~(0 >= Threshold)
      BY LoopConstants
    <2>4. Alerts(alarm')
      BY <2>1, <2>2, <2>3 DEF Alerts
    <2>5. Hears(<<>>, FALSE, FALSE)
      BY DEF Hears
    <2>6. QED
      BY <2>1, <2>2, <2>4, <2>5 DEF SpeechInv
  <1>4. CASE pc # "down" /\ UNCHANGED <<alarm, queue, told, run>>
    BY <1>4 DEF SpeechInv
  <1>5. CASE pc = "down" /\ ~Boot
    <2>1. pc' = "down"
      BY <1>5 DEF Next, Tick, Roll, Mine, Evict, Handshake, HandshakeFails, ClaimNothing, Claim,
                  ClaimAnswered, ClaimFirst, Flush, Post, Preflight, PoolGate, Decide, Send,
                  BetAnswered, Wake, Pace, StartIteration, Crash, vars, Scanning
    <2>2. QED
      BY <2>1 DEF SpeechInv
  <1>6. CASE \/ Tick \/ Roll \/ Mine \/ Evict \/ Handshake \/ HandshakeFails
             \/ ClaimNothing \/ Claim \/ ClaimAnswered \/ ClaimFirst \/ Flush
             \/ Preflight \/ Decide \/ Send \/ BetAnswered
             \/ Wake \/ Pace \/ StartIteration \/ Crash \/ UNCHANGED vars
    <2>1. UNCHANGED <<alarm, queue, told, run>>
      BY <1>6 DEF Tick, Roll, Mine, Evict, Handshake, HandshakeFails, ClaimNothing, Claim,
                  ClaimAnswered, ClaimFirst, Flush, Preflight, Decide, Send, BetAnswered,
                  Wake, Pace, StartIteration, Crash, vars, alerts
    <2>2. CASE pc # "down"
      BY <1>4, <2>1, <2>2
    <2>3. CASE pc = "down"
      <3>1. CASE Boot
        BY <1>3, <3>1
      <3>2. QED
        BY <1>5, <2>3, <3>1
    <2>4. QED
      BY <2>2, <2>3
  <1>7. QED
    BY <1>1, <1>2, <1>3, <1>6 DEF Next

\* The last thing the operator has been told, or is about to be told, is whether
\* the pool has been blocked for the threshold of rounds or more
\* (pool_gate_alarm.py, engine.py:582-640): the alarm counts every round once,
\* and no order of deliveries and verdicts makes an old word the last one.
THEOREM OperatorSound == Spec => []OperatorIsTold
  <1>1. Init => LoopInv /\ VisitInv /\ SpeechInv
    BY LoopAssumption, AlarmAssumption, LoopStarts, StartOfVisits DEF Init, SpeechInv
  <1>2. LoopInv /\ VisitInv /\ SpeechInv /\ [Next]_vars => LoopInv' /\ VisitInv' /\ SpeechInv'
    BY LoopAssumption, AlarmAssumption, StepKeepsLoop, StepKeepsVisit, StepKeepsSpeech
  <1>3. LoopInv /\ SpeechInv => OperatorIsTold
    <2> SUFFICES ASSUME LoopInv, SpeechInv, pc # "down"
                 PROVE  run >= Threshold
                          <=> IF PoolWords = {} THEN told ELSE queue[Max(PoolWords)] = "blocked"
      BY DEF OperatorIsTold
    <2>1. queue \in Seq(Words) /\ told \in BOOLEAN
      BY DEF LoopInv, TypeInv, AlertsTyped
    <2>2. alarm.alerting \in BOOLEAN
      BY DEF LoopInv, TypeInv, AlertsTyped, Alarms
    <2>3. alarm.alerting <=> run >= Threshold
      BY DEF SpeechInv, Alerts
    <2>4. alarm.alerting = IF PoolWords = {} THEN told ELSE queue[Max(PoolWords)] = "blocked"
      BY <2>1, <2>2, LastWordCounts DEF SpeechInv
    <2>5. QED
      BY <2>3, <2>4, Zenon
  <1>4. QED
    BY <1>1, <1>2, <1>3, PTL DEF Spec

-----------------------------------------------------------------------------
(* Time.                                                                   *)

LEMMA StepKeepsScanFirst ==
    ASSUME LoopAssumption, AlarmAssumption, LoopInv, ScanFirst, [Next]_vars
    PROVE  ScanFirst'
  <1>0. TypeInv /\ ClockInv
    BY DEF LoopInv
  <1>1. CASE UNCHANGED <<pc, visited, scanned>>
    BY <1>1 DEF ScanFirst
  <1>2. CASE Handshake \/ HandshakeFails
    <2>1. /\ pc \in {"align", "realign"} /\ UNCHANGED <<scanned, visited>>
          /\ \/ pc' = IF scanned THEN "arranged" ELSE "firstScan"
             \/ pc' \in {"claim", pc, "down"}
      BY <1>0, <1>2, HandshakeMoves
    <2>2. QED
      BY <2>1 DEF ScanFirst, Ahead, Inside
  <1>3. CASE ClaimNothing \/ Claim \/ ClaimAnswered
    <2>1. /\ visited' = visited /\ scanned' = (scanned \/ pc \in {"firstScan", "claim"})
          /\ \/ pc = "firstScan" /\ pc' = "firstWait"
             \/ pc \in {"firstScan", "firstWait"} /\ pc' = "arranged"
             \/ pc \in {"claim", "claimWait"} /\ pc' \in {"claimWait", "pace"}
      BY <1>0, <1>3, ClaimMoves
    <2>2. QED
      BY <2>1 DEF ScanFirst, Ahead, Inside
  <1>4. CASE ClaimFirst
    <2>1. pc = "arranged" /\ UNCHANGED <<scanned, visited>> /\ pc' \in {"asleep", "flush"}
      BY <1>0, <1>4, ClaimFirstMoves
    <2>2. QED
      BY <2>1 DEF ScanFirst, Ahead, Inside
  <1>5. CASE Flush \/ Post
    <2>1. /\ pc \in {"flush", "post"} /\ UNCHANGED <<scanned, visited>>
          /\ pc' \in {"post", "ladder"}
      BY <1>0, <1>5, AlertMoves
    <2>2. QED
      BY <2>1 DEF ScanFirst, Ahead, Inside
  <1>6. CASE Preflight
    <2>1. pc = "ladder" /\ UNCHANGED scanned /\ pc' \in {"down", "asleep", "gate"}
      BY <1>0, <1>6, PreflightMoves
    <2>2. QED
      BY <2>1 DEF ScanFirst, Ahead, Inside
  <1>7. CASE PoolGate \/ Decide \/ Send \/ BetAnswered
    <2>1. /\ pc \in Inside /\ UNCHANGED <<scanned, visited>>
          /\ pc' \in {"asleep", "decide", "send", "receipt", "down"}
      BY <1>0, <1>7, DecisionMoves
    <2>2. QED
      BY <2>1 DEF ScanFirst, Ahead, Inside
  <1>8. CASE Wake \/ Pace \/ StartIteration \/ Crash
    <2>1. UNCHANGED <<scanned, visited>> /\ pc' \in {"realign", "top", "align", "down"}
      BY <1>0, <1>8, RestMoves
    <2>2. QED
      BY <2>1 DEF ScanFirst, Ahead, Inside
  <1>9. CASE Boot
    <2>1. pc' = "top" /\ visited' = {}
      BY <1>0, <1>9, BootMoves
    <2>2. QED
      BY <2>1 DEF ScanFirst, Ahead, Inside
  <1>10. CASE Tick \/ Roll \/ Mine \/ Evict \/ UNCHANGED vars
    <2>1. UNCHANGED <<pc, visited, scanned>>
      BY <1>10 DEF Tick, Roll, Mine, Evict, vars
    <2>2. QED
      BY <1>1, <2>1
  <1>11. QED
    BY <1>2, <1>3, <1>4, <1>5, <1>6, <1>7, <1>8, <1>9, <1>10 DEF Next

\* Alerts one round can add.
Batch == 1 + OtherAlarms

\* The delays fit into a round: first and later bound how long after its lock a
\* round can keep the thread, the first one of a process and the others; what is
\* left of the interval has room for the claim pass and the alerts, of two rounds
\* if need be, before the next ladder.
InTime(first, later) ==
    /\ RollDelay < ClaimDelay
    /\ ClaimDelay <= first /\ FetchTime <= first + Ladder
    /\ ClaimTime + FetchTime - 1 <= first /\ ReceiptTime - 1 <= first
    /\ ClaimDelay <= later /\ FetchTime + ReceiptTime <= later + Ladder
    /\ first + ClaimTime < Interval /\ later + ClaimTime < Interval /\ Floor <= Interval
    /\ first + ClaimTime + Batch * PostTime <= Interval - Ladder
    /\ later + ClaimTime + 2 * Batch * PostTime <= Interval - Ladder
    /\ Floor - 1 + 2 * Batch * PostTime <= Interval - Ladder
    /\ later + ClaimTime + Slack <= Interval
    /\ Floor - 1 + Slack <= Interval

\* e is the first round this process has visited, or it has visited none.
First(e) == visited \subseteq {e}
Overrun(first, later, e) == IF First(e) THEN first ELSE later
Backlog(e) == IF First(e) THEN Batch ELSE 2 * Batch

\* The end of an iteration, for a round that locks at l and keeps the thread for o.
Ends(l, o, t) == t <= l + o + ClaimTime \/ t < l + Floor

\* Before the first visit of a process.
BeforeFirst ==
    visited = {} =>
        /\ queue = <<>>
        /\ pc = "firstScan" => until < lock[view]
        /\ pc \in {"firstWait", "arranged", "flush"} => until < lock[view] + ClaimTime
        /\ pc # "post"
        /\ pc = "ladder" => until <= lock[view] - Ladder \/ until < lock[view] + ClaimTime

\* On the way to the wakes of a later one.
OnTheWay(first, later) ==
    visited # {} =>
        /\ pc \in Ahead => view - 1 \in visited
        /\ pc \in {"arranged", "flush"} =>
              /\ lock[view - 1] + ClaimDelay <= now
              /\ Ends(lock[view - 1], Overrun(first, later, view - 1), until)
              /\ Len(queue) <= Backlog(view - 1)
        /\ pc = "post" => until + (Len(queue) - 1) * PostTime <= lock[view] - Ladder
        /\ pc = "ladder" => until <= lock[view] - Ladder

InTheWakes(first, later) ==
    /\ pc \in Ahead \cup Inside => iterStart < lock[view]
    /\ pc \in {"ladder", "gate"} => Len(queue) <= Batch /\ (First(view) => queue = <<>>)
    /\ pc = "gate" =>
          /\ until <= now
          /\ until <= lock[view] - Ladder \/ (First(view) /\ until < lock[view] + ClaimTime)
    /\ pc \in {"decide", "send"} =>
          until <= IF First(view) THEN lock[view] + first ELSE lock[view] - Ladder + FetchTime
    /\ pc = "receipt" => until <= lock[view] + Overrun(first, later, view)
    /\ pc \in {"decide", "send", "receipt"} => Len(queue) <= Backlog(view)

\* Past the wakes.
PastTheWakes(first, later) ==
    visited # {} /\ pc \in Behind =>
        /\ view \in visited
        /\ Len(queue) <= Backlog(view)
        /\ pc # "align" => iterStart < lock[view]
        /\ lock[view] + ClaimDelay <= IF pc = "asleep" THEN until ELSE now
        /\ pc \in {"asleep", "realign", "claim"} =>
              until <= lock[view] + Overrun(first, later, view)
        /\ pc \in {"claimWait", "pace"} =>
              until <= lock[view] + Overrun(first, later, view) + ClaimTime
        /\ pc \in {"top", "align"} => Ends(lock[view], Overrun(first, later, view), until)

Timely(first, later) ==
    /\ BeforeFirst
    /\ OnTheWay(first, later)
    /\ InTheWakes(first, later)
    /\ PastTheWakes(first, later)

\* While nothing has failed the thread is in time.
TimeInv(first, later) == faults = 0 => Timely(first, later)

LEMMA TimesKeepsOrder ==
    ASSUME NEW a \in Nat, NEW b \in Nat, NEW k \in Nat, a <= b
    PROVE  a * k <= b * k
  <1>1. b - a \in Nat /\ (b - a) * k \in Nat
    OBVIOUS
  <1>2. b * k = a * k + (b - a) * k
    OBVIOUS
  <1>3. QED
    BY <1>1, <1>2

\* What the delays of one round leave of the interval.
LEMMA RoundHasRoom ==
    ASSUME LoopAssumption, AlarmAssumption,
           NEW first \in Nat, NEW later \in Nat, InTime(first, later), NEW e,
           NEW o, o = Overrun(first, later, e)
    PROVE  /\ o \in Nat /\ ClaimDelay <= o /\ o + ClaimTime < Interval
           /\ \A n \in Nat : n <= Backlog(e) =>
                 /\ n * PostTime \in Nat
                 /\ o + ClaimTime + n * PostTime <= Interval - Ladder
                 /\ Floor - 1 + n * PostTime <= Interval - Ladder
           /\ ~First(e) => o + ClaimTime + Slack <= Interval /\ Floor - 1 + Slack <= Interval
  <1>1. /\ Batch \in Nat /\ PostTime \in Nat /\ ClaimTime \in Nat /\ Interval \in Nat
        /\ Ladder \in Nat /\ Floor \in Nat
    <2>1. OtherAlarms \in Nat
      BY LoopConstants
    <2>2. QED
      BY <2>1, LoopConstants DEF Batch
  <1>2. o \in Nat /\ ClaimDelay <= o /\ o + ClaimTime < Interval
    BY DEF InTime, Overrun
  <1>3. ~First(e) => o + ClaimTime + Slack <= Interval /\ Floor - 1 + Slack <= Interval
    BY DEF InTime, Overrun
  <1> DEFINE one == Batch * PostTime
             two == 2 * Batch * PostTime
             room == IF First(e) THEN one ELSE two
  <1>4. one \in Nat /\ two \in Nat /\ one <= two
    <2>1. 2 * Batch \in Nat /\ Batch <= 2 * Batch
      BY <1>1
    <2>2. Batch * PostTime <= (2 * Batch) * PostTime
      BY <1>1, <2>1, TimesKeepsOrder
    <2>3. QED
      BY <1>1, <2>1, <2>2
  <1>5. /\ first + ClaimTime + one <= Interval - Ladder
        /\ later + ClaimTime + two <= Interval - Ladder
        /\ Floor - 1 + two <= Interval - Ladder
    BY DEF InTime
  <1>6. ASSUME NEW n \in Nat, n <= Backlog(e)
        PROVE  n * PostTime \in Nat /\ n * PostTime <= room
    <2>1. CASE First(e)
      <3>1. n * PostTime <= Batch * PostTime
        BY <1>1, <1>6, <2>1, TimesKeepsOrder DEF Backlog
      <3>2. QED
        BY <1>1, <2>1, <3>1
    <2>2. CASE ~First(e)
      <3>1. 2 * Batch \in Nat
        BY <1>1
      <3>2. n * PostTime <= (2 * Batch) * PostTime
        BY <1>1, <1>6, <2>2, <3>1, TimesKeepsOrder DEF Backlog
      <3>3. QED
        BY <1>1, <2>2, <3>2
    <2>3. QED
      BY <2>1, <2>2
  <1> HIDE DEF one, two
  <1>7. o + ClaimTime + room <= Interval - Ladder /\ Floor - 1 + room <= Interval - Ladder
        /\ room \in Nat
    BY <1>1, <1>4, <1>5 DEF Overrun
  <1> HIDE DEF room
  <1>8. ASSUME NEW n \in Nat, n <= Backlog(e)
        PROVE  /\ n * PostTime \in Nat
               /\ o + ClaimTime + n * PostTime <= Interval - Ladder
               /\ Floor - 1 + n * PostTime <= Interval - Ladder
    <2> DEFINE p == n * PostTime
    <2>1. p \in Nat /\ p <= room
      BY <1>6, <1>8
    <2> HIDE DEF p
    <2>2. o + ClaimTime + p <= Interval - Ladder /\ Floor - 1 + p <= Interval - Ladder
      BY <1>1, <1>2, <1>7, <2>1
    <2>3. QED
      BY <2>1, <2>2 DEF p
  <1>9. QED
    BY <1>2, <1>3, <1>8

\* Between the roll after the lock of a round and the lock of the next one, that
\* next one is the open one.
LEMMA NextIsOpen ==
    ASSUME LoopAssumption, AlarmAssumption, TypeInv, ClockInv, RollDelay < ClaimDelay,
           view \in 1 .. Len(lock),
           lock[view] + ClaimDelay <= now, now < lock[view] + Interval
    PROVE  view + 1 = Len(lock) /\ lock[Len(lock)] > now
  <1>1. /\ now \in Nat /\ Interval \in Nat /\ RollDelay \in Nat /\ ClaimDelay \in Nat
    BY Numbers, LoopConstants
  <1> DEFINE n == Len(lock)
             t == lock[view]
  <1>2. n \in Nat /\ view \in 1 .. n
    BY Numbers
  <1>3. t \in Nat /\ t + ClaimDelay <= now /\ now < t + Interval
    BY LocksAreTimes DEF TypeInv
  <1>4. view # n
    <2> SUFFICES ASSUME view = n
                 PROVE  FALSE
      OBVIOUS
    <2>1. now <= t + RollDelay
      BY DEF ClockInv
    <2> HIDE DEF t, n
    <2>2. QED
      BY <1>1, <1>3, <2>1
  <1>5. view \in 1 .. n - 1 /\ view + 1 \in 1 .. n
    <2> HIDE DEF n
    <2>1. QED
      BY <1>2, <1>4
  <1> DEFINE u == lock[view + 1]
  <1>6. u \in Nat
    BY <1>5, LocksAreTimes DEF TypeInv
  <1>7. t + Interval <= u
    BY <1>5 DEF ClockInv
  <1>8. u > now
    <2> HIDE DEF t, u
    <2>1. QED
      BY <1>1, <1>3, <1>6, <1>7
  <1>9. view + 1 = n
    <2> SUFFICES ASSUME view + 1 # n
                 PROVE  FALSE
      OBVIOUS
    <2>1. view + 1 \in 1 .. n - 1
      <3> HIDE DEF n
      <3>1. QED
        BY <1>2, <1>5
    <2>2. u <= now
      BY <2>1 DEF ClockInv
    <2> HIDE DEF u
    <2>3. QED
      BY <1>1, <1>6, <1>8, <2>2
  <1>10. QED
    BY <1>8, <1>9

\* Time that passes while the thread waits, and what happens on the chain.
LEMMA WaitKeepsTime ==
    ASSUME LoopAssumption, AlarmAssumption, NEW first \in Nat, NEW later \in Nat,
           LoopInv, VisitInv, Timely(first, later),
           Tick \/ Roll \/ Mine \/ Evict \/ UNCHANGED vars
    PROVE  Timely(first, later)'
  <1>0. TypeInv /\ ClockInv
    BY DEF LoopInv
  <1>1. UNCHANGED <<pc, until, view, iterStart, queue, visited>>
    BY DEF Tick, Roll, Mine, Evict, vars, alerts
  <1>2. \A i \in 1 .. Len(lock) : lock'[i] = lock[i]
    <2>1. CASE Roll
      <3>1. lock' = Append(lock, now + Interval) /\ lock \in Seq(Nat)
        BY <1>0, <2>1, Numbers DEF Roll
      <3>2. now + Interval \in Nat
        <4>1. now \in Nat /\ Interval \in Nat
          BY <1>0, Numbers, LoopConstants
        <4>2. QED
          BY <4>1
      <3>3. QED
        BY <3>1, <3>2, AppendProperties
    <2>2. CASE Tick \/ Mine \/ Evict \/ UNCHANGED vars
      BY <2>2 DEF Tick, Mine, Evict, vars, chain
    <2>3. QED
      BY <2>1, <2>2
  <1>3. \A t \in Int : t <= now => t <= now'
    <2>1. now \in Nat /\ (now' = now \/ now' = now + 1)
      BY <1>0, Numbers DEF Tick, Roll, Mine, Evict, vars
    <2>2. QED
      BY <2>1
  <1>4. pc \in Ahead \cup Inside => /\ lock'[view] = lock[view]
                                    /\ lock'[view - 1] = lock[view - 1]
                                    /\ lock[view - 1] + ClaimDelay \in Int
    <2> SUFFICES ASSUME pc \in Ahead \cup Inside
                 PROVE  /\ lock'[view] = lock[view]
                        /\ lock'[view - 1] = lock[view - 1]
                        /\ lock[view - 1] + ClaimDelay \in Int
      OBVIOUS
    <2>1. view \in 1 .. Len(lock) /\ view - 1 \in 1 .. Len(lock)
      BY <1>0, Numbers
    <2> DEFINE t == lock[view - 1]
    <2>2. t \in Nat /\ ClaimDelay \in Nat
      BY <1>0, <2>1, LocksAreTimes, LoopConstants DEF TypeInv
    <2> HIDE DEF t
    <2>3. t + ClaimDelay \in Int
      BY <2>2
    <2>4. QED
      BY <1>2, <2>1, <2>3 DEF t
  <1>5. view \in visited => lock'[view] = lock[view] /\ lock[view] + ClaimDelay \in Int
    <2> SUFFICES ASSUME view \in visited
                 PROVE  lock'[view] = lock[view] /\ lock[view] + ClaimDelay \in Int
      OBVIOUS
    <2>1. view \in 1 .. Len(lock)
      BY <1>0 DEF TypeInv, ThreadTyped
    <2> DEFINE t == lock[view]
    <2>2. t \in Nat /\ ClaimDelay \in Nat
      BY <1>0, <2>1, LocksAreTimes, LoopConstants DEF TypeInv
    <2> HIDE DEF t
    <2>3. t + ClaimDelay \in Int
      BY <2>2
    <2>4. QED
      BY <1>2, <2>1, <2>3 DEF t
  <1>6. BeforeFirst'
    BY <1>1, <1>4 DEF Timely, BeforeFirst, Ahead
  <1>7. OnTheWay(first, later)'
    BY <1>1, <1>3, <1>4 DEF Timely, OnTheWay, Ahead, Ends, Overrun, Backlog, First
  <1>8. InTheWakes(first, later)'
    <2>1. until <= now => until' <= now'
      <3>1. until \in Int
        BY <1>0, Numbers
      <3>2. QED
        BY <1>1, <1>3, <3>1
    <2>2. QED
      BY <1>1, <1>4, <2>1 DEF Timely, InTheWakes, Ahead, Inside, Overrun, Backlog, First
  <1>9. PastTheWakes(first, later)'
    BY <1>1, <1>3, <1>5 DEF Timely, PastTheWakes, Behind, Ends, Overrun, Backlog, First
  <1>10. QED
    BY <1>6, <1>7, <1>8, <1>9 DEF Timely

\* Behind the wakes of a round the thread is late by no more than the round allows.
LEMMA BehindIsBounded ==
    ASSUME LoopAssumption, AlarmAssumption, NEW first \in Nat, NEW later \in Nat,
           InTime(first, later), LoopInv, Timely(first, later), visited # {}, pc \in Behind,
           NEW t, t = lock[view], NEW o, o = Overrun(first, later, view)
    PROVE  /\ view \in visited /\ view \in 1 .. Len(lock) /\ t \in Nat
           /\ o \in Nat /\ ClaimDelay <= o /\ o + ClaimTime < Interval
           /\ Len(queue) <= Backlog(view)
           /\ pc # "align" => iterStart < t
           /\ t + ClaimDelay <= IF pc = "asleep" THEN until ELSE now
           /\ pc \in {"asleep", "realign", "claim"} => until <= t + o
           /\ pc \in {"claimWait", "pace"} => until <= t + o + ClaimTime
           /\ pc \in {"top", "align"} => Ends(t, o, until)
           /\ now \in Nat /\ until \in Nat /\ now <= until
  <1>1. view \in visited /\ view \in 1 .. Len(lock)
    BY DEF Timely, PastTheWakes, LoopInv, TypeInv, ThreadTyped
  <1>2. t \in Nat
    BY <1>1, LocksAreTimes DEF LoopInv, TypeInv
  <1>3. o \in Nat /\ ClaimDelay <= o /\ o + ClaimTime < Interval
    BY RoundHasRoom
  <1>4. now \in Nat /\ until \in Nat
    BY Numbers DEF LoopInv
  <1>5. now <= until
    BY DEF LoopInv, ClockInv, Behind
  <1>6. /\ Len(queue) <= Backlog(view)
        /\ pc # "align" => iterStart < t
        /\ t + ClaimDelay <= IF pc = "asleep" THEN until ELSE now
        /\ pc \in {"asleep", "realign", "claim"} => until <= t + o
        /\ pc \in {"claimWait", "pace"} => until <= t + o + ClaimTime
        /\ pc \in {"top", "align"} => Ends(t, o, until)
    BY DEF Timely, PastTheWakes
  <1>7. QED
    BY <1>1, <1>2, <1>3, <1>4, <1>5, <1>6

\* After a round the handshake answers at once, with the next one.
LEMMA HandshakeKeepsTime ==
    ASSUME LoopAssumption, AlarmAssumption, NEW first \in Nat, NEW later \in Nat,
           InTime(first, later), LoopInv, ScanFirst, Timely(first, later),
           faults' = 0, Handshake \/ HandshakeFails
    PROVE  Timely(first, later)'
  <1>0. TypeInv /\ ClockInv
    BY DEF LoopInv
  <1>1. /\ pc \in {"align", "realign"}
        /\ UNCHANGED <<now, lock, iterStart, queue, visited>>
        /\ \/ /\ lock[Len(lock)] > now /\ until' = now
              /\ \/ /\ pc = "align" /\ view' = Len(lock)
                    /\ pc' = IF scanned THEN "arranged" ELSE "firstScan"
                 \/ pc = "realign" /\ pc' = "claim" /\ view' = view
           \/ /\ view' = view /\ pc' \in {pc, "down"}
              /\ ~(lock[Len(lock)] > now)
    BY <1>0, HandshakeMoves
  <1>c. ClaimDelay \in Nat /\ ClaimTime \in Nat /\ Interval \in Nat /\ Floor \in Nat /\ Floor <= Interval
        /\ RollDelay < ClaimDelay
    BY LoopConstants DEF InTime
  <1>n. now \in Nat /\ until \in Nat /\ iterStart \in Nat /\ iterStart <= now /\ view \in Nat
    BY <1>0, Numbers
  <1>2. CASE visited = {}
    <2>1. queue = <<>>
      BY <1>2 DEF Timely, BeforeFirst
    <2>2. pc' \in {"arranged", "firstScan"} =>
             /\ until' < lock'[view'] /\ until' < lock'[view'] + ClaimTime
             /\ iterStart' < lock'[view']
      <3> SUFFICES ASSUME pc' \in {"arranged", "firstScan"}
                   PROVE  /\ until' < lock'[view'] /\ until' < lock'[view'] + ClaimTime
                          /\ iterStart' < lock'[view']
        OBVIOUS
      <3> DEFINE t == lock[Len(lock)]
      <3>1. t > now /\ until' = now /\ lock'[view'] = t /\ iterStart' = iterStart
        BY <1>1
      <3>2. Len(lock) \in 1 .. Len(lock)
        BY <1>0, Numbers
      <3>3. t \in Nat
        BY <1>0, <3>2, LocksAreTimes DEF TypeInv
      <3> HIDE DEF t
      <3>4. until' < t /\ until' < t + ClaimTime /\ iterStart' < t
        BY <1>c, <1>n, <3>1, <3>3
      <3>5. QED
        BY <3>1, <3>4
    <2>3. pc' \in {"arranged", "firstScan"} \cup Behind \cup {"down"}
      BY <1>1 DEF Behind
    <2>4. visited' = {} /\ queue' = <<>>
      BY <1>1, <1>2, <2>1
    <2>5. BeforeFirst'
      BY <2>2, <2>3, <2>4 DEF BeforeFirst, Behind
    <2>6. InTheWakes(first, later)'
      BY <2>2, <2>3 DEF InTheWakes, Behind, Ahead, Inside
    <2>7. QED
      BY <2>4, <2>5, <2>6 DEF Timely, OnTheWay, PastTheWakes
  <1>3. CASE visited # {}
    <2> DEFINE t == lock[view]
               o == Overrun(first, later, view)
    <2>1. pc \in Behind
      BY <1>1 DEF Behind
    <2>2. /\ view \in visited /\ view \in 1 .. Len(lock) /\ t \in Nat
          /\ o \in Nat /\ o + ClaimTime < Interval
          /\ Len(queue) <= Backlog(view)
          /\ t + ClaimDelay <= now /\ now <= until
          /\ pc = "realign" => until <= t + o /\ iterStart < t
          /\ pc = "align" => Ends(t, o, until)
      BY <1>1, <1>3, <2>1, BehindIsBounded
    <2>3. now < t + Interval
      <3> HIDE DEF t, o
      <3>1. CASE pc = "align"
        BY <1>c, <1>n, <2>2, <3>1 DEF Ends
      <3>2. CASE pc = "realign"
        BY <1>c, <1>n, <2>2, <3>2
      <3>3. QED
        BY <1>1, <3>1, <3>2
    <2>4. view + 1 = Len(lock) /\ lock[Len(lock)] > now
      BY <1>0, <1>c, <2>2, <2>3, NextIsOpen
    <2>5. scanned
      BY <1>3 DEF ScanFirst
    <2>6. CASE pc = "align"
      <3>1. pc' = "arranged" /\ view' = view + 1 /\ until' = now /\ view' = Len(lock)
        BY <1>1, <2>4, <2>5, <2>6
      <3>2. view' - 1 = view
        <4>1. view \in Nat /\ view' = view + 1
          BY <1>n, <3>1
        <4>2. QED
          BY <4>1
      <3>3. iterStart' < lock'[view']
        <4> DEFINE u == lock[Len(lock)]
        <4>1. Len(lock) \in 1 .. Len(lock)
          BY <1>0, Numbers
        <4>2. u \in Nat /\ u > now
          BY <1>0, <2>4, <4>1, LocksAreTimes DEF TypeInv
        <4> HIDE DEF u
        <4>3. iterStart < u
          BY <1>n, <4>2
        <4>4. QED
          BY <1>1, <3>1, <4>3 DEF u
      <3>4. Ends(t, o, until')
        <4> HIDE DEF t, o
        <4>1. QED
          BY <1>c, <1>n, <2>2, <2>6, <3>1 DEF Ends
      <3>5. OnTheWay(first, later)'
        BY <1>1, <2>2, <3>1, <3>2, <3>4 DEF OnTheWay, Overrun, Backlog, First
      <3>6. QED
        BY <1>1, <1>3, <3>1, <3>3, <3>5
        DEF Timely, BeforeFirst, InTheWakes, PastTheWakes, Behind
    <2>7. CASE pc = "realign"
      <3>1. pc' = "claim" /\ view' = view /\ until' = now
        BY <1>1, <2>4, <2>7
      <3>2. until' <= t + o
        <4> HIDE DEF t, o
        <4>1. QED
          BY <1>n, <2>2, <2>7, <3>1
      <3>3. PastTheWakes(first, later)'
        BY <1>1, <2>2, <2>7, <3>1, <3>2 DEF PastTheWakes, Overrun, Backlog, First
      <3>4. QED
        BY <1>1, <1>3, <3>1, <3>3
        DEF Timely, BeforeFirst, OnTheWay, InTheWakes, Ahead, Inside
    <2>8. QED
      BY <1>1, <2>6, <2>7
  <1>4. QED
    BY <1>2, <1>3

\* A pass of claims, before the first round or after one.
LEMMA ClaimKeepsTime ==
    ASSUME LoopAssumption, AlarmAssumption, NEW first \in Nat, NEW later \in Nat,
           InTime(first, later), LoopInv, ScanFirst, Timely(first, later),
           ClaimNothing \/ Claim \/ ClaimAnswered
    PROVE  Timely(first, later)'
  <1>0. TypeInv /\ ClockInv
    BY DEF LoopInv
  <1>1. /\ UNCHANGED <<now, lock, view, iterStart, queue, visited>>
        /\ now <= until' /\ until' <= now + ClaimTime
        /\ \/ pc = "firstScan" /\ pc' = "firstWait"
           \/ pc \in {"firstScan", "firstWait"} /\ pc' = "arranged" /\ until' = now
           \/ pc = "claim" /\ pc' = "claimWait"
           \/ pc \in {"claim", "claimWait"} /\ pc' = "pace" /\ until' = now
    BY <1>0, ClaimMoves
  <1>c. ClaimTime \in Nat
    BY LoopConstants
  <1>n. now \in Nat /\ until \in Nat /\ until' \in Nat /\ now <= until
    <2>1. until' \in Nat
      <3>1. [Next]_vars
        BY DEF Next
      <3>2. TypeInv'
        BY <1>0, <3>1, StepKeepsType
      <3>3. QED
        BY <3>2 DEF TypeInv, ThreadTyped
    <2>2. now \in Nat /\ until \in Nat
      BY <1>0, Numbers
    <2>3. now <= until
      BY <1>0, <1>1 DEF ClockInv
    <2>4. QED
      BY <2>1, <2>2, <2>3
  <1>2. CASE pc \in {"firstScan", "firstWait"}
    <2> DEFINE t == lock[view]
    <2>1. visited = {}
      BY <1>2 DEF ScanFirst
    <2>2. /\ queue = <<>> /\ iterStart < t
          /\ pc = "firstScan" => until < t
          /\ pc = "firstWait" => until < t + ClaimTime
      BY <1>2, <2>1 DEF Timely, BeforeFirst, InTheWakes, Ahead
    <2>3. t \in Nat
      <3>1. view \in 1 .. Len(lock)
        BY <1>0, <1>2, Numbers DEF Ahead
      <3>2. QED
        BY <1>0, <3>1, LocksAreTimes DEF TypeInv
    <2>4. pc' \in {"firstWait", "arranged"}
      BY <1>1, <1>2
    <2>5. until' < t + ClaimTime
      <3> HIDE DEF t
      <3>1. CASE pc = "firstScan"
        BY <1>1, <1>c, <1>n, <2>2, <2>3, <3>1
      <3>2. CASE pc = "firstWait"
        BY <1>1, <1>c, <1>n, <2>2, <2>3, <3>2
      <3>3. QED
        BY <1>2, <3>1, <3>2
    <2>6. BeforeFirst'
      BY <1>1, <2>2, <2>4, <2>5 DEF BeforeFirst
    <2>7. InTheWakes(first, later)'
      BY <1>1, <2>2, <2>4 DEF InTheWakes, Inside
    <2>8. QED
      BY <1>1, <2>1, <2>6, <2>7 DEF Timely, OnTheWay, PastTheWakes
  <1>3. CASE pc \in {"claim", "claimWait"}
    <2> DEFINE t == lock[view]
               o == Overrun(first, later, view)
    <2>1. pc' \in {"claimWait", "pace"}
      BY <1>1, <1>3
    <2>2. CASE visited = {}
      <3>1. queue = <<>>
        BY <2>2 DEF Timely, BeforeFirst
      <3>2. QED
        BY <1>1, <2>1, <2>2, <3>1
        DEF Timely, BeforeFirst, OnTheWay, InTheWakes, PastTheWakes, Ahead, Inside
    <2>3. CASE visited # {}
      <3>1. pc \in Behind
        BY <1>3 DEF Behind
      <3>2. /\ view \in visited /\ t \in Nat /\ o \in Nat
            /\ Len(queue) <= Backlog(view) /\ iterStart < t
            /\ t + ClaimDelay <= now
            /\ pc = "claim" => until <= t + o
            /\ pc = "claimWait" => until <= t + o + ClaimTime
        BY <1>3, <2>3, <3>1, BehindIsBounded
      <3>3. until' <= t + o + ClaimTime
        <4> HIDE DEF t, o
        <4>1. CASE pc = "claim"
          <5>1. until' <= now + ClaimTime /\ now <= until /\ until <= t + o
            BY <1>1, <1>n, <3>2, <4>1
          <5>2. QED
            BY <1>c, <1>n, <3>2, <5>1
        <4>2. CASE pc = "claimWait"
          <5>1. until' = now /\ now <= until /\ until <= t + o + ClaimTime
            BY <1>1, <1>n, <3>2, <4>2
          <5>2. QED
            BY <1>c, <1>n, <3>2, <5>1
        <4>3. QED
          BY <1>3, <4>1, <4>2
      <3>4. PastTheWakes(first, later)'
        BY <1>1, <2>1, <3>2, <3>3 DEF PastTheWakes, Overrun, Backlog, First
      <3>5. QED
        BY <1>1, <2>1, <2>3, <3>4
        DEF Timely, BeforeFirst, OnTheWay, InTheWakes, Ahead, Inside
    <2>4. QED
      BY <2>2, <2>3
  <1>4. QED
    BY <1>1, <1>2, <1>3

\* The sleep for the claim comes after a round only when it has not passed yet.
LEMMA ClaimFirstKeepsTime ==
    ASSUME LoopAssumption, AlarmAssumption, NEW first \in Nat, NEW later \in Nat,
           InTime(first, later), LoopInv, Timely(first, later), ClaimFirst
    PROVE  Timely(first, later)'
  <1>0. TypeInv /\ ClockInv
    BY DEF LoopInv
  <1>1. /\ pc = "arranged" /\ UNCHANGED <<now, lock, view, iterStart, queue, visited>>
        /\ \/ pc' = "asleep" /\ now < lock[view - 1] + ClaimDelay
           \/ pc' = "flush" /\ until' = now
    BY <1>0, ClaimFirstMoves
  <1>n. now \in Nat /\ until \in Nat /\ now <= until
    BY <1>0, <1>1, Numbers DEF ClockInv
  <1>i. view \in 1 .. Len(lock) /\ view - 1 \in 1 .. Len(lock)
    BY <1>0, <1>1, Numbers DEF Ahead
  <1>t. lock[view] \in Nat /\ lock[view - 1] \in Nat
    BY <1>0, <1>i, LocksAreTimes DEF TypeInv
  <1>c. ClaimTime \in Nat /\ ClaimDelay \in Nat /\ Floor \in Nat
    BY LoopConstants
  <1>2. iterStart < lock[view]
    BY <1>1 DEF Timely, InTheWakes, Ahead
  <1>3. CASE visited = {}
    <2> DEFINE t == lock[view]
    <2>1. queue = <<>> /\ until < t + ClaimTime
      BY <1>1, <1>3 DEF Timely, BeforeFirst
    <2>2. pc' = "flush" => until' < t + ClaimTime
      <3>1. t \in Nat /\ ClaimTime \in Nat
        BY <1>c, <1>t
      <3>2. pc' = "flush" => until' = now
        BY <1>1
      <3>3. until < t + ClaimTime
        BY <2>1
      <3> HIDE DEF t
      <3>4. QED
        BY <1>n, <3>1, <3>2, <3>3
    <2>3. pc' \in {"asleep", "flush"}
      BY <1>1
    <2>4. BeforeFirst'
      BY <1>1, <2>1, <2>2, <2>3 DEF BeforeFirst
    <2>5. InTheWakes(first, later)'
      BY <1>1, <1>2, <2>3 DEF InTheWakes, Ahead, Inside
    <2>6. QED
      BY <1>1, <1>3, <2>4, <2>5 DEF Timely, OnTheWay, PastTheWakes
  <1>4. CASE visited # {}
    <2> DEFINE t == lock[view - 1]
               o == Overrun(first, later, view - 1)
    <2>1. /\ t + ClaimDelay <= now /\ Ends(t, o, until)
          /\ Len(queue) <= Backlog(view - 1) /\ view - 1 \in visited
      BY <1>1, <1>4 DEF Timely, OnTheWay, Ahead
    <2>2. t \in Nat /\ o \in Nat
      <3>1. o \in Nat
        BY RoundHasRoom
      <3>2. QED
        BY <1>t, <3>1
    <2>3. pc' = "flush" /\ until' = now
      <3>1. t + ClaimDelay <= now => ~(now < t + ClaimDelay)
        <4> HIDE DEF t
        <4>1. QED
          BY <1>c, <1>n, <2>2
      <3>2. QED
        BY <1>1, <2>1, <3>1
    <2>4. Ends(t, o, until')
      <3> HIDE DEF t, o
      <3>1. QED
        BY <1>c, <1>n, <2>1, <2>2, <2>3 DEF Ends
    <2>5. OnTheWay(first, later)'
      BY <1>1, <2>1, <2>3, <2>4 DEF OnTheWay, Overrun, Backlog, First
    <2>6. QED
      BY <1>1, <1>2, <1>4, <2>3, <2>5 DEF Timely, BeforeFirst, InTheWakes, PastTheWakes, Behind, Inside
  <1>5. QED
    BY <1>3, <1>4

\* The alerts of the rounds before are delivered before the ladder, and when there
\* is no slack for them they are those of one round.
LEMMA FlushKeepsTime ==
    ASSUME LoopAssumption, AlarmAssumption, NEW first \in Nat, NEW later \in Nat,
           InTime(first, later), LoopInv, VisitInv, Timely(first, later), Flush
    PROVE  Timely(first, later)'
  <1>0. TypeInv /\ ClockInv
    BY DEF LoopInv
  <1>1. /\ pc = "flush" /\ UNCHANGED <<now, lock, view, iterStart, queue, visited>>
        /\ \/ pc' = "post" /\ until' = now + PostTime /\ queue # <<>>
           \/ /\ pc' = "ladder"
              /\ until' = IF lock[view] - Ladder > now THEN lock[view] - Ladder ELSE now
              /\ queue = <<>> \/ ~HasSlack
    <2>1. pc = "flush"
      BY DEF Flush
    <2>2. QED
      BY <1>0, <2>1, AlertMoves
  <1>n. now \in Nat /\ until \in Nat /\ now <= until
    BY <1>0, <1>1, Numbers DEF ClockInv
  <1>i. view \in 1 .. Len(lock) /\ view - 1 \in 1 .. Len(lock) /\ view \in Nat
    BY <1>0, <1>1, Numbers DEF Ahead
  <1>t. lock[view] \in Nat /\ lock[view - 1] \in Nat
    BY <1>0, <1>i, LocksAreTimes DEF TypeInv
  <1>c. /\ ClaimTime \in Nat /\ ClaimDelay \in Nat /\ Floor \in Nat /\ Ladder \in Nat
        /\ PostTime \in Nat /\ Interval \in Nat /\ Slack \in Nat
    BY LoopConstants
  <1>q. Len(queue) \in Nat /\ (queue # <<>> => Len(queue) > 0) /\ (queue = <<>> => Len(queue) = 0)
    <2>1. queue \in Seq(Words)
      BY <1>0 DEF TypeInv, AlertsTyped
    <2>2. Len(queue) \in Nat /\ (queue = <<>> <=> Len(queue) = 0)
      BY <2>1, LenProperties, EmptySeq
    <2>3. QED
      BY <2>2
  <1>b. Batch \in Nat
    <2>1. OtherAlarms \in Nat
      BY LoopConstants
    <2>2. QED
      BY <2>1 DEF Batch
  <1>2. iterStart < lock[view]
    BY <1>1 DEF Timely, InTheWakes, Ahead
  <1>3. CASE visited = {}
    <2> DEFINE t == lock[view]
    <2>1. queue = <<>> /\ until < t + ClaimTime
      BY <1>1, <1>3 DEF Timely, BeforeFirst
    <2>2. pc' = "ladder" /\ until' = IF t - Ladder > now THEN t - Ladder ELSE now
      BY <1>1, <2>1
    <2>3. until' <= t - Ladder \/ until' < t + ClaimTime
      <3>1. t \in Nat
        BY <1>t
      <3> HIDE DEF t
      <3>2. QED
        BY <1>c, <1>n, <2>1, <2>2, <3>1
    <2>4. BeforeFirst'
      BY <1>1, <2>1, <2>2, <2>3 DEF BeforeFirst
    <2>5. Len(queue) <= Batch
      BY <1>q, <1>b, <2>1
    <2>6. InTheWakes(first, later)'
      BY <1>1, <1>2, <2>1, <2>2, <2>5 DEF InTheWakes, Inside
    <2>7. QED
      BY <1>1, <1>3, <2>2, <2>4, <2>6 DEF Timely, OnTheWay, PastTheWakes, Behind
  <1>4. CASE visited # {}
    <2> DEFINE t == lock[view]
               s == lock[view - 1]
               o == Overrun(first, later, view - 1)
               n == Len(queue)
               p == n * PostTime
    <2>1. /\ Ends(s, o, until) /\ n <= Backlog(view - 1) /\ view - 1 \in visited
      BY <1>1, <1>4 DEF Timely, OnTheWay, Ahead
    <2>2. /\ o \in Nat /\ p \in Nat
          /\ o + ClaimTime + p <= Interval - Ladder
          /\ Floor - 1 + p <= Interval - Ladder
          /\ ~First(view - 1) => o + ClaimTime + Slack <= Interval /\ Floor - 1 + Slack <= Interval
      <3>1. n \in Nat /\ n <= Backlog(view - 1)
        BY <1>q, <2>1
      <3> HIDE DEF n
      <3>2. QED
        BY <3>1, RoundHasRoom
    <2>3. s + Interval <= t
      <3> DEFINE i == view - 1
      <3>1. i \in 1 .. Len(lock) - 1 /\ i + 1 = view
        <4> DEFINE m == Len(lock)
        <4>1. m \in Nat /\ view \in 1 .. m /\ view - 1 \in 1 .. m
          BY <1>0, <1>i, Numbers
        <4> HIDE DEF m
        <4>2. i \in 1 .. m - 1 /\ i + 1 = view
          BY <4>1
        <4>3. QED
          BY <4>2 DEF m
      <3> HIDE DEF i
      <3>2. lock[i] + Interval <= lock[i + 1]
        BY <1>0, <3>1 DEF ClockInv
      <3>3. i = view - 1
        BY DEF i
      <3>4. QED
        BY <3>1, <3>2, <3>3
    <2>4. s \in Nat /\ t \in Nat
      BY <1>t
    <2>5. now + p <= t - Ladder
      <3> HIDE DEF s, t, o, n, p
      <3>1. CASE until <= s + o + ClaimTime
        BY <1>c, <1>n, <2>2, <2>3, <2>4, <3>1
      <3>2. CASE until < s + Floor
        BY <1>c, <1>n, <2>2, <2>3, <2>4, <3>2
      <3>3. QED
        BY <2>1, <3>1, <3>2 DEF Ends
    <2>6. ~First(view - 1) => HasSlack
      <3> HIDE DEF s, o, n, p
      <3>1. ~First(view - 1) => t - now >= Slack
        <4> HIDE DEF t
        <4>1. CASE until <= s + o + ClaimTime
          BY <1>c, <1>n, <2>2, <2>3, <2>4, <4>1
        <4>2. CASE until < s + Floor
          BY <1>c, <1>n, <2>2, <2>3, <2>4, <4>2
        <4>3. QED
          BY <2>1, <4>1, <4>2 DEF Ends
      <3>2. QED
        BY <3>1 DEF HasSlack
    <2>7. CASE pc' = "post"
      <3>1. until' = now + PostTime
        BY <1>1, <2>7
      <3>2. until' + (n - 1) * PostTime = now + p
        <4> HIDE DEF n
        <4>1. n \in Nat
          BY <1>q DEF n
        <4>2. (n - 1) * PostTime = n * PostTime - PostTime /\ n * PostTime \in Int
          BY <1>c, <4>1
        <4>3. QED
          BY <1>c, <1>n, <3>1, <4>2
      <3>3. until' + (n - 1) * PostTime <= t - Ladder
        BY <2>5, <3>2
      <3>4. OnTheWay(first, later)'
        <4> HIDE DEF p, o, s
        <4>1. QED
          BY <1>1, <2>1, <2>7, <3>3 DEF OnTheWay
      <3>5. QED
        BY <1>1, <1>2, <1>4, <2>7, <3>4 DEF Timely, BeforeFirst, InTheWakes, PastTheWakes, Behind, Inside
    <2>8. CASE pc' = "ladder"
      <3>1. until' = IF t - Ladder > now THEN t - Ladder ELSE now
        BY <1>1, <2>8
      <3>2. until' <= t - Ladder
        <4> HIDE DEF s, t, o, n, p
        <4>1. QED
          BY <1>c, <1>n, <2>2, <2>4, <2>5, <3>1
      <3>3. n <= Batch
        <4>1. CASE queue = <<>>
          BY <1>q, <1>b, <4>1
        <4>2. CASE ~HasSlack
          BY <2>1, <2>6, <4>2 DEF Backlog
        <4>3. QED
          BY <1>1, <2>8, <4>1, <4>2
      <3>4. ~First(view)
        <4>1. view - 1 # view
          BY <1>i
        <4>2. QED
          BY <2>1, <4>1 DEF First
      <3>5. OnTheWay(first, later)'
        BY <1>1, <2>1, <2>8, <3>2 DEF OnTheWay
      <3>6. InTheWakes(first, later)'
        BY <1>1, <1>2, <2>8, <3>3, <3>4 DEF InTheWakes, Inside, First
      <3>7. QED
        BY <1>1, <1>4, <2>8, <3>5, <3>6 DEF Timely, BeforeFirst, PastTheWakes, Behind
    <2>9. QED
      BY <1>1, <2>7, <2>8
  <1>5. QED
    BY <1>3, <1>4

\* Each delivery leaves the time the rest of them takes.
LEMMA PostKeepsTime ==
    ASSUME LoopAssumption, AlarmAssumption, NEW first \in Nat, NEW later \in Nat,
           LoopInv, VisitInv, Timely(first, later), Post
    PROVE  Timely(first, later)'
  <1>0. TypeInv /\ ClockInv
    BY DEF LoopInv
  <1>1. /\ pc = "post" /\ queue' = Tail(queue) /\ UNCHANGED <<now, lock, view, iterStart, visited>>
        /\ \/ pc' = "post" /\ until' = now + PostTime
           \/ /\ pc' = "ladder" /\ queue' = <<>>
              /\ until' = IF lock[view] - Ladder > now THEN lock[view] - Ladder ELSE now
    <2>1. pc = "post"
      BY DEF Post
    <2>2. QED
      BY <1>0, <2>1, AlertMoves
  <1>n. now \in Nat /\ until \in Nat /\ now <= until
    BY <1>0, <1>1, Numbers DEF ClockInv
  <1>c. Ladder \in Nat /\ PostTime \in Nat
    BY LoopConstants
  <1> DEFINE t == lock[view]
             n == Len(queue)
  <1>t. t \in Nat
    <2>1. view \in 1 .. Len(lock)
      BY <1>0, <1>1, Numbers DEF Ahead
    <2>2. QED
      BY <1>0, <2>1, LocksAreTimes DEF TypeInv
  <1>q. n \in Nat /\ n > 0 /\ Len(queue') = n - 1
    <2>1. queue \in Seq(Words) /\ queue # <<>>
      BY <1>0, <1>1 DEF TypeInv, AlertsTyped
    <2>2. n \in Nat /\ n # 0
      BY <2>1, EmptySeq, LenProperties, Zenon
    <2>3. Len(Tail(queue)) = n - 1
      BY <2>1, HeadTailProperties, Zenon
    <2> HIDE DEF n
    <2>4. n > 0
      BY <2>2
    <2>5. QED
      BY <1>1, <2>2, <2>3, <2>4
  <1>2. /\ visited # {} /\ view - 1 \in visited /\ iterStart < t
        /\ until + (n - 1) * PostTime <= t - Ladder
    BY <1>1 DEF Timely, BeforeFirst, OnTheWay, InTheWakes, Ahead
  <1>3. CASE pc' = "post"
    <2>1. until' + (Len(queue') - 1) * PostTime <= t - Ladder
      <3> DEFINE m == Len(queue')
      <3>1. m \in Nat /\ n = m + 1
        BY <1>q
      <3> HIDE DEF n, t, m
      <3>2. n - 1 = m
        BY <3>1
      <3>3. until + m * PostTime <= t - Ladder
        BY <1>2, <3>2
      <3>4. (m - 1) * PostTime = m * PostTime - PostTime /\ m * PostTime \in Int
        BY <1>c, <3>1
      <3>5. until' = now + PostTime
        BY <1>1, <1>3
      <3> DEFINE p == m * PostTime
                 r == (m - 1) * PostTime
      <3>6. p \in Int /\ r = p - PostTime /\ until + p <= t - Ladder
        BY <3>3, <3>4
      <3> HIDE DEF p, r
      <3>7. until' + r <= t - Ladder
        BY <1>c, <1>n, <1>t, <3>5, <3>6
      <3>8. QED
        BY <3>7 DEF m, r
    <2>2. OnTheWay(first, later)'
      BY <1>1, <1>2, <1>3, <2>1 DEF OnTheWay
    <2>3. QED
      BY <1>1, <1>2, <1>3, <2>2 DEF Timely, BeforeFirst, InTheWakes, PastTheWakes, Behind, Inside
  <1>4. CASE pc' = "ladder"
    <2>1. until <= t - Ladder
      <3>1. n - 1 \in Nat /\ (n - 1) * PostTime \in Nat
        <4> HIDE DEF n
        <4>1. n - 1 \in Nat
          BY <1>q
        <4>2. QED
          BY <1>c, <4>1
      <3> DEFINE r == (n - 1) * PostTime
      <3>2. r \in Nat /\ until + r <= t - Ladder
        BY <1>2, <3>1
      <3> HIDE DEF r, t, n
      <3>3. QED
        BY <1>c, <1>n, <1>t, <3>2
    <2>2. until' = IF t - Ladder > now THEN t - Ladder ELSE now
      BY <1>1, <1>4
    <2>3. until' <= t - Ladder
      <3> HIDE DEF t, n
      <3>1. QED
        BY <1>c, <1>n, <1>t, <2>1, <2>2
    <2>4. queue' = <<>> /\ Len(queue') <= Batch
      <3>1. OtherAlarms \in Nat
        BY LoopConstants
      <3>2. 0 <= Batch
        BY <3>1 DEF Batch
      <3>3. queue' = <<>>
        BY <1>1, <1>4
      <3>4. Len(queue') = 0
        BY <3>3
      <3>5. QED
        BY <3>2, <3>3, <3>4
    <2>5. OnTheWay(first, later)'
      BY <1>1, <1>2, <1>4, <2>3 DEF OnTheWay
    <2>6. InTheWakes(first, later)'
      BY <1>1, <1>2, <1>4, <2>4 DEF InTheWakes, Inside
    <2>7. QED
      BY <1>1, <1>2, <1>4, <2>5, <2>6 DEF Timely, BeforeFirst, PastTheWakes, Behind
  <1>5. QED
    BY <1>1, <1>3, <1>4

LEMMA PreflightKeepsTime ==
    ASSUME LoopAssumption, AlarmAssumption, NEW first \in Nat, NEW later \in Nat,
           LoopInv, VisitInv, Timely(first, later), faults' = 0, Preflight
    PROVE  Timely(first, later)'
  <1>0. TypeInv /\ ClockInv
    BY DEF LoopInv
  <1>1. /\ pc = "ladder" /\ until <= now /\ visited' = visited \cup {view}
        /\ UNCHANGED <<now, lock, view, iterStart, queue>>
        /\ pc' = "gate" /\ until' = now
    BY <1>0, PreflightMoves
  <1>n. now \in Nat /\ until \in Nat /\ now <= until
    BY <1>0, <1>1, Numbers DEF ClockInv
  <1>2. until = now
    BY <1>1, <1>n
  <1>3. /\ iterStart < lock[view] /\ Len(queue) <= Batch /\ (First(view) => queue = <<>>)
        /\ until <= lock[view] - Ladder \/ (visited = {} /\ until < lock[view] + ClaimTime)
    BY <1>1 DEF Timely, BeforeFirst, OnTheWay, InTheWakes, Ahead
  <1>4. visited' # {} /\ (First(view)' <=> First(view)) /\ (visited = {} => First(view))
    BY <1>1 DEF First
  <1>5. InTheWakes(first, later)'
    <2>1. until' <= now' /\ until' = until /\ lock' = lock /\ view' = view
      BY <1>1, <1>2
    <2>2. \/ until' <= lock'[view'] - Ladder
          \/ First(view)' /\ until' < lock'[view'] + ClaimTime
      BY <1>3, <1>4, <2>1
    <2>3. iterStart' < lock'[view'] /\ Len(queue') <= Batch /\ (First(view)' => queue' = <<>>)
      BY <1>1, <1>3, <1>4
    <2>4. QED
      BY <1>1, <2>1, <2>2, <2>3 DEF InTheWakes
  <1>6. QED
    BY <1>1, <1>4, <1>5 DEF Timely, BeforeFirst, OnTheWay, PastTheWakes, Ahead, Behind

\* A verdict and the alerts that go with it.
LEMMA GateAddsABatch ==
    ASSUME LoopAssumption, AlarmAssumption, TypeInv, PoolGate
    PROVE  Len(queue') <= Len(queue) + Batch
  <1>1. PICK ready \in BOOLEAN, others \in 0 .. OtherAlarms :
           queue' = queue \o EventOf(alarm, alarm') \o [i \in 1 .. others |-> "other"]
    BY DEF PoolGate
  <1> DEFINE E == EventOf(alarm, alarm')
             r == [i \in 1 .. others |-> "other"]
  <1>2. OtherAlarms \in Nat
    BY LoopConstants
  <1>3. others \in Nat /\ others <= OtherAlarms
    BY <1>2
  <1>4. queue \in Seq(Words)
    BY DEF TypeInv, AlertsTyped
  <1>5. E \in Seq(Words) /\ r \in Seq(Words)
    BY <1>3, EventsTyped, Zenon
  <1>6. Len(E) <= 1 /\ Len(E) \in Nat
    <2>1. E = <<>> \/ E = <<"blocked">> \/ E = <<"recovered">>
      BY DEF EventOf
    <2> HIDE DEF E
    <2>2. Len(<<>>) = 0 /\ Len(<<"blocked">>) = 1 /\ Len(<<"recovered">>) = 1
      OBVIOUS
    <2>3. Len(E) \in {0, 1}
      BY <2>1, <2>2
    <2>4. \A k \in {0, 1} : k <= 1 /\ k \in Nat
      OBVIOUS
    <2>5. QED
      BY <2>3, <2>4, Zenon
  <1>7. Len(r) = others
    BY <1>3
  <1> HIDE DEF E, r
  <1>8. queue \o E \in Seq(Words) /\ Len(queue \o E) = Len(queue) + Len(E)
    BY <1>4, <1>5, ConcatProperties
  <1>9. Len((queue \o E) \o r) = Len(queue) + Len(E) + Len(r)
    BY <1>5, <1>8, ConcatProperties
  <1>10. queue' = (queue \o E) \o r
    BY <1>1 DEF E, r
  <1> DEFINE k == Len(queue)
             m == Len(queue')
             e == Len(E)
  <1>11. k \in Nat /\ m = k + e + others /\ e \in Nat /\ e <= 1
    BY <1>4, <1>6, <1>7, <1>9, <1>10
  <1> HIDE DEF k, m, e
  <1>12. m <= k + (1 + OtherAlarms)
    BY <1>2, <1>3, <1>11
  <1>13. QED
    BY <1>12 DEF k, m, Batch

\* In the wakes of a round and after them the thread is late by no more than the
\* round allows.
LEMMA DecisionKeepsTime ==
    ASSUME LoopAssumption, AlarmAssumption, NEW first \in Nat, NEW later \in Nat,
           InTime(first, later), LoopInv, VisitInv, SendInv, Timely(first, later),
           PoolGate \/ Decide \/ Send \/ BetAnswered
    PROVE  Timely(first, later)'
  <1>0. TypeInv /\ ClockInv
    BY DEF LoopInv
  <1> DEFINE t == lock[view]
             o == Overrun(first, later, view)
  <1>1. /\ pc \in Inside /\ UNCHANGED <<now, lock, view, iterStart, visited>>
        /\ (~PoolGate => UNCHANGED queue)
        /\ \/ /\ pc' = "asleep" /\ pc # "send"
              /\ until' = IF t + ClaimDelay > now THEN t + ClaimDelay ELSE now
           \/ pc = "gate" /\ pc' = "decide" /\ until' = now + FetchTime
           \/ pc = "decide" /\ pc' = "send" /\ until' = now
           \/ pc = "send" /\ pc' = "receipt" /\ until' = now + ReceiptTime
           \/ pc = "send" /\ pc' = "down"
    BY <1>0, DecisionMoves
  <1>n. now \in Nat /\ until \in Nat /\ now <= until
    BY <1>0, <1>1, Numbers DEF ClockInv, Inside
  <1>c. /\ Ladder \in Nat /\ ClaimDelay \in Nat /\ ClaimTime \in Nat /\ FetchTime \in Nat
        /\ ReceiptTime \in Nat
    BY LoopConstants
  <1>r. /\ FetchTime <= first + Ladder /\ ClaimTime + FetchTime - 1 <= first
        /\ ReceiptTime - 1 <= first /\ FetchTime + ReceiptTime <= later + Ladder
    BY DEF InTime
  <1>o. /\ o \in Nat /\ ClaimDelay <= o /\ (First(view) => o = first) /\ (~First(view) => o = later)
    <2>1. o \in Nat /\ ClaimDelay <= o
      BY RoundHasRoom
    <2>2. (First(view) => o = first) /\ (~First(view) => o = later)
      BY DEF Overrun
    <2>3. QED
      BY <2>1, <2>2
  <1>v. view \in visited /\ view \in 1 .. Len(lock)
    BY <1>0, <1>1 DEF VisitInv, TypeInv, ThreadTyped
  <1>t. t \in Nat
    BY <1>0, <1>v, LocksAreTimes DEF TypeInv
  <1>b. Batch \in Nat /\ Len(queue) \in Nat
    <2>1. OtherAlarms \in Nat
      BY LoopConstants
    <2>2. queue \in Seq(Words)
      BY <1>0 DEF TypeInv, AlertsTyped
    <2>3. Batch \in Nat
      BY <2>1 DEF Batch
    <2>4. QED
      BY <2>2, <2>3
  <1>2. iterStart < t
    BY <1>1 DEF Timely, InTheWakes
  <1>3. Len(queue') <= Backlog(view)
    <2>1. CASE pc = "gate"
      <3>1. Len(queue) <= Batch /\ (First(view) => Len(queue) = 0)
        BY <2>1 DEF Timely, InTheWakes
      <3>2. Len(queue') <= Len(queue) + Batch
        <4>1. CASE PoolGate
          BY <1>0, <4>1, GateAddsABatch
        <4>2. CASE ~PoolGate
          <5>1. queue' = queue
            BY <1>1, <4>2
          <5> DEFINE k == Len(queue)
          <5>2. k \in Nat
            BY <1>b
          <5> HIDE DEF k
          <5>3. k <= k + Batch
            BY <1>b, <5>2
          <5>4. QED
            BY <5>1, <5>3 DEF k
        <4>3. QED
          BY <4>1, <4>2
      <3> DEFINE k == Len(queue)
                 m == Len(queue')
      <3>3. k \in Nat /\ k <= Batch /\ (First(view) => k = 0) /\ m <= k + Batch /\ m \in Nat
        <4>1. queue' \in Seq(Words)
          <5>1. [Next]_vars
            BY DEF Next
          <5>2. TypeInv'
            BY <1>0, <5>1, StepKeepsType
          <5>3. QED
            BY <5>2 DEF TypeInv, AlertsTyped
        <4>2. m \in Nat
          BY <4>1, LenProperties, Zenon
        <4>3. QED
          BY <1>b, <3>1, <3>2, <4>2
      <3> HIDE DEF k, m
      <3>4. m <= Backlog(view)
        <4>1. CASE First(view)
          BY <1>b, <3>3, <4>1 DEF Backlog
        <4>2. CASE ~First(view)
          BY <1>b, <3>3, <4>2 DEF Backlog
        <4>3. QED
          BY <4>1, <4>2
      <3>5. QED
        BY <3>4 DEF m
    <2>2. CASE pc # "gate"
      <3>1. pc \in {"decide", "send", "receipt"} /\ ~PoolGate
        BY <1>1, <2>2 DEF Inside, PoolGate
      <3>2. Len(queue) <= Backlog(view)
        BY <3>1 DEF Timely, InTheWakes
      <3>3. QED
        BY <1>1, <3>1, <3>2
    <2>3. QED
      BY <2>1, <2>2
  <1>4. /\ pc = "gate" => \/ now <= t - Ladder
                          \/ First(view) /\ now < t + ClaimTime
        /\ pc \in {"decide", "send"} => until <= IF First(view) THEN t + first
                                                ELSE t - Ladder + FetchTime
        /\ pc = "receipt" => until <= t + o
        /\ pc = "send" => now < t
    <2>1. pc = "gate" => until <= now
      BY DEF Timely, InTheWakes
    <2>2. pc = "gate" => until = now
      BY <1>n, <2>1
    <2>3. QED
      BY <2>2 DEF Timely, InTheWakes, SendInv
  <1>5. /\ pc' = "asleep" => until' <= t + o /\ t + ClaimDelay <= until'
        /\ pc' \in {"decide", "send"} => until' <= IF First(view) THEN t + first
                                                  ELSE t - Ladder + FetchTime
        /\ pc' = "receipt" => until' <= t + o
    <2> HIDE DEF t, o
    <2>1. CASE pc' = "asleep"
      <3>1. until' = IF t + ClaimDelay > now THEN t + ClaimDelay ELSE now
        BY <1>1, <2>1
      <3>2. now <= t + o
        <4>1. CASE pc = "gate"
          BY <1>c, <1>n, <1>o, <1>r, <1>t, <1>4, <4>1
        <4>2. CASE pc = "decide"
          BY <1>c, <1>n, <1>o, <1>r, <1>t, <1>4, <4>2
        <4>3. CASE pc = "receipt"
          BY <1>c, <1>n, <1>o, <1>r, <1>t, <1>4, <4>3
        <4>4. QED
          BY <1>1, <2>1, <4>1, <4>2, <4>3 DEF Inside
      <3>3. QED
        BY <1>c, <1>n, <1>o, <1>t, <2>1, <3>1, <3>2
    <2>2. CASE pc = "gate" /\ pc' = "decide" /\ until' = now + FetchTime
      BY <1>c, <1>n, <1>o, <1>r, <1>t, <1>4, <2>2
    <2>3. CASE pc = "decide" /\ pc' = "send" /\ until' = now
      BY <1>c, <1>n, <1>o, <1>r, <1>t, <1>4, <2>3
    <2>4. CASE pc = "send" /\ pc' = "receipt" /\ until' = now + ReceiptTime
      BY <1>c, <1>n, <1>o, <1>r, <1>t, <1>4, <2>4
    <2>5. QED
      BY <1>1, <2>1, <2>2, <2>3, <2>4
  <1>6. visited # {} /\ pc' \in {"asleep", "decide", "send", "receipt", "down"}
    BY <1>1, <1>v
  <1>7. InTheWakes(first, later)'
    BY <1>1, <1>2, <1>3, <1>5, <1>6 DEF InTheWakes, Ahead, Inside, Overrun, Backlog, First
  <1>8. PastTheWakes(first, later)'
    BY <1>1, <1>2, <1>3, <1>5, <1>6, <1>v DEF PastTheWakes, Behind, Overrun, Backlog, First
  <1>9. QED
    BY <1>1, <1>6, <1>7, <1>8 DEF Timely, BeforeFirst, OnTheWay, Ahead

\* The rest of an iteration.
LEMMA RestKeepsTime ==
    ASSUME LoopAssumption, AlarmAssumption, NEW first \in Nat, NEW later \in Nat,
           InTime(first, later), LoopInv, Timely(first, later), faults' = 0,
           Wake \/ Pace \/ StartIteration \/ Crash
    PROVE  Timely(first, later)'
  <1>0. TypeInv /\ ClockInv
    BY DEF LoopInv
  <1>1. /\ UNCHANGED <<now, lock, view, visited, queue>>
        /\ \/ /\ pc = "asleep" /\ pc' = "realign" /\ until <= now /\ until' = now
              /\ iterStart' = iterStart
           \/ /\ pc = "pace" /\ pc' = "top" /\ iterStart' = iterStart
              /\ until' = IF iterStart + Floor > now THEN iterStart + Floor ELSE now
           \/ pc = "top" /\ pc' = "align" /\ until <= now /\ until' = now
    BY <1>0, RestMoves
  <1>2. pc \in Behind /\ pc' \in {"realign", "top", "align"}
    BY <1>1 DEF Behind
  <1>3. CASE visited = {}
    <2>1. queue = <<>>
      BY <1>3 DEF Timely, BeforeFirst
    <2>2. QED
      BY <1>1, <1>2, <1>3, <2>1
      DEF Timely, BeforeFirst, OnTheWay, InTheWakes, PastTheWakes, Ahead, Inside
  <1>4. CASE visited # {}
    <2> DEFINE t == lock[view]
               o == Overrun(first, later, view)
    <2>1. /\ view \in visited /\ t \in Nat /\ o \in Nat /\ Len(queue) <= Backlog(view)
          /\ iterStart < t
          /\ t + ClaimDelay <= IF pc = "asleep" THEN until ELSE now
          /\ pc = "asleep" => until <= t + o
          /\ pc = "pace" => until <= t + o + ClaimTime
          /\ pc = "top" => Ends(t, o, until)
          /\ now \in Nat /\ until \in Nat /\ now <= until
      BY <1>1, <1>2, <1>4, BehindIsBounded
    <2>c. ClaimTime \in Nat /\ Floor \in Nat /\ iterStart \in Nat
      BY <1>0, Numbers, LoopConstants
    <2>2. /\ pc' = "realign" => until' <= t + o
          /\ pc' # "align" => iterStart' < t
          /\ pc' \in {"top", "align"} => Ends(t, o, until')
          /\ t + ClaimDelay <= now
      <3> HIDE DEF t, o
      <3>1. CASE pc = "asleep"
        <4>1. pc' = "realign" /\ until = now /\ until' = now /\ iterStart' = iterStart
          BY <1>1, <2>1, <3>1
        <4>2. QED
          BY <2>1, <3>1, <4>1
      <3>2. CASE pc = "pace"
        <4>1. pc' = "top" /\ iterStart' = iterStart
              /\ until' = IF iterStart + Floor > now THEN iterStart + Floor ELSE now
          BY <1>1, <3>2
        <4>2. Ends(t, o, until')
          <5>n. t \in Nat /\ o \in Nat /\ now \in Nat /\ until \in Nat /\ now <= until
            BY <2>1
          <5>1. CASE iterStart + Floor > now
            <6>1. until' = iterStart + Floor /\ iterStart < t
              BY <2>1, <3>2, <4>1, <5>1
            <6>2. until' < t + Floor
              BY <2>c, <5>n, <6>1
            <6>3. QED
              BY <6>2 DEF Ends
          <5>2. CASE ~(iterStart + Floor > now)
            <6>1. until' = now /\ until <= t + o + ClaimTime
              BY <2>1, <3>2, <4>1, <5>2
            <6>2. until' <= t + o + ClaimTime
              BY <2>c, <5>n, <6>1
            <6>3. QED
              BY <6>2 DEF Ends
          <5>3. QED
            BY <5>1, <5>2
        <4>3. QED
          BY <2>1, <3>2, <4>1, <4>2
      <3>3. CASE pc = "top"
        <4>1. pc' = "align" /\ until = now /\ until' = now
          <5>1. pc' = "align" /\ until <= now /\ until' = now
            BY <1>1, <3>3
          <5>2. now \in Nat /\ until \in Nat /\ now <= until
            BY <2>1
          <5>3. until = now
            BY <5>1, <5>2
          <5>4. QED
            BY <5>1, <5>3
        <4>2. Ends(t, o, until')
          BY <2>1, <3>3, <4>1
        <4>3. t + ClaimDelay <= now
          BY <2>1, <3>3
        <4>4. QED
          BY <4>1, <4>2, <4>3
      <3>4. QED
        BY <1>1, <3>1, <3>2, <3>3
    <2>3. PastTheWakes(first, later)'
      BY <1>1, <1>2, <2>1, <2>2 DEF PastTheWakes, Overrun, Backlog, First
    <2>4. QED
      BY <1>1, <1>2, <1>4, <2>3
      DEF Timely, BeforeFirst, OnTheWay, InTheWakes, Ahead, Inside
  <1>5. QED
    BY <1>3, <1>4

LEMMA BootIsTimely ==
    ASSUME NEW first, NEW later, TypeInv, Boot
    PROVE  Timely(first, later)'
  <1>1. pc' = "top" /\ visited' = {} /\ queue' = <<>>
    BY BootMoves
  <1>2. QED
    BY <1>1 DEF Timely, BeforeFirst, OnTheWay, InTheWakes, PastTheWakes, Ahead, Inside

LEMMA StepKeepsTime ==
    ASSUME LoopAssumption, AlarmAssumption, NEW first \in Nat, NEW later \in Nat,
           InTime(first, later), LoopInv, VisitInv, ScanFirst, SendInv,
           TimeInv(first, later), [Next]_vars
    PROVE  TimeInv(first, later)'
  <1> SUFFICES ASSUME faults' = 0
               PROVE  Timely(first, later)'
    BY DEF TimeInv
  <1>1. faults = 0
    <2>1. faults \in Nat /\ faults <= faults'
      BY StepKeepsFaults DEF LoopInv, TypeInv, FaultsTyped
    <2>2. QED
      BY <2>1
  <1>2. Timely(first, later)
    BY <1>1 DEF TimeInv
  <1>3. CASE Tick \/ Roll \/ Mine \/ Evict \/ UNCHANGED vars
    BY <1>2, <1>3, WaitKeepsTime
  <1>4. CASE Handshake \/ HandshakeFails
    BY <1>2, <1>4, HandshakeKeepsTime
  <1>5. CASE ClaimNothing \/ Claim \/ ClaimAnswered
    BY <1>2, <1>5, ClaimKeepsTime
  <1>6. CASE ClaimFirst
    BY <1>2, <1>6, ClaimFirstKeepsTime
  <1>7. CASE Flush
    BY <1>2, <1>7, FlushKeepsTime
  <1>8. CASE Post
    BY <1>2, <1>8, PostKeepsTime
  <1>9. CASE Preflight
    BY <1>2, <1>9, PreflightKeepsTime
  <1>10. CASE PoolGate \/ Decide \/ Send \/ BetAnswered
    BY <1>2, <1>10, DecisionKeepsTime
  <1>11. CASE Wake \/ Pace \/ StartIteration \/ Crash
    BY <1>2, <1>11, RestKeepsTime
  <1>12. CASE Boot
    BY <1>12, BootIsTimely DEF LoopInv
  <1>13. QED
    BY <1>3, <1>4, <1>5, <1>6, <1>7, <1>8, <1>9, <1>10, <1>11, <1>12 DEF Next

\* Without a failure no round goes by undecided and none is entered late
\* (engine.py:1745-1765, 2230-2254), whatever the delays are, as long as they fit
\* into a round: then the handshake after a pass names the next round, and the
\* claims, the floor and the alerts of that round before end before its ladder.
THEOREM RoundsSound ==
    ASSUME NEW first \in Nat, NEW later \in Nat, InTime(first, later)
    PROVE  Spec => []NoRoundIsMissed
  <1> DEFINE Inv == LoopInv /\ VisitInv /\ ScanFirst /\ SendInv /\ TimeInv(first, later)
  <1>1. Init => Inv
    <2> SUFFICES ASSUME Init
                 PROVE  Inv
      OBVIOUS
    <2>1. LoopInv /\ VisitInv
      BY LoopAssumption, AlarmAssumption, LoopStarts, StartOfVisits
    <2>2. ScanFirst /\ SendInv
      BY DEF Init, ScanFirst, SendInv, Ahead, Inside
    <2>3. TimeInv(first, later)
      BY DEF Init, TimeInv, Timely, BeforeFirst, OnTheWay, InTheWakes, PastTheWakes,
             Ahead, Inside, Behind
    <2>4. QED
      BY <2>1, <2>2, <2>3
  <1>2. Inv /\ [Next]_vars => Inv'
    BY LoopAssumption, AlarmAssumption, StepKeepsLoop, StepKeepsVisit, StepKeepsScanFirst,
       StepKeepsSend, StepKeepsTime
  <1>3. Inv => NoRoundIsMissed
    <2> SUFFICES ASSUME Inv, pc = "ladder", visited # {}, faults = 0
                 PROVE  view = Max(visited) + 1 /\ until <= lock[view] - Ladder
      BY DEF NoRoundIsMissed
    <2>1. view - 1 \in visited /\ until <= lock[view] - Ladder
      BY DEF TimeInv, Timely, OnTheWay, Ahead
    <2>2. view \in Nat /\ visited \subseteq 1 .. Len(lock) /\ Len(lock) \in Nat
      BY Numbers DEF LoopInv, TypeInv, ThreadTyped
    <2>3. \A e \in visited : e \in Int /\ e <= view /\ e # view
      BY <2>2 DEF VisitInv, Ahead
    <2>4. \A e \in visited : view - 1 >= e
      BY <2>2, <2>3
    <2>5. \A x \in visited : (\A y \in visited : x >= y) => x = view - 1
      <3> SUFFICES ASSUME NEW x \in visited, \A y \in visited : x >= y
                   PROVE  x = view - 1
        OBVIOUS
      <3>1. x >= view - 1 /\ view - 1 >= x /\ x \in Int
        BY <2>1, <2>3, <2>4
      <3>2. QED
        BY <2>2, <3>1
    <2>6. Max(visited) = view - 1
      BY <2>1, <2>4, <2>5 DEF Max
    <2>7. QED
      BY <2>1, <2>2, <2>6
  <1>4. QED
    BY <1>1, <1>2, <1>3, PTL DEF Spec
=============================================================================
