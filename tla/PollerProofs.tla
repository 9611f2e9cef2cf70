----------------------------- MODULE PollerProofs -----------------------------
(***************************************************************************)
(* The pool poller, for every schedule, chain and number of rounds and     *)
(* faults: the cursor leaves no bet of the open round behind, a pool that  *)
(* is sized against an anchor is complete, the numbers of a verdict are at *)
(* hand, and the decision is made at its instant.                          *)
(*                                                                         *)
(* The invariant is built in layers.  Base says what the chain looks like  *)
(* and who holds the poll lock; every step keeps it by itself.  On it rest *)
(* Flags (the verdict and its numbers), Timely (the engine on the clock)   *)
(* and Early with Behind (the cursor), and on these Sized (the decision).  *)
(***************************************************************************)
EXTENDS RpcPoller, SequenceTheorems, TLAPS

-----------------------------------------------------------------------------
(* The constants, and a few facts of arithmetic.                           *)

LEMMA Constants ==
    /\ Interval \in Nat /\ Interval > 0 /\ PoolCutoff \in Nat /\ SingleOffset \in Nat
    /\ AnchorOffset \in Nat /\ Period \in Nat /\ Period > 0 /\ CapPeriodic \in Nat
    /\ SafetyBuffer \in Nat /\ CapSingle \in Nat /\ HeaderCap \in Nat /\ StartMargin \in Nat
    /\ Chunk \in Nat /\ Chunk > 0 /\ RsMargin \in Nat /\ MaxGaps \in Nat
    /\ CapSingle + AnchorOffset <= SingleOffset /\ Stalls \in BOOLEAN
  BY ScheduleAssumption

LEMMA HistoryTyped == History \in Nat /\ History = 2 + RsMargin + MaxGaps
  BY Constants DEF History

\* The later of two numbers, the earlier of two, the only one of a set.
LEMMA MaxOfTwo ==
    ASSUME NEW a \in Int, NEW b \in Int
    PROVE  Max({a, b}) = IF b > a THEN b ELSE a
  <1> DEFINE top == IF b > a THEN b ELSE a
  <1>1. top \in {a, b} /\ \A y \in {a, b} : top >= y
    OBVIOUS
  <1>2. \A x \in {a, b} : (\A y \in {a, b} : x >= y) => x = top
    OBVIOUS
  <1> HIDE DEF top
  <1>3. Max({a, b}) = top
    BY <1>1, <1>2, Zenon DEF Max
  <1>4. QED
    BY <1>3 DEF top

LEMMA MinOfTwo ==
    ASSUME NEW a \in Int, NEW b \in Int
    PROVE  Min({a, b}) = IF b < a THEN b ELSE a
  <1> DEFINE low == IF b < a THEN b ELSE a
  <1>1. low \in {a, b} /\ \A y \in {a, b} : low <= y
    OBVIOUS
  <1>2. \A x \in {a, b} : (\A y \in {a, b} : x <= y) => x = low
    OBVIOUS
  <1> HIDE DEF low
  <1>3. Min({a, b}) = low
    BY <1>1, <1>2, Zenon DEF Min
  <1>4. QED
    BY <1>3 DEF low

LEMMA MaxOfOne == ASSUME NEW a \in Int PROVE Max({a}) = a
  <1>1. a >= a
    OBVIOUS
  <1>2. QED
    BY <1>1, Zenon DEF Max

\* The next multiple of the period lies ahead.
LEMMA NextMultiple ==
    ASSUME NEW a \in Nat, NEW p \in Nat, p > 0
    PROVE  a \div p + 1 \in Nat /\ (a \div p + 1) * p \in Nat /\ a < (a \div p + 1) * p
  <1>1. a \div p \in Nat
    OBVIOUS
  <1>2. a < p * (a \div p + 1)
    OBVIOUS
  <1> DEFINE k == a \div p + 1
  <1>3. k \in Nat
    BY <1>1
  <1> HIDE DEF k
  <1>4. k * p = p * k /\ k * p \in Nat
    BY <1>3
  <1>5. QED
    BY <1>2, <1>3, <1>4 DEF k

\* The daemon's next tick lies ahead.
LEMMA NextTickLater ==
    ASSUME now \in Nat, NEW lock \in Nat
    PROVE  NextTick(lock) \in Int /\ now < NextTick(lock)
  <1> DEFINE open   == lock - Interval
             window == lock - SingleOffset
             safe   == window - CapPeriodic - SafetyBuffer
             k      == IF now < open THEN 1 ELSE (now - open) \div Period + 1
             next   == open + k * Period
  <1>1. open \in Int /\ window \in Int /\ safe \in Int /\ Period \in Nat /\ Period > 0
    BY Constants
  <1>2. next \in Int /\ now < next
    <2>1. CASE now < open
      <3>1. k = 1
        BY <2>1
      <3>2. next = open + Period
        BY <1>1, <3>1
      <3> HIDE DEF next, open
      <3>3. QED
        BY <1>1, <2>1, <3>2
    <2>2. CASE ~(now < open)
      <3> DEFINE a == now - open
                 m == k * Period
      <3>1. a \in Nat
        BY <1>1, <2>2
      <3>2. k = a \div Period + 1
        BY <2>2
      <3>3. m \in Nat /\ a < m
        BY <1>1, <3>1, <3>2, NextMultiple
      <3>4. next = open + m /\ a = now - open
        OBVIOUS
      <3> HIDE DEF a, m, next, open
      <3>5. QED
        BY <1>1, <3>3, <3>4
    <2>3. QED
      BY <2>1, <2>2
  <1>3. NextTick(lock) = CASE now >= lock                   -> now + Period
          [] now < lock /\ next >= window  -> lock
          [] now < lock /\ next < window /\ next > safe -> IF safe > now THEN safe ELSE lock
          [] OTHER                         -> next
    BY DEF NextTick
  <1> HIDE DEF open, window, safe, k, next
  <1>4. QED
    BY <1>1, <1>2, <1>3

-----------------------------------------------------------------------------
(* The chain: its blocks follow each other in time, its rounds do not      *)
(* overlap, and both only grow.                                            *)

\* The times ts of the blocks and the rounds rs at the time t, after g slots without
\* a block: a block is at most g slots later than its number tells, and a round begins
\* when the one before it is locked or later.
ShapeOf(ts, rs, t, g) ==
    /\ t \in Nat /\ g \in Nat /\ g <= MaxGaps
    /\ ts \in Seq(Int) /\ Len(ts) + g = t + History - 1
    /\ rs \in Seq([start : Nat, lock : Nat]) /\ Len(rs) >= 1
    /\ \A b \in 1 .. Len(ts) : b - History + 1 <= ts[b] /\ ts[b] <= b - History + 1 + g
    /\ \A a, b \in 1 .. Len(ts) : a <= b => ts[b] - ts[a] >= b - a
    /\ \A i \in 1 .. Len(rs) :
          1 <= rs[i].start /\ rs[i].start <= t /\ rs[i].lock = rs[i].start + Interval
    /\ \A i, j \in 1 .. Len(rs) : i < j => rs[i].lock <= rs[j].start

ChainShape == ShapeOf(blockTs, rounds, now, gaps)

\* What every step leaves as it was.
ChainGrows ==
    /\ now <= now' /\ gaps <= gaps'
    /\ Len(blockTs) <= Len(blockTs') /\ Len(rounds) <= Len(rounds')
    /\ \A b \in 1 .. Len(blockTs) : blockTs'[b] = blockTs[b]
    /\ \A i \in 1 .. Len(rounds) : rounds'[i] = rounds[i]
    /\ \A i \in 1 .. Len(rounds') : i > Len(rounds) => rounds'[i].start > now

LEMMA ChainStarts == ASSUME Init PROVE ChainShape
  <1> DEFINE n == History
  <1>0. n \in Nat /\ n > 0
    BY HistoryTyped, Constants
  <1>1. blockTs = [b \in 1 .. n |-> b - n + 1] /\ now = 1 /\ gaps = 0
    BY DEF Init
  <1>2. rounds = <<[start |-> 1, lock |-> 1 + Interval]>>
    BY DEF Init
  <1> HIDE DEF n
  <1>3. blockTs \in [1 .. n -> Int]
    BY <1>0, <1>1
  <1>4. blockTs \in Seq(Int)
    BY <1>0, <1>3, SeqDef
  <1>5. Len(blockTs) = n
    BY <1>0, <1>3, <1>4, LenProperties
  <1>6. \A b \in 1 .. n : blockTs[b] = b - n + 1
    BY <1>1
  <1>7. rounds \in Seq([start : Nat, lock : Nat]) /\ Len(rounds) = 1 /\ rounds[1].start = 1
        /\ rounds[1].lock = 1 + Interval
    BY <1>2, Constants
  <1>8. Len(blockTs) + gaps = now + History - 1
    BY <1>0, <1>1, <1>5 DEF n
  <1>9. \A b \in 1 .. n : b - History + 1 <= blockTs[b] /\ blockTs[b] <= b - History + 1 + gaps
    BY <1>0, <1>1, <1>6 DEF n
  <1>10. \A a, b \in 1 .. n : a <= b => blockTs[b] - blockTs[a] >= b - a
    BY <1>0, <1>6
  <1>11. \A i \in 1 .. 1 : i = 1
    OBVIOUS
  <1>12. /\ \A i \in 1 .. 1 : /\ 1 <= rounds[i].start /\ rounds[i].start <= 1
                              /\ rounds[i].lock = rounds[i].start + Interval
         /\ \A i, j \in 1 .. 1 : i < j => rounds[i].lock <= rounds[j].start
    BY <1>7, <1>11
  <1>13. 0 <= MaxGaps /\ 0 \in Nat /\ 1 \in Nat /\ 1 >= 1
    BY Constants
  <1>14. /\ \A b \in 1 .. Len(blockTs) :
               b - History + 1 <= blockTs[b] /\ blockTs[b] <= b - History + 1 + gaps
         /\ \A a, b \in 1 .. Len(blockTs) : a <= b => blockTs[b] - blockTs[a] >= b - a
    BY ONLY <1>5, <1>9, <1>10, Zenon
  <1>15. /\ now \in Nat /\ gaps \in Nat /\ gaps <= MaxGaps /\ Len(rounds) >= 1
         /\ \A i \in 1 .. Len(rounds) : /\ 1 <= rounds[i].start /\ rounds[i].start <= now
                                         /\ rounds[i].lock = rounds[i].start + Interval
         /\ \A i, j \in 1 .. Len(rounds) : i < j => rounds[i].lock <= rounds[j].start
    BY ONLY <1>1, <1>7, <1>12, <1>13, Zenon
  <1>16. QED
    BY <1>4, <1>7, <1>8, <1>14, <1>15, Zenon DEF ChainShape, ShapeOf

\* One block more, or one slot without one, or one round more.
LEMMA SlotKeepsShape ==
    ASSUME ChainShape, Slot
    PROVE  ChainShape' /\ ChainGrows
  <1> DEFINE n == Len(blockTs)
             m == Len(rounds)
             open == rounds[m]
  <1>1. now \in Nat /\ gaps \in Nat /\ gaps <= MaxGaps /\ blockTs \in Seq(Int)
        /\ rounds \in Seq([start : Nat, lock : Nat]) /\ m >= 1
    BY DEF ChainShape, ShapeOf
  <1>2. n \in Nat /\ m \in Nat
    BY <1>1, LenProperties
  <1>3. n + gaps = now + History - 1 /\ History \in Nat
    BY HistoryTyped DEF ChainShape, ShapeOf
  <1>4. \A b \in 1 .. n : b - History + 1 <= blockTs[b] /\ blockTs[b] <= b - History + 1 + gaps
    BY DEF ChainShape, ShapeOf
  <1>5. \A a, b \in 1 .. n : a <= b => blockTs[b] - blockTs[a] >= b - a
    BY DEF ChainShape, ShapeOf
  <1>6. \A i \in 1 .. m : /\ 1 <= rounds[i].start /\ rounds[i].start <= now
                          /\ rounds[i].lock = rounds[i].start + Interval
    BY DEF ChainShape, ShapeOf
  <1>7. \A i, j \in 1 .. m : i < j => rounds[i].lock <= rounds[j].start
    BY DEF ChainShape, ShapeOf
  <1>8. now' = now + 1
    BY DEF Slot
  <1>9. \A i \in 1 .. m : rounds[i] \in [start : Nat, lock : Nat]
    BY <1>1, ElementOfSeq
  <1>10. \A b \in 1 .. n : blockTs[b] \in Int
    BY <1>1, ElementOfSeq
  <1>11. \/ /\ blockTs' = Append(blockTs, now')
            /\ UNCHANGED gaps
            /\ \/ UNCHANGED rounds
               \/ /\ now' >= open.lock
                  /\ rounds' = Append(rounds, [start |-> now', lock |-> now' + Interval])
         \/ /\ gaps < MaxGaps /\ gaps' = gaps + 1
            /\ UNCHANGED <<blockTs, rounds>>
    BY DEF Slot
  \* The blocks.
  <1>20. /\ gaps' \in Nat /\ gaps' <= MaxGaps /\ gaps' >= gaps
         /\ blockTs' \in Seq(Int) /\ Len(blockTs') + gaps' = now' + History - 1 /\ n <= Len(blockTs')
         /\ \A b \in 1 .. n : blockTs'[b] = blockTs[b]
         /\ \A b \in 1 .. Len(blockTs') :
               b - History + 1 <= blockTs'[b] /\ blockTs'[b] <= b - History + 1 + gaps'
         /\ \A a, b \in 1 .. Len(blockTs') : a <= b => blockTs'[b] - blockTs'[a] >= b - a
    <2>1. CASE blockTs' = Append(blockTs, now') /\ UNCHANGED gaps
      <3>0. now' \in Int
        BY <1>1, <1>8
      <3>1. blockTs' \in Seq(Int) /\ Len(blockTs') = n + 1 /\ blockTs'[n + 1] = now'
            /\ \A b \in 1 .. n : blockTs'[b] = blockTs[b]
        BY <1>1, <2>1, <3>0, AppendProperties
      <3>2. \A b \in 1 .. n + 1 : b \in 1 .. n \/ b = n + 1
        BY <1>2
      <3> HIDE DEF n
      <3>3. \A b \in 1 .. n + 1 :
               b - History + 1 <= blockTs'[b] /\ blockTs'[b] <= b - History + 1 + gaps
        <4> TAKE b \in 1 .. n + 1
        <4>1. CASE b \in 1 .. n
          BY <1>4, <3>1, <4>1
        <4>2. CASE b = n + 1
          <5>1. blockTs'[b] = now + 1
            BY <1>8, <3>1, <4>2
          <5>2. QED
            BY <1>1, <1>2, <1>3, <4>2, <5>1
        <4>3. QED
          BY <3>2, <4>1, <4>2
      <3>4. \A a, b \in 1 .. n + 1 : a <= b => blockTs'[b] - blockTs'[a] >= b - a
        <4> SUFFICES ASSUME NEW a \in 1 .. n + 1, NEW b \in 1 .. n + 1, a <= b
                     PROVE  blockTs'[b] - blockTs'[a] >= b - a
          OBVIOUS
        <4>1. CASE b \in 1 .. n
          <5>1. a \in 1 .. n
            BY <1>2, <4>1
          <5>2. blockTs'[a] = blockTs[a] /\ blockTs'[b] = blockTs[b]
            BY <3>1, <4>1, <5>1
          <5>3. QED
            BY <1>5, <4>1, <5>1, <5>2
        <4>2. CASE b = n + 1 /\ a \in 1 .. n
          <5>1. blockTs'[b] = now + 1 /\ blockTs'[a] = blockTs[a]
            BY <1>8, <3>1, <4>2
          <5>2. blockTs[a] <= a - History + 1 + gaps /\ blockTs[a] \in Int
            BY <1>4, <1>10, <4>2
          <5> DEFINE x == blockTs[a]
          <5>3. x <= a - History + 1 + gaps /\ x \in Int
            BY <5>2
          <5> HIDE DEF x
          <5>4. (now + 1) - x >= b - a
            BY <1>1, <1>2, <1>3, <4>2, <5>3
          <5>5. QED
            BY <5>1, <5>4 DEF x
        <4>3. CASE b = n + 1 /\ a = n + 1
          <5>1. blockTs'[b] = now + 1 /\ blockTs'[a] = now + 1
            BY <1>8, <3>1, <4>3
          <5>2. QED
            BY <1>1, <1>2, <4>3, <5>1
        <4>4. QED
          BY <3>2, <4>1, <4>2, <4>3
      <3>5. n + 1 + gaps = now' + History - 1 /\ n <= n + 1
        BY <1>1, <1>2, <1>3, <1>8
      <3>6. gaps >= gaps
        BY <1>1
      <3>7. gaps' = gaps /\ Len(blockTs') = n + 1
        BY <2>1, <3>1
      <3>8. QED
        BY ONLY <1>1, <3>1, <3>3, <3>4, <3>5, <3>6, <3>7, Zenon
    <2>2. CASE gaps < MaxGaps /\ gaps' = gaps + 1 /\ UNCHANGED blockTs
      <3> HIDE DEF n
      <3>0. MaxGaps \in Nat
        BY Constants
      <3>1. gaps' \in Nat /\ gaps' <= MaxGaps /\ gaps' >= gaps
        BY <1>1, <2>2, <3>0
      <3>2. n + gaps' = now' + History - 1 /\ n <= n
        BY <1>1, <1>2, <1>3, <1>8, <2>2
      <3>3. \A b \in 1 .. n :
               b - History + 1 <= blockTs[b] /\ blockTs[b] <= b - History + 1 + gaps'
        BY <1>1, <1>2, <1>3, <1>4, <1>10, <2>2
      <3>4. QED
        BY <1>1, <1>5, <2>2, <3>1, <3>2, <3>3 DEF n
    <2>3. QED
      BY <1>11, <2>1, <2>2
  \* The rounds.
  <1>30. /\ rounds' \in Seq([start : Nat, lock : Nat]) /\ Len(rounds') >= 1 /\ m <= Len(rounds')
         /\ \A i \in 1 .. m : rounds'[i] = rounds[i]
         /\ \A i \in 1 .. Len(rounds') : i > m => rounds'[i].start > now
         /\ \A i \in 1 .. Len(rounds') :
               /\ 1 <= rounds'[i].start /\ rounds'[i].start <= now'
               /\ rounds'[i].lock = rounds'[i].start + Interval
         /\ \A i, j \in 1 .. Len(rounds') : i < j => rounds'[i].lock <= rounds'[j].start
    <2>1. CASE UNCHANGED rounds
      <3> HIDE DEF m
      <3>1. \A i \in 1 .. m : 1 <= rounds[i].start /\ rounds[i].start <= now'
        BY <1>1, <1>6, <1>8, <1>9
      <3>2. \A i \in 1 .. m : ~(i > m)
        BY <1>2
      <3>3. m >= 1 /\ m <= m
        BY <1>1, <1>2
      <3>4. QED
        BY <1>1, <1>6, <1>7, <2>1, <3>1, <3>2, <3>3 DEF m
    <2>2. CASE now' >= open.lock /\ rounds' = Append(rounds, [start |-> now', lock |-> now' + Interval])
      <3> DEFINE r == [start |-> now', lock |-> now' + Interval]
      <3>0. r \in [start : Nat, lock : Nat] /\ r.start = now + 1 /\ r.lock = r.start + Interval
        BY <1>1, <1>8, Constants
      <3> HIDE DEF r
      <3>1. rounds' \in Seq([start : Nat, lock : Nat]) /\ Len(rounds') = m + 1 /\ rounds'[m + 1] = r
            /\ \A i \in 1 .. m : rounds'[i] = rounds[i]
        BY <1>1, <2>2, <3>0, AppendProperties DEF r
      <3>2. \A i \in 1 .. m + 1 : i \in 1 .. m \/ i = m + 1
        BY <1>2
      <3>3. open.lock <= r.start /\ open.lock = rounds[m].lock
        BY <1>8, <2>2, <3>0
      <3>4. \A i \in 1 .. m : rounds[i].lock <= r.start
        <4> TAKE i \in 1 .. m
        <4>1. CASE i = m
          BY <3>3, <4>1
        <4>2. CASE i # m
          <5> HIDE DEF m
          <5>1. i < m /\ m \in 1 .. m
            BY <1>1, <1>2, <4>2
          <5>2. rounds[i].lock <= rounds[m].start /\ rounds[m].start <= now
            BY <1>6, <1>7, <5>1
          <5>3. rounds[i].lock \in Nat /\ rounds[m].start \in Nat
            BY <1>9, <5>1
          <5> DEFINE x == rounds[i].lock
                     y == rounds[m].start
                     z == r.start
          <5>4. x <= y /\ y <= now /\ x \in Nat /\ y \in Nat /\ z = now + 1
            BY <3>0, <5>2, <5>3
          <5> HIDE DEF x, y, z
          <5>5. x <= z
            BY <1>1, <5>4
          <5>6. QED
            BY <5>5 DEF x, z
        <4>3. QED
          BY <4>1, <4>2
      <3> HIDE DEF m
      <3>5. \A i \in 1 .. m + 1 : /\ 1 <= rounds'[i].start /\ rounds'[i].start <= now'
                                  /\ rounds'[i].lock = rounds'[i].start + Interval
        <4> TAKE i \in 1 .. m + 1
        <4>1. CASE i \in 1 .. m
          <5> DEFINE x == rounds[i].start
          <5>1. 1 <= x /\ x <= now /\ rounds[i].lock = x + Interval /\ x \in Nat
            BY <1>6, <1>9, <4>1
          <5>2. rounds'[i] = rounds[i]
            BY <3>1, <4>1
          <5> HIDE DEF x
          <5>3. x <= now'
            BY <1>1, <1>8, <5>1
          <5>4. QED
            BY <5>1, <5>2, <5>3 DEF x
        <4>2. CASE i = m + 1
          BY <1>1, <1>8, <3>0, <3>1, <4>2
        <4>3. QED
          BY <3>2, <4>1, <4>2
      <3>6. \A i, j \in 1 .. m + 1 : i < j => rounds'[i].lock <= rounds'[j].start
        <4> SUFFICES ASSUME NEW i \in 1 .. m + 1, NEW j \in 1 .. m + 1, i < j
                     PROVE  rounds'[i].lock <= rounds'[j].start
          OBVIOUS
        <4>1. i \in 1 .. m
          BY <1>2
        <4>2. CASE j \in 1 .. m
          BY <1>7, <3>1, <4>1, <4>2
        <4>3. CASE j = m + 1
          BY <3>1, <3>4, <4>1, <4>3
        <4>4. QED
          BY <3>2, <4>2, <4>3
      <3>7. \A i \in 1 .. m + 1 : i > m => rounds'[i].start > now
        <4> SUFFICES ASSUME NEW i \in 1 .. m + 1, i > m PROVE rounds'[i].start > now
          OBVIOUS
        <4>1. i = m + 1
          BY <1>2
        <4>2. QED
          BY <1>1, <3>0, <3>1, <4>1
      <3>8. m + 1 >= 1 /\ m <= m + 1
        BY <1>2
      <3>9. QED
        BY <3>1, <3>5, <3>6, <3>7, <3>8
    <2>3. QED
      BY <1>11, <2>1, <2>2
  <1>40. now' \in Nat /\ now <= now' /\ gaps <= gaps'
    BY <1>1, <1>8, <1>20
  <1>41. ChainShape'
    BY <1>20, <1>30, <1>40 DEF ChainShape, ShapeOf
  <1>42. ChainGrows
    BY <1>20, <1>30, <1>40 DEF ChainGrows
  <1>43. QED
    BY <1>41, <1>42

\* Every other step leaves the chain alone.
LEMMA ChainStays ==
    ASSUME ChainShape, UNCHANGED chainVars
    PROVE  ChainShape' /\ ChainGrows
  <1>1. ChainShape'
    BY DEF ChainShape, chainVars
  <1>2. now \in Nat /\ gaps \in Nat /\ Len(blockTs) \in Nat /\ Len(rounds) \in Nat
    BY LenProperties DEF ChainShape, ShapeOf
  <1> DEFINE m == Len(rounds)
  <1>3. \A i \in 1 .. m : ~(i > m)
    BY <1>2
  <1>4. now <= now /\ gaps <= gaps /\ Len(blockTs) <= Len(blockTs) /\ m <= m
    BY <1>2
  <1>5. ChainGrows
    BY <1>3, <1>4 DEF ChainGrows, chainVars
  <1>6. QED
    BY <1>1, <1>5

LEMMA ChainStep ==
    ASSUME ChainShape, [Next]_vars
    PROVE  ChainShape' /\ ChainGrows
  <1>1. Slot \/ UNCHANGED chainVars
    BY DEF Next, vars, PollStep, EngineStep, PollHead, PollHeadFails, PollFlag,
           PollCapBetweenChunks, PollRangeFails, PollRange, PollStamps, PollAppend, PollAdvance,
           OrphanEnds, SetRoundPhase, InitLock, InitCursor, AdvanceHeader, AdvanceCommit,
           AdvanceFeasibility, SinglePoll, AnchorPoll, IsPoolReady, GetPool, DaemonPlan, DaemonTick
  <1>2. QED
    BY <1>1, SlotKeepsShape, ChainStays

-----------------------------------------------------------------------------
(* Which round a block belongs to, and where a round begins.               *)

RoundAt(rs, t) ==
    LET E == {e \in DOMAIN rs : rs[e].start < t /\ t < rs[e].lock}
    IN  IF E = {} THEN 0 ELSE Max(E)

\* Rounds do not overlap: a time lies in at most one of them.
LEMMA RoundAtIs ==
    ASSUME NEW rs \in Seq([start : Nat, lock : Nat]), NEW t \in Int,
           \A i, j \in 1 .. Len(rs) : i < j => rs[i].lock <= rs[j].start,
           NEW e \in 1 .. Len(rs)
    PROVE  RoundAt(rs, t) = e <=> rs[e].start < t /\ t < rs[e].lock
  <1> DEFINE m == Len(rs)
             E == {d \in 1 .. m : rs[d].start < t /\ t < rs[d].lock}
  <1>1. m \in Nat /\ DOMAIN rs = 1 .. m
    BY LenProperties
  <1>2. RoundAt(rs, t) = IF E = {} THEN 0 ELSE Max(E)
    BY <1>1 DEF RoundAt
  <1>3. \A d \in 1 .. m : rs[d].start \in Nat /\ rs[d].lock \in Nat
    <2> TAKE d \in 1 .. m
    <2>1. rs[d] \in [start : Nat, lock : Nat]
      BY ElementOfSeq
    <2>2. QED
      BY <2>1
  <1>4. \A i, j \in 1 .. m : i < j => rs[i].lock <= rs[j].start
    OBVIOUS
  <1> HIDE DEF m
  <1>5. \A c, d \in 1 .. m : c \in E /\ d \in E => ~(c < d)
    <2> SUFFICES ASSUME NEW c \in 1 .. m, NEW d \in 1 .. m, c \in E, d \in E, c < d PROVE FALSE
      OBVIOUS
    <2> DEFINE x == rs[c].lock
               y == rs[d].start
    <2>1. x \in Nat /\ y \in Nat /\ x <= y
      BY <1>3, <1>4
    <2>2. t < x /\ y < t
      OBVIOUS
    <2> HIDE DEF x, y, E
    <2>3. QED
      BY <2>1, <2>2
  <1>6. \A c, d \in E : c = d
    <2> SUFFICES ASSUME NEW c \in E, NEW d \in E PROVE c = d
      OBVIOUS
    <2>1. c \in 1 .. m /\ d \in 1 .. m
      OBVIOUS
    <2>2. ~(c < d) /\ ~(d < c)
      BY <1>5, <2>1
    <2> HIDE DEF E
    <2>3. QED
      BY <1>1, <2>1, <2>2
  <1>7. e \in 1 .. m /\ e # 0
    BY <1>1 DEF m
  <1>8. \A d \in E : Max(E) = d
    <2> TAKE d \in E
    <2>1. d \in Int
      OBVIOUS
    <2>2. E = {d}
      BY <1>6
    <2> HIDE DEF E
    <2>3. QED
      BY <2>1, <2>2, MaxOfOne
  <1>9. e \in E <=> rs[e].start < t /\ t < rs[e].lock
    BY <1>7
  <1> HIDE DEF E
  <1>10. RoundAt(rs, t) = e <=> e \in E
    <2>1. CASE E = {}
      BY <1>2, <1>7, <2>1
    <2>2. CASE E # {}
      <3>1. PICK d \in E : TRUE
        BY <2>2
      <3>2. RoundAt(rs, t) = d
        BY <1>2, <1>8, <2>2
      <3>3. QED
        BY <1>6, <3>1, <3>2
    <2>3. QED
      BY <2>1, <2>2
  <1>11. QED
    BY <1>9, <1>10

Holds(b, e) == rounds[e].start < blockTs[b] /\ blockTs[b] < rounds[e].lock

LEMMA EpochOfIs ==
    ASSUME ChainShape, NEW b \in 1 .. Len(blockTs), NEW e \in 1 .. Len(rounds)
    PROVE  EpochOf(b) = e <=> Holds(b, e)
  <1>1. EpochOf(b) = RoundAt(rounds, blockTs[b])
    BY DEF EpochOf, RoundAt
  <1>2. blockTs[b] \in Int
    BY ElementOfSeq DEF ChainShape, ShapeOf
  <1> DEFINE t == blockTs[b]
  <1>3. rounds \in Seq([start : Nat, lock : Nat])
        /\ \A i, j \in 1 .. Len(rounds) : i < j => rounds[i].lock <= rounds[j].start
    BY DEF ChainShape, ShapeOf
  <1>4. t \in Int
    BY <1>2
  <1> HIDE DEF t
  <1>5. RoundAt(rounds, t) = e <=> rounds[e].start < t /\ t < rounds[e].lock
    BY <1>3, <1>4, RoundAtIs
  <1>6. QED
    BY <1>1, <1>5, Zenon DEF Holds, t

\* A block stays in the round it was mined in.
LEMMA EpochOfStays ==
    ASSUME ChainShape, ChainShape', ChainGrows,
           NEW b \in 1 .. Len(blockTs), NEW e \in 1 .. Len(rounds)
    PROVE  EpochOf(b)' = e <=> EpochOf(b) = e
  <1>1. EpochOf(b)' = RoundAt(rounds', blockTs'[b])
    BY DEF EpochOf, RoundAt
  <1>2. Len(blockTs) \in Nat /\ Len(blockTs') \in Nat /\ Len(rounds) \in Nat /\ Len(rounds') \in Nat
    BY LenProperties DEF ChainShape, ShapeOf
  <1>3. b \in 1 .. Len(blockTs') /\ e \in 1 .. Len(rounds')
    BY <1>2 DEF ChainGrows
  <1>4. blockTs'[b] \in Int
    BY <1>3, ElementOfSeq DEF ChainShape, ShapeOf
  <1>5. RoundAt(rounds', blockTs'[b]) = e
          <=> rounds'[e].start < blockTs'[b] /\ blockTs'[b] < rounds'[e].lock
    BY <1>3, <1>4, RoundAtIs DEF ChainShape, ShapeOf
  <1>6. rounds'[e] = rounds[e] /\ blockTs'[b] = blockTs[b]
    BY DEF ChainGrows
  <1>7. QED
    BY <1>1, <1>5, <1>6, EpochOfIs DEF Holds

\* The estimate of a start block is a block, and no block before it lies in the round.
LEMMA StartBlock ==
    ASSUME ChainShape, NEW h \in 1 .. Len(blockTs), NEW s \in Nat, s >= 1,
           NEW margin \in {0, RsMargin}
    PROVE  /\ RoundStartBlock(h, s, margin) \in 1 .. h
           /\ \A b \in 1 .. RoundStartBlock(h, s, margin) - 1 : blockTs[b] <= s
  <1> DEFINE n == Len(blockTs)
             x == blockTs[h]
             r == RoundStartBlock(h, s, margin)
  <1>1. n \in Nat /\ x \in Int
    BY LenProperties, ElementOfSeq DEF ChainShape, ShapeOf
  <1>2. x <= h - History + 1 + gaps /\ gaps \in Nat /\ gaps <= MaxGaps
    BY DEF ChainShape, ShapeOf
  <1>3. \A b \in 1 .. n : b <= h => x - blockTs[b] >= h - b
    BY DEF ChainShape, ShapeOf
  <1>4. \A b \in 1 .. n : blockTs[b] \in Int
    BY ElementOfSeq DEF ChainShape, ShapeOf
  <1>5. h \in 1 .. n
    OBVIOUS
  <1>6. r = IF x - s <= 0 THEN h
            ELSE IF h - ((x - s) + margin) > 0 THEN h - ((x - s) + margin) ELSE 0
    BY DEF RoundStartBlock
  <1>7. margin \in Nat /\ margin <= RsMargin /\ RsMargin \in Nat /\ MaxGaps \in Nat
    BY Constants
  <1> HIDE DEF n, x, r
  <1>8. h - ((x - s) + margin) > 0
    BY <1>1, <1>2, <1>5, <1>7, HistoryTyped
  <1>9. r \in 1 .. h /\ r <= h /\ (x - s <= 0 => r = h) /\ (~(x - s <= 0) => r = h - ((x - s) + margin))
    BY <1>1, <1>5, <1>6, <1>7, <1>8
  <1>10. \A b \in 1 .. r - 1 : blockTs[b] <= s
    <2> TAKE b \in 1 .. r - 1
    <2> DEFINE y == blockTs[b]
    <2>1. b \in 1 .. n /\ b <= h /\ b <= r - 1
      BY <1>1, <1>5, <1>9
    <2>2. y \in Int /\ x - y >= h - b
      BY <1>3, <1>4, <2>1
    <2> HIDE DEF y
    <2>3. y <= s
      BY <1>1, <1>5, <1>7, <1>9, <2>1, <2>2
    <2>4. QED
      BY <2>3 DEF y
  <1>11. QED
    BY <1>9, <1>10 DEF r

\* No block is of a later time than the clock's.
LEMMA BlockIsPast ==
    ASSUME ChainShape, NEW h \in 1 .. Len(blockTs)
    PROVE  h \in Nat /\ blockTs[h] \in Int /\ blockTs[h] <= now
  <1> DEFINE n == Len(blockTs)
             x == blockTs[h]
  <1>1. h \in 1 .. n
    OBVIOUS
  <1>2. n \in Nat /\ x \in Int
    BY <1>1, LenProperties, ElementOfSeq DEF ChainShape, ShapeOf
  <1>3. x <= h - History + 1 + gaps /\ gaps \in Nat /\ n + gaps = now + History - 1 /\ now \in Nat
    BY <1>1 DEF ChainShape, ShapeOf
  <1> HIDE DEF n, x
  <1>4. x <= now /\ h \in Nat
    BY <1>1, <1>2, <1>3, HistoryTyped
  <1>5. QED
    BY <1>2, <1>4 DEF x

\* A block a node gives as its newest.
LEMMA HeadIsBlock ==
    ASSUME ChainShape, NEW h \in Heads
    PROVE  h \in 1 .. Len(blockTs) /\ h \in Nat /\ blockTs[h] \in Int /\ blockTs[h] <= now
  <1>1. h \in 1 .. Len(blockTs)
    BY DEF Heads, Blocks
  <1>2. QED
    BY <1>1, BlockIsPast

\* The blocks, in order of their numbers, are in order of their times.
LEMMA BlocksInOrder ==
    ASSUME ChainShape, NEW a \in 1 .. Len(blockTs), NEW b \in 1 .. Len(blockTs), a <= b
    PROVE  blockTs[a] \in Int /\ blockTs[b] \in Int /\ blockTs[a] <= blockTs[b]
  <1> DEFINE x == blockTs[a]
             y == blockTs[b]
             n == Len(blockTs)
  <1>1. x \in Int /\ y \in Int /\ n \in Nat
    BY LenProperties, ElementOfSeq DEF ChainShape, ShapeOf
  <1>2. y - x >= b - a
    BY DEF ChainShape, ShapeOf
  <1>3. a \in 1 .. n /\ b \in 1 .. n
    OBVIOUS
  <1> HIDE DEF x, y, n
  <1>4. x <= y
    BY <1>1, <1>2, <1>3
  <1>5. QED
    BY <1>1, <1>4 DEF x, y

-----------------------------------------------------------------------------
(* The base: the types, the chain, and the round the bot is in.            *)

PollPcs   == {"idle", "head", "flag", "fetch", "stamp", "append", "advance"}
EngPcs    == {"idle", "initLock", "initCursor", "advHeader", "advCommit", "advHead", "waitSingle",
              "polling", "waitAnchor", "decide", "read"}
DaemonPcs == {"plan", "wait", "polling"}

PollSort   == [pc : PollPcs, head : Nat, from : Nat, to : Nat, parsed : SUBSET Nat, abortAt : Nat]
EngSort    == [pc : EngPcs, epoch : Nat, jump : Nat, by : Nat, dropped : {"no", "same", "other"},
               late : BOOLEAN]
DaemonSort == [pc : DaemonPcs, lock : Nat, wake : Int]

Typed ==
    /\ epoch \in Nat /\ lockAt \in Nat /\ cursor \in Nat
    /\ infeasible \in BOOLEAN /\ detail \in BOOLEAN
    /\ pollLock \in {"free", "engine", "daemon"}
    /\ poll \in PollSort
    /\ eng \in EngSort
    /\ daemon \in DaemonSort

Calendar ==
    /\ epoch <= Len(rounds)
    /\ epoch = 0 => lockAt = 0
    /\ epoch > 0 => lockAt = rounds[epoch].lock
    /\ eng.pc # "idle" => epoch > 0
    /\ eng.pc \in {"advHeader", "advCommit"} => eng.epoch > epoch /\ eng.epoch <= Len(rounds)

\* Who holds the poll lock, and for what.
Locks ==
    /\ eng.pc = "polling" <=> pollLock = "engine" /\ poll.pc # "idle"
    /\ eng.pc = "initCursor" <=> pollLock = "engine" /\ poll.pc = "idle"
    /\ daemon.pc = "polling" <=> pollLock = "daemon"
    /\ pollLock = "daemon" => poll.pc # "idle"
    /\ pollLock = "free" => poll.pc = "idle"

Base == Typed /\ ChainShape /\ Calendar /\ Locks

\* The round of a number, and of the clock.
LEMMA RoundFacts ==
    ASSUME ChainShape, NEW e \in Nat, e > 0, e <= Len(rounds)
    PROVE  /\ e \in 1 .. Len(rounds)
           /\ rounds[e].start \in Nat /\ rounds[e].lock \in Nat
           /\ rounds[e].start >= 1 /\ rounds[e].start <= now
           /\ rounds[e].lock = rounds[e].start + Interval
           /\ rounds[e].lock - Interval = rounds[e].start
  <1> DEFINE m == Len(rounds)
             x == rounds[e].start
             y == rounds[e].lock
  <1>1. m \in Nat
    BY LenProperties DEF ChainShape, ShapeOf
  <1>2. e \in 1 .. m
    BY <1>1
  <1>3. rounds[e] \in [start : Nat, lock : Nat]
    BY <1>2, ElementOfSeq DEF ChainShape, ShapeOf
  <1>4. 1 <= x /\ x <= now /\ y = x + Interval
    BY <1>2 DEF ChainShape, ShapeOf
  <1>5. x \in Nat /\ y \in Nat
    BY <1>3
  <1> HIDE DEF x, y, m
  <1>6. x >= 1 /\ y - Interval = x
    BY <1>4, <1>5, Constants
  <1>7. QED
    BY <1>2, <1>4, <1>5, <1>6 DEF x, y, m

LEMMA OpenRound ==
    ASSUME Base, epoch > 0
    PROVE  /\ epoch \in 1 .. Len(rounds) /\ lockAt = rounds[epoch].lock
           /\ lockAt - Interval = rounds[epoch].start
           /\ rounds[epoch].start \in Nat /\ rounds[epoch].start >= 1
           /\ rounds[epoch].start <= now
  BY RoundFacts DEF Base, Typed, Calendar

\* The end of a poll, whoever ran it.
LEMMA EndPollMoves ==
    ASSUME Typed, EndPoll
    PROVE  /\ pollLock' = "free" /\ poll' = IdlePoll
           /\ poll' \in PollSort /\ eng' \in EngSort /\ daemon' \in DaemonSort
           /\ eng'.epoch = eng.epoch /\ eng'.jump = eng.jump /\ eng'.by = eng.by
           /\ eng'.dropped = eng.dropped /\ eng'.late = eng.late
           /\ daemon'.lock = daemon.lock /\ daemon'.wake = daemon.wake
           /\ pollLock = "engine" => eng'.pc = "waitAnchor" /\ daemon' = daemon
           /\ pollLock # "engine" => daemon'.pc = "plan" /\ eng' = eng
  <1>1. pollLock' = "free" /\ poll' = IdlePoll
    BY DEF EndPoll
  <1>2. poll' \in PollSort
    BY <1>1 DEF IdlePoll, PollSort, PollPcs
  <1>3. CASE pollLock = "engine"
    <2>1. eng' = [eng EXCEPT !.pc = "waitAnchor"] /\ daemon' = daemon
      BY <1>3 DEF EndPoll
    <2>2. QED
      BY <1>1, <1>2, <1>3, <2>1 DEF Typed, EngSort, EngPcs
  <1>4. CASE pollLock # "engine"
    <2>1. daemon' = [daemon EXCEPT !.pc = "plan"] /\ eng' = eng
      BY <1>4 DEF EndPoll
    <2>2. QED
      BY <1>1, <1>2, <1>4, <2>1 DEF Typed, DaemonSort, DaemonPcs
  <1>5. QED
    BY <1>3, <1>4

LEMMA StartPollMoves ==
    ASSUME now \in Nat, NEW thread, NEW cap \in Nat, StartPoll(thread, cap)
    PROVE  /\ pollLock' = thread /\ poll' \in PollSort
           /\ poll'.pc = "head" /\ poll'.abortAt = now + cap
  <1> DEFINE c == now + cap
  <1>1. c \in Nat
    OBVIOUS
  <1>2. pollLock' = thread /\ poll' = [IdlePoll EXCEPT !.pc = "head", !.abortAt = c]
    BY DEF StartPoll
  <1> HIDE DEF c
  <1>3. poll' \in PollSort /\ poll'.pc = "head" /\ poll'.abortAt = c
    BY <1>1, <1>2 DEF IdlePoll, PollSort, PollPcs
  <1>4. QED
    BY <1>2, <1>3 DEF c

\* A cursor or a mark that only moves forward.
LEMMA MaxTyped ==
    ASSUME NEW a \in Nat, NEW b \in Nat
    PROVE  Max({a, b}) \in Nat /\ Max({a, b}) \in {a, b} /\ Max({a, b}) >= a
  BY MaxOfTwo

LEMMA TypedPoll ==
    ASSUME Base, PollStep \/ OrphanEnds
    PROVE  Typed'
  <1>0. epoch \in Nat /\ lockAt \in Nat /\ cursor \in Nat /\ infeasible \in BOOLEAN
        /\ detail \in BOOLEAN /\ pollLock \in {"free", "engine", "daemon"} /\ poll \in PollSort
        /\ eng \in EngSort /\ daemon \in DaemonSort
    BY DEF Base, Typed
  <1>1. CASE PollHead
    <2>1. PICK h \in Heads :
            \/ EndPoll /\ UNCHANGED detail
            \/ /\ detail' = TRUE
               /\ \/ /\ poll' = [poll EXCEPT !.pc = "flag"]
                     /\ UNCHANGED <<inProgress, pollLock, eng, daemon>>
                  \/ EndPoll
            \/ /\ poll' = [poll EXCEPT !.pc = "fetch", !.head = h, !.from = cursor + 1]
               /\ UNCHANGED <<connected, detail, inProgress, pollLock, eng, daemon>>
      BY <1>1 DEF PollHead
    <2>2. UNCHANGED <<epoch, lockAt, infeasible, cursor>> /\ detail' \in BOOLEAN
      BY <1>0, <1>1, <2>1 DEF PollHead
    <2>3. h \in Nat
      BY HeadIsBlock DEF Base
    <2>4. CASE EndPoll
      BY <1>0, <2>2, <2>4, EndPollMoves DEF Base, Typed
    <2>5. CASE poll' = [poll EXCEPT !.pc = "flag"] /\ UNCHANGED <<pollLock, eng, daemon>>
      <3>1. poll' \in PollSort
        BY <1>0, <2>5 DEF PollSort, PollPcs
      <3>2. QED
        BY <1>0, <2>2, <2>5, <3>1 DEF Typed
    <2>6. CASE /\ poll' = [poll EXCEPT !.pc = "fetch", !.head = h, !.from = cursor + 1]
               /\ UNCHANGED <<pollLock, eng, daemon>>
      <3> DEFINE c == cursor + 1
      <3>1. c \in Nat /\ poll' = [poll EXCEPT !.pc = "fetch", !.head = h, !.from = c]
        BY <1>0, <2>6
      <3> HIDE DEF c
      <3>2. poll' \in PollSort
        BY <1>0, <2>3, <3>1 DEF PollSort, PollPcs
      <3>3. QED
        BY <1>0, <2>2, <2>6, <3>2 DEF Typed
    <2>7. QED
      BY <2>1, <2>4, <2>5, <2>6
  <1>2. CASE PollHeadFails \/ PollCapBetweenChunks \/ PollRangeFails
    <2>1. EndPoll /\ UNCHANGED <<epoch, lockAt, infeasible, detail, cursor>>
      BY <1>2 DEF PollHeadFails, PollCapBetweenChunks, PollRangeFails, roundVars
    <2>2. QED
      BY <1>0, <2>1, EndPollMoves DEF Base, Typed
  <1>3. CASE PollFlag
    <2>1. EndPoll /\ UNCHANGED <<epoch, lockAt, detail, cursor>> /\ infeasible' = TRUE
      BY <1>3 DEF PollFlag
    <2>2. QED
      BY <1>0, <2>1, EndPollMoves DEF Base, Typed
  <1>4. CASE PollRange
    <2>1. PICK to, parsed :
            /\ to = Min({poll.from + Chunk - 1, poll.head})
            /\ parsed \subseteq poll.from .. to
            /\ \/ poll' = [poll EXCEPT !.to = to, !.parsed = parsed, !.pc = "advance"]
               \/ poll' = [poll EXCEPT !.to = to, !.parsed = parsed, !.pc = "stamp"]
      <3> DEFINE t == Min({poll.from + Chunk - 1, poll.head})
                 p == {b \in poll.from .. t : EpochOf(b) \in {epoch, epoch + 1}}
      <3>1. p \subseteq poll.from .. t
        OBVIOUS
      <3>2. poll' = [poll EXCEPT !.to = t, !.parsed = p,
                                 !.pc = IF p = {} THEN "advance" ELSE "stamp"]
        BY <1>4 DEF PollRange
      <3> HIDE DEF p, t
      <3>3. \/ poll' = [poll EXCEPT !.to = t, !.parsed = p, !.pc = "advance"]
            \/ poll' = [poll EXCEPT !.to = t, !.parsed = p, !.pc = "stamp"]
        BY <3>2
      <3>4. QED
        BY <3>1, <3>3 DEF t
    <2>2. poll.from \in Nat /\ poll.head \in Nat
      BY <1>0 DEF PollSort, PollPcs
    <2>3. to \in Nat
      <3> DEFINE a == poll.from + Chunk - 1
      <3>1. a \in Nat
        BY <2>2, Constants
      <3> HIDE DEF a
      <3>2. Min({a, poll.head}) \in Nat
        BY <2>2, <3>1, MinOfTwo
      <3>3. QED
        BY <2>1, <3>2 DEF a
    <2>4. parsed \in SUBSET Nat
      BY <2>1, <2>2, <2>3
    <2>5. poll' \in PollSort
      BY <1>0, <2>1, <2>3, <2>4 DEF PollSort, PollPcs
    <2>6. UNCHANGED <<epoch, lockAt, infeasible, detail, cursor, pollLock, eng, daemon>>
      BY <1>4 DEF PollRange, roundVars
    <2>7. QED
      BY <1>0, <2>5, <2>6 DEF Typed
  <1>5. CASE PollStamps \/ PollAppend
    <2>1. /\ \/ poll' = [poll EXCEPT !.pc = "append"]
             \/ poll' = [poll EXCEPT !.pc = "advance"]
          /\ UNCHANGED <<epoch, lockAt, infeasible, detail, cursor, pollLock, eng, daemon>>
      BY <1>5 DEF PollStamps, PollAppend, roundVars
    <2>2. poll' \in PollSort
      BY <1>0, <2>1 DEF PollSort, PollPcs
    <2>3. QED
      BY <1>0, <2>1, <2>2 DEF Typed
  <1>6. CASE PollAdvance
    <2>1. /\ cursor' = Max({cursor, poll.to})
          /\ \/ /\ poll' = [poll EXCEPT !.pc = "fetch", !.from = poll.to + 1]
                /\ UNCHANGED <<pollLock, eng, daemon>>
             \/ EndPoll
          /\ UNCHANGED <<epoch, lockAt, infeasible, detail>>
      BY <1>6 DEF PollAdvance, roundVars
    <2>2. poll.to \in Nat
      BY <1>0 DEF PollSort, PollPcs
    <2>3. cursor' \in Nat
      BY <1>0, <2>1, <2>2, MaxTyped
    <2>4. CASE EndPoll
      BY <1>0, <2>1, <2>3, <2>4, EndPollMoves DEF Base, Typed
    <2>5. CASE /\ poll' = [poll EXCEPT !.pc = "fetch", !.from = poll.to + 1]
               /\ UNCHANGED <<pollLock, eng, daemon>>
      <3> DEFINE c == poll.to + 1
      <3>1. c \in Nat /\ poll' = [poll EXCEPT !.pc = "fetch", !.from = c]
        BY <2>2, <2>5
      <3> HIDE DEF c
      <3>2. poll' \in PollSort
        BY <1>0, <3>1 DEF PollSort, PollPcs
      <3>3. QED
        BY <1>0, <2>1, <2>3, <2>5, <3>2 DEF Typed
    <2>6. QED
      BY <2>1, <2>4, <2>5
  <1>7. CASE OrphanEnds
    <2>1. UNCHANGED <<epoch, lockAt, infeasible, detail, cursor, pollLock, poll, eng, daemon>>
      BY <1>7 DEF OrphanEnds, roundVars
    <2>2. QED
      BY <1>0, <2>1 DEF Typed
  <1>8. QED
    BY <1>1, <1>2, <1>3, <1>4, <1>5, <1>6, <1>7 DEF PollStep

LEMMA TypedEngine ==
    ASSUME Base, EngineStep
    PROVE  Typed'
  <1>0. epoch \in Nat /\ lockAt \in Nat /\ cursor \in Nat /\ infeasible \in BOOLEAN
        /\ detail \in BOOLEAN /\ pollLock \in {"free", "engine", "daemon"} /\ poll \in PollSort
        /\ eng \in EngSort /\ daemon \in DaemonSort
    BY DEF Base, Typed
  <1>a. now \in Nat /\ Len(rounds) \in Nat
    BY LenProperties DEF Base, ChainShape, ShapeOf
  <1> DEFINE by == now + HeaderCap
  <1>b. by \in Nat
    BY <1>a, Constants
  <1>1. CASE SetRoundPhase
    <2> DEFINE e == Len(rounds)
    <2>1. /\ eng.pc = "idle" /\ e > epoch
          /\ \/ eng' = [eng EXCEPT !.pc = "initLock", !.epoch = e, !.by = by, !.dropped = "no"]
             \/ eng' = [eng EXCEPT !.pc = "advHeader", !.epoch = e, !.by = by, !.dropped = "no"]
          /\ epoch' \in {epoch, e} /\ lockAt' \in {lockAt, rounds[e].lock}
          /\ UNCHANGED <<infeasible, detail, cursor, pollLock, poll, daemon>>
      BY <1>1 DEF SetRoundPhase
    <2>2. e \in Nat /\ e > 0 /\ e <= Len(rounds)
      BY <1>0, <1>a, <2>1
    <2>3. rounds[e].lock \in Nat
      BY <2>2, RoundFacts DEF Base
    <2> HIDE DEF e, by
    <2>4. eng' \in EngSort
      BY <1>0, <1>b, <2>1, <2>2 DEF EngSort, EngPcs
    <2>5. QED
      BY <1>0, <2>1, <2>2, <2>3, <2>4 DEF Typed
  <1>2. CASE InitLock
    <2>1. /\ eng' = [eng EXCEPT !.pc = "initCursor", !.by = by] /\ pollLock' = "engine"
          /\ UNCHANGED <<epoch, lockAt, infeasible, detail, cursor, poll, daemon>>
      BY <1>2 DEF InitLock, roundVars
    <2> HIDE DEF by
    <2>2. eng' \in EngSort
      BY <1>0, <1>b, <2>1 DEF EngSort, EngPcs
    <2>3. QED
      BY <1>0, <2>1, <2>2 DEF Typed
  <1>3. CASE InitCursor
    <2> DEFINE start == lockAt - Interval
    <2>1. /\ eng.pc = "initCursor" /\ pollLock' = "free"
          /\ eng' = [eng EXCEPT !.pc = "waitSingle", !.epoch = 0, !.by = 0, !.late = Late]
          /\ UNCHANGED <<epoch, lockAt, poll, daemon>>
      BY <1>3 DEF InitCursor
    <2>2. epoch > 0
      BY <2>1 DEF Base, Calendar
    <2>3. start \in Nat /\ start >= 1
      BY <2>2, OpenRound
    <2>4. infeasible' \in BOOLEAN /\ detail' \in BOOLEAN /\ cursor' \in Nat
      <3>1. CASE infeasible' = FALSE /\ UNCHANGED <<cursor, detail>>
        BY <1>0, <3>1
      <3>2. CASE \E h \in Heads, margin \in {0, RsMargin} :
               LET rs == RoundStartBlock(h, start, margin) IN
               /\ infeasible' = (blockTs[h] > start /\ CatchupInfeasible(h - rs + 1, lockAt))
               /\ cursor' = IF blockTs[h] <= start \/ infeasible' THEN h ELSE rs - 1
               /\ detail' = (detail \/ infeasible')
        <4>1. PICK h \in Heads, margin \in {0, RsMargin} :
               LET rs == RoundStartBlock(h, start, margin) IN
               /\ infeasible' = (blockTs[h] > start /\ CatchupInfeasible(h - rs + 1, lockAt))
               /\ cursor' = IF blockTs[h] <= start \/ infeasible' THEN h ELSE rs - 1
               /\ detail' = (detail \/ infeasible')
          BY <3>2
        <4> DEFINE rs == RoundStartBlock(h, start, margin)
        <4>2. h \in 1 .. Len(blockTs) /\ h \in Nat
          BY HeadIsBlock DEF Base
        <4> HIDE DEF start
        <4>3. rs \in 1 .. h
          BY <2>3, <4>2, StartBlock DEF Base
        <4> HIDE DEF rs
        <4>4. rs - 1 \in Nat
          BY <4>2, <4>3
        <4>5. cursor' \in {h, rs - 1}
          BY <4>1 DEF rs
        <4>6. cursor' \in Nat
          BY <4>2, <4>4, <4>5
        <4>7. infeasible' \in BOOLEAN
          BY <4>1, Zenon
        <4>8. detail' \in BOOLEAN
          BY <4>1, Zenon
        <4>9. QED
          BY <4>6, <4>7, <4>8
      <3>3. QED
        BY <1>3, <3>1, <3>2 DEF InitCursor
    <2>5. Late \in BOOLEAN
      BY DEF Late
    <2>6. eng' \in EngSort
      BY <1>0, <2>1, <2>5 DEF EngSort, EngPcs
    <2>7. QED
      BY <1>0, <2>1, <2>4, <2>6 DEF Typed
  <1>4. CASE AdvanceHeader
    <2>1. /\ eng.pc = "advHeader"
          /\ UNCHANGED <<epoch, lockAt, infeasible, detail, cursor, pollLock, poll, daemon>>
      BY <1>4 DEF AdvanceHeader, roundVars
    <2> DEFINE s == rounds[eng.epoch].start
    <2>2. s \in Nat /\ s >= 1
      <3>1. eng.epoch \in Nat /\ eng.epoch > epoch /\ eng.epoch <= Len(rounds)
        BY <1>0, <2>1 DEF Base, Calendar, EngSort
      <3>2. eng.epoch > 0
        BY <1>0, <3>1
      <3>3. QED
        BY <3>1, <3>2, RoundFacts DEF Base
    <2>3. PICK j \in Nat : eng' = [eng EXCEPT !.pc = "advCommit", !.jump = j]
      <3>1. CASE \E h \in Heads, margin \in {0, RsMargin} :
                   eng' = [eng EXCEPT !.pc = "advCommit",
                                      !.jump = RoundStartBlock(h, s, margin) - 1]
        <4>1. PICK h \in Heads, margin \in {0, RsMargin} :
                   eng' = [eng EXCEPT !.pc = "advCommit",
                                      !.jump = RoundStartBlock(h, s, margin) - 1]
          BY <3>1
        <4> DEFINE rs == RoundStartBlock(h, s, margin)
        <4>2. h \in 1 .. Len(blockTs) /\ h \in Nat
          BY HeadIsBlock DEF Base
        <4> HIDE DEF s
        <4>3. rs \in 1 .. h
          BY <2>2, <4>2, StartBlock DEF Base
        <4>4. eng' = [eng EXCEPT !.pc = "advCommit", !.jump = rs - 1]
          BY <4>1
        <4> HIDE DEF rs
        <4>5. rs - 1 \in Nat
          BY <4>2, <4>3
        <4>6. QED
          BY <4>4, <4>5
      <3>2. CASE eng' = [eng EXCEPT !.pc = "advCommit", !.jump = 0]
        BY <3>2
      <3>3. QED
        BY <1>4, <3>1, <3>2 DEF AdvanceHeader
    <2>4. eng' \in EngSort
      BY <1>0, <2>3 DEF EngSort, EngPcs
    <2>5. QED
      BY <1>0, <2>1, <2>4 DEF Typed
  <1>5. CASE AdvanceCommit
    <2>1. /\ eng.pc = "advCommit" /\ epoch' = eng.epoch /\ lockAt' = rounds[eng.epoch].lock
          /\ infeasible' = FALSE /\ detail' = FALSE /\ cursor' = Max({cursor, eng.jump})
          /\ eng' = [eng EXCEPT !.pc = "advHead", !.by = by, !.jump = 0]
          /\ UNCHANGED <<pollLock, poll, daemon>>
      BY <1>5 DEF AdvanceCommit
    <2>2. eng.epoch \in Nat /\ eng.epoch > epoch /\ eng.epoch <= Len(rounds)
      BY <1>0, <2>1 DEF Base, Calendar, EngSort
    <2>3. eng.epoch > 0
      BY <1>0, <2>2
    <2>4. lockAt' \in Nat
      BY <2>1, <2>2, <2>3, RoundFacts DEF Base
    <2>5. eng.jump \in Nat
      BY <1>0 DEF EngSort
    <2>6. cursor' \in Nat
      BY <1>0, <2>1, <2>5, MaxTyped
    <2> HIDE DEF by
    <2>7. eng' \in EngSort
      BY <1>0, <1>b, <2>1 DEF EngSort, EngPcs
    <2>8. QED
      BY <1>0, <2>1, <2>2, <2>4, <2>6, <2>7 DEF Typed
  <1>6. CASE AdvanceFeasibility
    <2>1. /\ eng' = [eng EXCEPT !.pc = "waitSingle", !.epoch = 0, !.by = 0, !.late = Late]
          /\ UNCHANGED <<epoch, lockAt, cursor, pollLock, poll, daemon>>
      BY <1>6 DEF AdvanceFeasibility
    <2>2. infeasible' \in BOOLEAN /\ detail' \in BOOLEAN
      <3>1. CASE UNCHANGED <<infeasible, detail>>
        BY <1>0, <3>1
      <3>2. CASE \E h \in Heads :
               LET bad == h > cursor /\ CatchupInfeasible(h - cursor, lockAt) IN
               /\ detail' = (detail \/ bad)
               /\ infeasible' = (infeasible \/ (bad /\ lockAt > now))
        <4>1. PICK h : /\ detail' = (detail \/ (h > cursor /\ CatchupInfeasible(h - cursor, lockAt)))
                       /\ infeasible' = (infeasible \/ ((h > cursor /\ CatchupInfeasible(h - cursor, lockAt))
                                                        /\ lockAt > now))
          BY <3>2
        <4>2. detail' \in BOOLEAN
          BY <4>1, Zenon
        <4>3. infeasible' \in BOOLEAN
          BY <4>1, Zenon
        <4>4. QED
          BY <4>2, <4>3
      <3>3. QED
        BY <1>6, <3>1, <3>2 DEF AdvanceFeasibility
    <2>3. Late \in BOOLEAN
      BY DEF Late
    <2>4. eng' \in EngSort
      BY <1>0, <2>1, <2>3 DEF EngSort, EngPcs
    <2>5. QED
      BY <1>0, <2>1, <2>2, <2>4 DEF Typed
  <1>7. CASE SinglePoll
    <2>1. UNCHANGED <<epoch, lockAt, infeasible, detail, cursor, daemon>>
      BY <1>7 DEF SinglePoll, roundVars
    <2>2. CASE StartPoll("engine", CapSingle) /\ eng' = [eng EXCEPT !.pc = "polling"]
      <3>1. eng' \in EngSort
        BY <1>0, <2>2 DEF EngSort, EngPcs
      <3>2. pollLock' = "engine" /\ poll' \in PollSort
        BY <1>a, <2>2, StartPollMoves, Constants
      <3>3. QED
        BY <1>0, <2>1, <3>1, <3>2 DEF Typed
    <2>3. CASE /\ \/ eng' = [eng EXCEPT !.pc = "waitAnchor", !.dropped = "same"]
                  \/ eng' = [eng EXCEPT !.pc = "waitAnchor", !.dropped = "other"]
               /\ UNCHANGED <<pollLock, poll>>
      <3>1. eng' \in EngSort
        BY <1>0, <2>3 DEF EngSort, EngPcs
      <3>2. QED
        BY <1>0, <2>1, <2>3, <3>1 DEF Typed
    <2>4. QED
      BY <1>7, <2>2, <2>3 DEF SinglePoll
  <1>8. CASE AnchorPoll \/ IsPoolReady \/ GetPool
    <2>1. /\ \E pc \in {"idle", "decide", "read"} : eng' = [eng EXCEPT !.pc = pc]
          /\ UNCHANGED <<epoch, lockAt, infeasible, detail, cursor, pollLock, poll, daemon>>
      BY <1>8 DEF AnchorPoll, IsPoolReady, GetPool, roundVars
    <2>2. eng' \in EngSort
      BY <1>0, <2>1 DEF EngSort, EngPcs
    <2>3. QED
      BY <1>0, <2>1, <2>2 DEF Typed
  <1>9. QED
    BY <1>1, <1>2, <1>3, <1>4, <1>5, <1>6, <1>7, <1>8 DEF EngineStep

LEMMA TypedDaemon ==
    ASSUME Base, DaemonPlan \/ DaemonTick \/ Slot \/ UNCHANGED vars
    PROVE  Typed'
  <1>0. epoch \in Nat /\ lockAt \in Nat /\ cursor \in Nat /\ infeasible \in BOOLEAN
        /\ detail \in BOOLEAN /\ pollLock \in {"free", "engine", "daemon"} /\ poll \in PollSort
        /\ eng \in EngSort /\ daemon \in DaemonSort
    BY DEF Base, Typed
  <1>a. now \in Nat
    BY DEF Base, ChainShape, ShapeOf
  <1>1. CASE DaemonPlan
    <2> DEFINE w == IF lockAt = 0 THEN now + Period ELSE NextTick(lockAt)
    <2>1. daemon' = [pc |-> "wait", lock |-> lockAt, wake |-> w]
          /\ UNCHANGED <<epoch, lockAt, infeasible, detail, cursor, pollLock, poll, eng>>
      BY <1>1 DEF DaemonPlan, roundVars
    <2>2. w \in Int
      <3>1. NextTick(lockAt) \in Int
        BY <1>0, <1>a, NextTickLater
      <3>2. now + Period \in Int
        BY <1>a, Constants
      <3>3. QED
        BY ONLY <3>1, <3>2, Zenon
    <2> HIDE DEF w
    <2>3. daemon' \in DaemonSort
      BY <1>0, <2>1, <2>2 DEF DaemonSort, DaemonPcs
    <2>4. QED
      BY <1>0, <2>1, <2>3 DEF Typed
  <1>2. CASE DaemonTick
    <2>1. UNCHANGED <<epoch, lockAt, infeasible, detail, cursor, eng>>
      BY <1>2 DEF DaemonTick, roundVars
    <2>2. CASE StartPoll("daemon", CapPeriodic) /\ daemon' = [daemon EXCEPT !.pc = "polling", !.wake = 0]
      <3>0. daemon' = [daemon EXCEPT !.pc = "polling", !.wake = 0] /\ 0 \in Int
        BY <2>2
      <3>1. daemon' \in DaemonSort
        BY ONLY <1>0, <3>0 DEF DaemonSort, DaemonPcs
      <3>2. pollLock' = "daemon" /\ poll' \in PollSort
        BY <1>a, <2>2, StartPollMoves, Constants
      <3>3. QED
        BY <1>0, <2>1, <3>1, <3>2 DEF Typed
    <2>3. CASE daemon' = [daemon EXCEPT !.pc = "plan"] /\ UNCHANGED <<pollLock, poll>>
      <3>1. daemon' \in DaemonSort
        BY <1>0, <2>3 DEF DaemonSort, DaemonPcs
      <3>2. QED
        BY <1>0, <2>1, <2>3, <3>1 DEF Typed
    <2>4. QED
      BY <1>2, <2>2, <2>3 DEF DaemonTick
  <1>3. CASE Slot \/ UNCHANGED vars
    <2>1. UNCHANGED <<epoch, lockAt, infeasible, detail, cursor, pollLock, poll, eng, daemon>>
      BY <1>3 DEF Slot, vars, roundVars
    <2>2. QED
      BY <1>0, <2>1 DEF Typed
  <1>4. QED
    BY <1>1, <1>2, <1>3

\* A step of a poll, as the rest of the bot sees it.
LEMMA PollMoves ==
    ASSUME Typed, PollStep
    PROVE  /\ UNCHANGED <<chainVars, epoch, lockAt, anchor, verdict>> /\ poll.pc # "idle"
           /\ \/ EndPoll
              \/ /\ UNCHANGED <<pollLock, eng, daemon>>
                 /\ poll'.pc # "idle" /\ poll'.abortAt = poll.abortAt
  <1>0. poll \in PollSort
    BY DEF Typed
  <1>1. CASE PollHead
    <2>1. /\ UNCHANGED <<chainVars, epoch, lockAt, anchor, verdict>> /\ poll.pc = "head"
          /\ \E h : \/ EndPoll
                    \/ /\ poll' = [poll EXCEPT !.pc = "flag"]
                       /\ UNCHANGED <<pollLock, eng, daemon>>
                    \/ /\ poll' = [poll EXCEPT !.pc = "fetch", !.head = h, !.from = cursor + 1]
                       /\ UNCHANGED <<pollLock, eng, daemon>>
      BY <1>1 DEF PollHead
    <2>2. QED
      BY <1>0, <2>1 DEF PollSort
  <1>2. CASE PollHeadFails \/ PollCapBetweenChunks \/ PollRangeFails \/ PollFlag
    BY <1>2 DEF PollHeadFails, PollCapBetweenChunks, PollRangeFails, PollFlag, roundVars
  <1>3. CASE PollRange
    <2>1. /\ UNCHANGED <<chainVars, epoch, lockAt, anchor, verdict>> /\ poll.pc = "fetch"
          /\ UNCHANGED <<pollLock, eng, daemon>>
          /\ \E to, parsed, pc : /\ poll' = [poll EXCEPT !.to = to, !.parsed = parsed, !.pc = pc]
                                 /\ pc \in {"advance", "stamp"}
      <3> DEFINE t == Min({poll.from + Chunk - 1, poll.head})
                 p == {b \in poll.from .. t : EpochOf(b) \in {epoch, epoch + 1}}
                 c == IF p = {} THEN "advance" ELSE "stamp"
      <3>a. poll' = [poll EXCEPT !.to = t, !.parsed = p, !.pc = c]
        BY <1>3 DEF PollRange
      <3>b. c \in {"advance", "stamp"}
        OBVIOUS
      <3>c. UNCHANGED <<chainVars, epoch, lockAt, anchor, verdict>> /\ poll.pc = "fetch"
            /\ UNCHANGED <<pollLock, eng, daemon>>
        BY <1>3 DEF PollRange, roundVars
      <3> HIDE DEF t, p, c
      <3>d. QED
        BY <3>a, <3>b, <3>c
    <2>2. QED
      BY <1>0, <2>1 DEF PollSort
  <1>4. CASE PollStamps \/ PollAppend
    <2>1. /\ UNCHANGED <<chainVars, epoch, lockAt, anchor, verdict>> /\ poll.pc \in {"stamp", "append"}
          /\ UNCHANGED <<pollLock, eng, daemon>>
          /\ \E pc \in {"append", "advance"} : poll' = [poll EXCEPT !.pc = pc]
      BY <1>4 DEF PollStamps, PollAppend, roundVars
    <2>2. QED
      BY <1>0, <2>1 DEF PollSort
  <1>5. CASE PollAdvance
    <2>1. /\ UNCHANGED <<chainVars, epoch, lockAt, anchor, verdict>> /\ poll.pc = "advance"
          /\ \/ EndPoll
             \/ /\ poll' = [poll EXCEPT !.pc = "fetch", !.from = poll.to + 1]
                /\ UNCHANGED <<pollLock, eng, daemon>>
      BY <1>5 DEF PollAdvance, roundVars
    <2>2. QED
      BY <1>0, <2>1 DEF PollSort
  <1>6. QED
    BY <1>1, <1>2, <1>3, <1>4, <1>5 DEF PollStep

\* A step of the engine, as the poll lock sees it.
LEMMA EngineMoves ==
    ASSUME Typed, Locks, EngineStep
    PROVE  Locks' /\ UNCHANGED daemon
  <1>0. poll \in PollSort /\ eng \in EngSort /\ pollLock \in {"free", "engine", "daemon"}
    BY DEF Typed
  <1>1. CASE SetRoundPhase \/ AdvanceHeader \/ AdvanceCommit \/ AdvanceFeasibility \/ AnchorPoll
             \/ IsPoolReady \/ GetPool
    <2>1. /\ UNCHANGED <<pollLock, poll, daemon>>
          /\ eng.pc \in {"idle", "advHeader", "advCommit", "advHead", "waitAnchor", "decide", "read"}
      BY <1>1 DEF SetRoundPhase, AdvanceHeader, AdvanceCommit, AdvanceFeasibility, AnchorPoll,
                  IsPoolReady, GetPool
    <2>2. eng'.pc \in {"idle", "initLock", "advHeader", "advCommit", "advHead", "waitSingle", "decide", "read"}
      <3>1. CASE SetRoundPhase
        BY <1>0, <3>1 DEF SetRoundPhase, EngSort, EngPcs
      <3>2. CASE AdvanceHeader
        BY <1>0, <3>2 DEF AdvanceHeader, EngSort, EngPcs
      <3>3. CASE AdvanceCommit
        BY <1>0, <3>3 DEF AdvanceCommit, EngSort, EngPcs
      <3>4. CASE AdvanceFeasibility
        BY <1>0, <3>4 DEF AdvanceFeasibility, EngSort, EngPcs
      <3>5. CASE AnchorPoll
        BY <1>0, <3>5 DEF AnchorPoll, EngSort, EngPcs
      <3>6. CASE IsPoolReady
        BY <1>0, <3>6 DEF IsPoolReady, EngSort, EngPcs
      <3>7. CASE GetPool
        BY <1>0, <3>7 DEF GetPool, EngSort, EngPcs
      <3>8. QED
        BY <1>1, <3>1, <3>2, <3>3, <3>4, <3>5, <3>6, <3>7
    <2>3. QED
      BY <1>0, <2>1, <2>2 DEF Locks
  <1>2. CASE InitLock
    <2>1. /\ eng.pc = "initLock" /\ pollLock = "free" /\ pollLock' = "engine"
          /\ eng' = [eng EXCEPT !.pc = "initCursor", !.by = now + HeaderCap]
          /\ UNCHANGED <<poll, daemon>>
      BY <1>2 DEF InitLock
    <2>2. eng'.pc = "initCursor"
      BY <1>0, <2>1 DEF EngSort
    <2>3. QED
      BY <2>1, <2>2 DEF Locks
  <1>3. CASE InitCursor
    <2>1. /\ eng.pc = "initCursor" /\ pollLock' = "free"
          /\ eng' = [eng EXCEPT !.pc = "waitSingle", !.epoch = 0, !.by = 0, !.late = Late]
          /\ UNCHANGED <<poll, daemon>>
      BY <1>3 DEF InitCursor
    <2>2. eng'.pc = "waitSingle"
      BY <1>0, <2>1 DEF EngSort
    <2>3. QED
      BY <2>1, <2>2 DEF Locks
  <1>4. CASE SinglePoll
    <2>1. eng.pc = "waitSingle" /\ UNCHANGED daemon
      BY <1>4 DEF SinglePoll
    <2>2. CASE pollLock = "free" /\ StartPoll("engine", CapSingle) /\ eng' = [eng EXCEPT !.pc = "polling"]
      <3>1. pollLock' = "engine" /\ poll'.pc = "head" /\ eng'.pc = "polling"
        BY <1>0, <2>2 DEF StartPoll, IdlePoll, EngSort
      <3>2. QED
        BY <2>1, <2>2, <3>1 DEF Locks
    <2>3. CASE /\ \/ eng' = [eng EXCEPT !.pc = "waitAnchor", !.dropped = "same"]
                  \/ eng' = [eng EXCEPT !.pc = "waitAnchor", !.dropped = "other"]
               /\ UNCHANGED <<pollLock, poll>>
      <3>1. eng'.pc = "waitAnchor"
        BY <1>0, <2>3 DEF EngSort
      <3>2. QED
        BY <2>1, <2>3, <3>1 DEF Locks
    <2>4. QED
      BY <1>4, <2>2, <2>3 DEF SinglePoll
  <1>5. QED
    BY <1>1, <1>2, <1>3, <1>4 DEF EngineStep

LEMMA LocksStep ==
    ASSUME Base, [Next]_vars
    PROVE  Locks'
  <1>0. Typed /\ Locks /\ daemon \in DaemonSort /\ eng \in EngSort
    BY DEF Base, Typed
  <1>1. CASE PollStep
    <2>1. CASE EndPoll
      <3>1. poll.pc # "idle"
        BY <1>0, <1>1, PollMoves
      <3>2. /\ pollLock' = "free" /\ poll'.pc = "idle"
            /\ pollLock = "engine" => eng'.pc = "waitAnchor" /\ daemon' = daemon
            /\ pollLock # "engine" => daemon'.pc = "plan" /\ eng' = eng
        BY <1>0, <2>1, EndPollMoves DEF IdlePoll
      <3>3. QED
        BY <1>0, <3>1, <3>2 DEF Locks
    <2>2. CASE UNCHANGED <<pollLock, eng, daemon>> /\ poll'.pc # "idle" /\ poll.pc # "idle"
      BY <1>0, <2>2 DEF Locks
    <2>3. QED
      BY <1>0, <1>1, <2>1, <2>2, PollMoves
  <1>2. CASE EngineStep
    BY <1>0, <1>2, EngineMoves
  <1>3. CASE OrphanEnds \/ Slot \/ UNCHANGED vars
    <2>1. UNCHANGED <<pollLock, poll, eng, daemon>>
      BY <1>3 DEF OrphanEnds, Slot, vars
    <2>2. QED
      BY <1>0, <2>1 DEF Locks
  <1>4. CASE DaemonPlan
    <2>1. daemon.pc = "plan" /\ daemon'.pc = "wait" /\ UNCHANGED <<pollLock, poll, eng>>
      BY <1>4 DEF DaemonPlan
    <2>2. QED
      BY <1>0, <2>1 DEF Locks
  <1>5. CASE DaemonTick
    <2>1. daemon.pc = "wait" /\ UNCHANGED eng
      BY <1>5 DEF DaemonTick
    <2>2. CASE pollLock = "free" /\ StartPoll("daemon", CapPeriodic)
               /\ daemon' = [daemon EXCEPT !.pc = "polling", !.wake = 0]
      <3>1. pollLock' = "daemon" /\ poll'.pc = "head" /\ daemon'.pc = "polling"
        BY <1>0, <2>2 DEF StartPoll, IdlePoll, DaemonSort
      <3>2. QED
        BY <1>0, <2>1, <2>2, <3>1 DEF Locks
    <2>3. CASE daemon' = [daemon EXCEPT !.pc = "plan"] /\ UNCHANGED <<pollLock, poll>>
      <3>1. daemon'.pc = "plan"
        BY <1>0, <2>3 DEF DaemonSort
      <3>2. QED
        BY <1>0, <2>1, <2>3, <3>1 DEF Locks
    <2>4. QED
      BY <1>5, <2>2, <2>3 DEF DaemonTick
  <1>6. QED
    BY <1>1, <1>2, <1>3, <1>4, <1>5 DEF Next

LEMMA CalendarFrame ==
    ASSUME Base, ChainGrows, ChainShape', UNCHANGED <<epoch, lockAt>>,
           eng'.pc # "idle" => epoch > 0,
           eng'.pc \in {"advHeader", "advCommit"} => eng'.epoch > epoch /\ eng'.epoch <= Len(rounds),
           eng'.epoch \in Nat
    PROVE  Calendar'
  <1> DEFINE m == Len(rounds)
             n == Len(rounds')
  <1>1. m \in Nat /\ n \in Nat /\ m <= n
    BY LenProperties DEF Base, ChainShape, ShapeOf, ChainGrows
  <1>2. epoch \in Nat /\ epoch <= m /\ (epoch = 0 => lockAt = 0)
        /\ (epoch > 0 => lockAt = rounds[epoch].lock)
    BY DEF Base, Typed, Calendar
  <1>3. \A i \in 1 .. m : rounds'[i] = rounds[i]
    BY DEF ChainGrows
  <1>4. epoch' = epoch /\ lockAt' = lockAt
    OBVIOUS
  <1>5. eng'.pc \in {"advHeader", "advCommit"} => eng'.epoch > epoch /\ eng'.epoch <= m
    OBVIOUS
  <1> HIDE DEF m, n
  <1>6. epoch > 0 => lockAt = rounds'[epoch].lock
    BY <1>1, <1>2, <1>3
  <1>7. epoch <= n
    BY <1>1, <1>2
  <1>8. eng'.pc \in {"advHeader", "advCommit"} => eng'.epoch > epoch /\ eng'.epoch <= n
    BY <1>1, <1>5
  <1>9. QED
    BY <1>2, <1>4, <1>6, <1>7, <1>8 DEF Calendar, n

LEMMA CalendarStep ==
    ASSUME Base, ChainGrows, ChainShape', Typed', [Next]_vars
    PROVE  Calendar'
  <1>0. Typed /\ Locks /\ Calendar /\ eng \in EngSort /\ eng' \in EngSort /\ epoch \in Nat
    BY DEF Base, Typed
  <1>a. eng'.epoch \in Nat /\ eng.epoch \in Nat
    BY <1>0 DEF EngSort
  <1>1. CASE PollStep
    <2>1. UNCHANGED <<epoch, lockAt>> /\ poll.pc # "idle"
      BY <1>0, <1>1, PollMoves
    <2>2. CASE eng' = eng
      BY <1>0, <1>a, <2>1, <2>2, CalendarFrame DEF Calendar
    <2>3. CASE EndPoll /\ pollLock = "engine"
      <3>1. eng'.pc = "waitAnchor"
        BY <1>0, <2>3, EndPollMoves
      <3>2. eng.pc # "idle"
        BY <1>0, <2>1, <2>3 DEF Locks
      <3>3. epoch > 0
        BY <1>0, <3>2 DEF Calendar
      <3>4. QED
        BY <1>a, <2>1, <3>1, <3>3, CalendarFrame
    <2>4. QED
      BY <1>0, <1>1, <2>2, <2>3, PollMoves, EndPollMoves
  <1>2. CASE SetRoundPhase
    <2> DEFINE e == Len(rounds)
    <2>1. eng.pc = "idle" /\ e > epoch /\ UNCHANGED rounds
      BY <1>2 DEF SetRoundPhase, chainVars
    <2>2. e \in Nat
      BY LenProperties DEF Base, ChainShape, ShapeOf
    <2>3. CASE epoch = 0
      <3>1. eng' = [eng EXCEPT !.pc = "initLock", !.epoch = e, !.by = now + HeaderCap, !.dropped = "no"]
            /\ epoch' = e /\ lockAt' = rounds[e].lock
        BY <1>2, <2>3 DEF SetRoundPhase
      <3>2. eng'.pc = "initLock"
        BY <1>0, <3>1 DEF EngSort
      <3>3. e > 0 /\ e <= e
        BY <1>0, <2>1, <2>2
      <3>4. epoch' <= Len(rounds') /\ epoch' > 0 /\ ~(epoch' = 0) /\ lockAt' = rounds'[epoch'].lock
        BY <2>1, <2>2, <3>1, <3>3
      <3>5. QED
        BY <3>2, <3>4 DEF Calendar
    <2>4. CASE epoch # 0
      <3>1. eng' = [eng EXCEPT !.pc = "advHeader", !.epoch = e, !.by = now + HeaderCap, !.dropped = "no"]
            /\ UNCHANGED <<epoch, lockAt>>
        BY <1>2, <2>4 DEF SetRoundPhase
      <3>2. eng'.epoch = e
        BY <1>0, <3>1 DEF EngSort
      <3>3. epoch > 0 /\ e <= e
        BY <1>0, <2>2, <2>4
      <3>4. QED
        BY <1>a, <2>1, <3>1, <3>2, <3>3, CalendarFrame
    <2>5. QED
      BY <2>3, <2>4
  <1>3. CASE AdvanceCommit
    <2>1. eng.pc = "advCommit" /\ epoch' = eng.epoch /\ lockAt' = rounds[eng.epoch].lock
          /\ UNCHANGED rounds /\ eng' = [eng EXCEPT !.pc = "advHead", !.by = now + HeaderCap, !.jump = 0]
      BY <1>3 DEF AdvanceCommit, chainVars
    <2>2. eng.epoch > epoch /\ eng.epoch <= Len(rounds)
      BY <1>0, <2>1 DEF Calendar
    <2>3. eng'.pc = "advHead"
      BY <1>0, <2>1 DEF EngSort
    <2>4. eng.epoch > 0
      BY <1>0, <1>a, <2>2
    <2>5. eng.epoch # 0
      BY <1>a, <2>4
    <2>6. QED
      BY <2>1, <2>2, <2>3, <2>4, <2>5 DEF Calendar
  <1>4. CASE AdvanceHeader
    <2>1. eng.pc = "advHeader" /\ UNCHANGED <<epoch, lockAt>>
          /\ \E j : eng' = [eng EXCEPT !.pc = "advCommit", !.jump = j]
      BY <1>4 DEF AdvanceHeader, roundVars
    <2>2. eng'.epoch = eng.epoch
      BY <1>0, <2>1 DEF EngSort
    <2>3. eng.epoch > epoch /\ eng.epoch <= Len(rounds) /\ epoch > 0
      BY <1>0, <2>1 DEF Calendar
    <2>4. QED
      BY <1>a, <2>1, <2>2, <2>3, CalendarFrame
  <1>5. CASE InitLock \/ InitCursor \/ AdvanceFeasibility \/ SinglePoll \/ AnchorPoll \/ IsPoolReady
             \/ GetPool
    <2>1. UNCHANGED <<epoch, lockAt>> /\ eng.pc # "idle"
      BY <1>5 DEF InitLock, InitCursor, AdvanceFeasibility, SinglePoll, AnchorPoll, IsPoolReady,
                  GetPool, roundVars
    <2>2. epoch > 0
      BY <1>0, <2>1 DEF Calendar
    <2>3. eng'.pc \notin {"advHeader", "advCommit"}
      <3>1. CASE InitLock
        BY <1>0, <3>1 DEF InitLock, EngSort
      <3>2. CASE InitCursor
        BY <1>0, <3>2 DEF InitCursor, EngSort
      <3>3. CASE AdvanceFeasibility
        BY <1>0, <3>3 DEF AdvanceFeasibility, EngSort
      <3>4. CASE SinglePoll
        BY <1>0, <3>4 DEF SinglePoll, EngSort
      <3>5. CASE AnchorPoll
        BY <1>0, <3>5 DEF AnchorPoll, EngSort
      <3>6. CASE IsPoolReady
        BY <1>0, <3>6 DEF IsPoolReady, EngSort
      <3>7. CASE GetPool
        BY <1>0, <3>7 DEF GetPool, EngSort
      <3>8. QED
        BY <1>5, <3>1, <3>2, <3>3, <3>4, <3>5, <3>6, <3>7
    <2>4. QED
      BY <1>a, <2>1, <2>2, <2>3, CalendarFrame
  <1>6. CASE Slot \/ OrphanEnds \/ DaemonPlan \/ DaemonTick \/ UNCHANGED vars
    <2>1. UNCHANGED <<epoch, lockAt, eng>>
      BY <1>6 DEF Slot, OrphanEnds, DaemonPlan, DaemonTick, vars, roundVars
    <2>2. QED
      BY <1>0, <1>a, <2>1, CalendarFrame DEF Calendar
  <1>7. QED
    BY <1>1, <1>2, <1>3, <1>4, <1>5, <1>6 DEF Next, EngineStep

LEMMA BaseStarts == ASSUME Init PROVE Base
  <1>1. ChainShape
    BY ChainStarts
  <1>2. epoch = 0 /\ lockAt = 0 /\ cursor = 0 /\ infeasible = FALSE /\ detail = FALSE
        /\ pollLock = "free" /\ poll = IdlePoll
        /\ eng = [pc |-> "idle", epoch |-> 0, jump |-> 0, by |-> 0, dropped |-> "no", late |-> FALSE]
        /\ daemon = [pc |-> "plan", lock |-> 0, wake |-> 0]
    BY DEF Init
  <1>3. poll \in PollSort /\ eng \in EngSort
    BY <1>2 DEF IdlePoll, PollSort, PollPcs, EngSort, EngPcs
  <1>4. 0 \in Int
    OBVIOUS
  <1>5. daemon \in DaemonSort
    BY ONLY <1>2, <1>4 DEF DaemonSort, DaemonPcs
  <1>6. Typed
    BY <1>2, <1>3, <1>5 DEF Typed
  <1>7. 0 <= Len(rounds)
    BY LenProperties, <1>1 DEF ChainShape, ShapeOf
  <1>8. Calendar
    BY <1>2, <1>7 DEF Calendar
  <1>9. Locks
    BY <1>2 DEF Locks, IdlePoll
  <1>10. QED
    BY <1>1, <1>6, <1>8, <1>9 DEF Base

LEMMA BaseStep ==
    ASSUME Base, [Next]_vars
    PROVE  Base' /\ ChainGrows
  <1>1. ChainShape' /\ ChainGrows
    BY ChainStep DEF Base
  <1>2. Typed'
    BY TypedPoll, TypedEngine, TypedDaemon DEF Next
  <1>3. Calendar'
    BY <1>1, <1>2, CalendarStep
  <1>4. Locks'
    BY LocksStep
  <1>5. QED
    BY <1>1, <1>2, <1>3, <1>4 DEF Base

-----------------------------------------------------------------------------
(* The verdict "infeasible" and its numbers.                               *)

\* The poll that is about to raise the flag has written the numbers down.
Flags ==
    /\ poll.pc = "flag" => detail /\ now < lockAt
    /\ InfeasibleHasDetail

\* While a round the bot has not left is open, no later round has begun.
LEMMA LaterRoundsBegin ==
    ASSUME Base, epoch > 0, NEW k \in Nat, k > epoch, k <= Len(rounds)
    PROVE  /\ lockAt <= rounds[k].start /\ rounds[k].start <= now
           /\ k \in 1 .. Len(rounds) /\ rounds[k].start \in Nat
  <1>1. epoch \in 1 .. Len(rounds) /\ lockAt = rounds[epoch].lock
    BY OpenRound
  <1>2. k > 0
    BY DEF Base, Typed
  <1>3. k \in 1 .. Len(rounds) /\ rounds[k].start <= now /\ rounds[k].start \in Nat
    BY <1>2, RoundFacts DEF Base
  <1>4. epoch < k
    BY <1>1
  <1>5. rounds[epoch].lock <= rounds[k].start
    BY <1>1, <1>3, <1>4 DEF Base, ChainShape, ShapeOf
  <1>6. QED
    BY <1>1, <1>3, <1>5

LEMMA FlagsStep ==
    ASSUME ~Stalls, Base, Flags, [Next]_vars
    PROVE  Flags'
  <1>0. /\ Typed /\ Locks /\ poll \in PollSort /\ eng \in EngSort
        /\ infeasible \in BOOLEAN /\ detail \in BOOLEAN
        /\ now \in Nat /\ lockAt \in Nat /\ epoch \in Nat
    BY DEF Base, Typed, ChainShape, ShapeOf
  <1>a. infeasible => detail
    BY DEF Flags, InfeasibleHasDetail
  <1>1. CASE PollHead
    <2>1. /\ UNCHANGED <<now, lockAt, infeasible>>
          /\ \/ EndPoll /\ UNCHANGED detail
             \/ detail' = TRUE /\ now < lockAt
             \/ detail' = TRUE /\ EndPoll
             \/ /\ \E h : poll' = [poll EXCEPT !.pc = "fetch", !.head = h, !.from = cursor + 1]
                /\ UNCHANGED detail
      BY <1>0, <1>1 DEF PollHead, chainVars
    <2>2. CASE EndPoll
      <3>1. poll'.pc = "idle"
        BY <1>0, <2>2, EndPollMoves DEF IdlePoll
      <3>2. detail' = detail \/ detail' = TRUE
        BY <1>1 DEF PollHead
      <3>3. QED
        BY <1>a, <2>1, <3>1, <3>2 DEF Flags, InfeasibleHasDetail
    <2>3. CASE detail' = TRUE /\ now < lockAt
      BY <2>1, <2>3 DEF Flags, InfeasibleHasDetail
    <2>4. CASE /\ \E h : poll' = [poll EXCEPT !.pc = "fetch", !.head = h, !.from = cursor + 1]
               /\ UNCHANGED detail
      <3>1. poll'.pc = "fetch"
        BY <1>0, <2>4 DEF PollSort
      <3>2. QED
        BY <1>a, <2>1, <2>4, <3>1 DEF Flags, InfeasibleHasDetail
    <2>5. QED
      BY <2>1, <2>2, <2>3, <2>4
  <1>2. CASE PollHeadFails \/ PollCapBetweenChunks \/ PollRangeFails
    <2>1. EndPoll /\ UNCHANGED <<infeasible, detail>>
      BY <1>2 DEF PollHeadFails, PollCapBetweenChunks, PollRangeFails, roundVars
    <2>2. poll'.pc = "idle"
      BY <1>0, <2>1, EndPollMoves DEF IdlePoll
    <2>3. QED
      BY <1>a, <2>1, <2>2 DEF Flags, InfeasibleHasDetail
  <1>3. CASE PollFlag
    <2>1. EndPoll /\ UNCHANGED detail /\ poll.pc = "flag"
      BY <1>3 DEF PollFlag
    <2>2. poll'.pc = "idle"
      BY <1>0, <2>1, EndPollMoves DEF IdlePoll
    <2>3. QED
      BY <2>1, <2>2 DEF Flags, InfeasibleHasDetail
  <1>4. CASE PollRange \/ PollStamps \/ PollAppend \/ PollAdvance
    <2>1. UNCHANGED <<infeasible, detail>> /\ poll.pc # "flag"
      BY <1>4 DEF PollRange, PollStamps, PollAppend, PollAdvance, roundVars
    <2>2. poll'.pc # "flag"
      <3>1. CASE PollRange
        <4> DEFINE t == Min({poll.from + Chunk - 1, poll.head})
                   p == {b \in poll.from .. t : EpochOf(b) \in {epoch, epoch + 1}}
                   c == IF p = {} THEN "advance" ELSE "stamp"
        <4>1. poll' = [poll EXCEPT !.to = t, !.parsed = p, !.pc = c]
          BY <3>1 DEF PollRange
        <4>2. c \in {"advance", "stamp"}
          OBVIOUS
        <4> HIDE DEF t, p, c
        <4>3. QED
          BY <1>0, <4>1, <4>2 DEF PollSort
      <3>2. CASE PollStamps \/ PollAppend
        <4>1. \E pc \in {"append", "advance"} : poll' = [poll EXCEPT !.pc = pc]
          BY <3>2 DEF PollStamps, PollAppend
        <4>2. QED
          BY <1>0, <4>1 DEF PollSort
      <3>3. CASE PollAdvance
        <4>1. EndPoll \/ poll' = [poll EXCEPT !.pc = "fetch", !.from = poll.to + 1]
          BY <3>3 DEF PollAdvance
        <4>2. EndPoll => poll'.pc = "idle"
          BY <1>0, EndPollMoves DEF IdlePoll
        <4>3. QED
          BY <1>0, <4>1, <4>2 DEF PollSort
      <3>4. QED
        BY <1>4, <3>1, <3>2, <3>3
    <2>3. QED
      BY <1>a, <2>1, <2>2 DEF Flags, InfeasibleHasDetail
  <1>5. CASE SetRoundPhase
    <2>1. /\ UNCHANGED <<now, infeasible, detail, poll>>
          /\ epoch # 0 => UNCHANGED lockAt
      BY <1>5 DEF SetRoundPhase, chainVars
    <2>2. epoch = 0 => poll.pc # "flag"
      <3>1. epoch = 0 => lockAt = 0
        BY DEF Base, Calendar
      <3>2. ~(now < 0)
        BY <1>0
      <3>3. QED
        BY <3>1, <3>2 DEF Flags
    <2>3. QED
      BY <1>a, <2>1, <2>2 DEF Flags, InfeasibleHasDetail
  <1>6. CASE InitCursor
    <2>1. eng.pc = "initCursor" /\ UNCHANGED poll
      BY <1>6 DEF InitCursor
    <2>2. poll.pc = "idle"
      BY <1>0, <2>1 DEF Locks
    <2>3. infeasible' => detail'
      <3>1. \/ infeasible' = FALSE
            \/ detail' = (detail \/ infeasible')
        BY <1>6 DEF InitCursor
      <3>2. QED
        BY <3>1
    <2>4. QED
      BY <2>1, <2>2, <2>3 DEF Flags, InfeasibleHasDetail
  <1>7. CASE AdvanceCommit
    <2>1. eng.pc = "advCommit" /\ infeasible' = FALSE /\ UNCHANGED poll
      BY <1>7 DEF AdvanceCommit
    <2>2. eng.epoch > epoch /\ eng.epoch <= Len(rounds) /\ epoch > 0
      BY <2>1 DEF Base, Calendar
    <2>3. eng.epoch \in Nat
      BY <1>0 DEF EngSort
    <2> DEFINE k == eng.epoch
               s == rounds[k].start
    <2>4. lockAt <= s /\ s <= now /\ s \in Nat
      BY <2>2, <2>3, LaterRoundsBegin
    <2> HIDE DEF k, s
    <2>5. ~(now < lockAt)
      BY <1>0, <2>4
    <2>6. QED
      BY <2>1, <2>5 DEF Flags, InfeasibleHasDetail
  <1>8. CASE AdvanceFeasibility
    <2>1. UNCHANGED <<now, lockAt, poll>>
      BY <1>8 DEF AdvanceFeasibility, chainVars
    <2>2. (infeasible' => detail') /\ (detail => detail')
      <3>1. \/ UNCHANGED <<infeasible, detail>>
            \/ \E h \in Heads :
                 /\ detail' = (detail \/ (h > cursor /\ CatchupInfeasible(h - cursor, lockAt)))
                 /\ infeasible' = (infeasible \/ ((h > cursor /\ CatchupInfeasible(h - cursor, lockAt))
                                                  /\ lockAt > now))
        BY <1>8 DEF AdvanceFeasibility
      <3>2. CASE UNCHANGED <<infeasible, detail>>
        BY <1>a, <3>2
      <3>3. ASSUME NEW bad, NEW soon, detail' = (detail \/ bad),
                   infeasible' = (infeasible \/ (bad /\ soon))
            PROVE  (infeasible' => detail') /\ (detail => detail')
        BY <1>a, <3>3, Zenon
      <3>4. QED
        BY <3>1, <3>2, <3>3
    <2>3. QED
      BY <2>1, <2>2 DEF Flags, InfeasibleHasDetail
  <1>9. CASE InitLock \/ AdvanceHeader \/ AnchorPoll \/ IsPoolReady \/ GetPool \/ DaemonPlan
             \/ OrphanEnds \/ UNCHANGED vars
    <2>1. UNCHANGED <<now, lockAt, infeasible, detail, poll>>
      BY <1>9 DEF InitLock, AdvanceHeader, AnchorPoll, IsPoolReady, GetPool, DaemonPlan, OrphanEnds,
                  vars, roundVars, chainVars
    <2>2. QED
      BY <2>1 DEF Flags, InfeasibleHasDetail
  <1>10. CASE SinglePoll \/ DaemonTick
    <2>1. /\ UNCHANGED <<now, lockAt, infeasible, detail>>
          /\ UNCHANGED poll \/ poll'.pc = "head"
      BY <1>10 DEF SinglePoll, DaemonTick, StartPoll, IdlePoll, roundVars, chainVars
    <2>2. QED
      BY <2>1 DEF Flags, InfeasibleHasDetail
  <1>11. CASE Slot
    <2>1. UNCHANGED <<infeasible, detail, poll>> /\ ~Pressing
      BY <1>11 DEF Slot, roundVars
    <2>2. poll.pc # "flag"
      BY <2>1 DEF Pressing
    <2>3. QED
      BY <2>1, <2>2 DEF Flags, InfeasibleHasDetail
  <1>12. QED
    BY <1>1, <1>2, <1>3, <1>4, <1>5, <1>6, <1>7, <1>8, <1>9, <1>10, <1>11
       DEF Next, PollStep, EngineStep

\* A round that is_pool_ready skips as infeasible has the numbers of that verdict at
\* hand, however the polls of the two threads and the change of the round meet
\* (rpc_poller_catchup_infeasible_without_detail is never raised): unless a thread is
\* held up between two steps that only compute.
THEOREM DetailSound == ~Stalls => (Spec => []InfeasibleHasDetail)
  <1>1. Init => Base /\ Flags
    <2> SUFFICES ASSUME Init PROVE Base /\ Flags
      OBVIOUS
    <2>1. poll.pc = "idle" /\ infeasible = FALSE
      BY DEF Init, IdlePoll
    <2>2. QED
      BY <2>1, BaseStarts DEF Flags, InfeasibleHasDetail
  <1>2. ASSUME ~Stalls PROVE Base /\ Flags /\ [Next]_vars => (Base /\ Flags)'
    BY <1>2, BaseStep, FlagsStep
  <1>3. Flags => InfeasibleHasDetail
    BY DEF Flags
  <1>4. QED
    <2> SUFFICES ASSUME ~Stalls PROVE Spec => []InfeasibleHasDetail
      OBVIOUS
    <2>1. Base /\ Flags /\ [Next]_vars => (Base /\ Flags)'
      BY <1>2
    <2>2. QED
      BY <1>1, <1>3, <2>1, PTL DEF Spec

-----------------------------------------------------------------------------
(* The engine's polls and its decision, on the clock.                      *)

\* Unless the round was set up too late, the engine is ahead of its next instant, and
\* a poll of its own is cut off before the anchor's.
Timely ==
    ~eng.late =>
        /\ eng.pc = "waitSingle" => now <= lockAt - SingleOffset
        /\ eng.pc = "polling" => now <= poll.abortAt /\ poll.abortAt <= lockAt - AnchorOffset
        /\ eng.pc \in {"waitAnchor", "decide", "read"} => now <= lockAt - AnchorOffset

\* A step that leaves the engine where it is, or sends it on from a place where it
\* keeps no time.
LEMMA TimelyFrame ==
    ASSUME Timely, UNCHANGED <<now, lockAt, eng>>,
           eng.pc = "polling" => UNCHANGED poll \/ poll'.abortAt = poll.abortAt
    PROVE  Timely'
  BY DEF Timely

LEMMA TimelyStep ==
    ASSUME ~Stalls, Base, Timely, [Next]_vars
    PROVE  Timely'
  <1>0. /\ Typed /\ Locks /\ poll \in PollSort /\ eng \in EngSort /\ now \in Nat /\ lockAt \in Nat
        /\ poll.abortAt \in Nat
    BY DEF Base, Typed, ChainShape, ShapeOf, PollSort
  <1>a. SingleOffset \in Nat /\ AnchorOffset \in Nat /\ CapSingle \in Nat
        /\ CapSingle + AnchorOffset <= SingleOffset
    BY Constants
  <1>1. CASE PollStep
    <2>1. UNCHANGED <<now, lockAt>> /\ poll.pc # "idle"
      BY <1>0, <1>1, PollMoves DEF chainVars
    <2>2. CASE EndPoll
      <3>1. CASE pollLock = "engine"
        <4>1. eng'.pc = "waitAnchor" /\ eng'.late = eng.late
          BY <1>0, <2>2, <3>1, EndPollMoves
        <4>2. eng.pc = "polling"
          BY <1>0, <2>1, <3>1 DEF Locks
        <4>3. ~eng.late => now <= poll.abortAt /\ poll.abortAt <= lockAt - AnchorOffset
          BY <4>2 DEF Timely
        <4> DEFINE x == poll.abortAt
                   y == lockAt - AnchorOffset
        <4>4. x \in Nat /\ y \in Int /\ (~eng.late => now <= x /\ x <= y)
          BY <1>0, <1>a, <4>3
        <4> HIDE DEF x, y
        <4>5. ~eng.late => now <= y
          BY <1>0, <4>4
        <4>6. QED
          BY <2>1, <4>1, <4>5 DEF Timely, y
      <3>2. CASE pollLock # "engine"
        <4>1. eng' = eng
          BY <1>0, <2>2, <3>2, EndPollMoves
        <4>2. eng.pc # "polling"
          BY <1>0, <3>2 DEF Locks
        <4>3. QED
          BY <2>1, <4>1, <4>2, TimelyFrame
      <3>3. QED
        BY <3>1, <3>2
    <2>3. CASE UNCHANGED eng /\ poll'.abortAt = poll.abortAt
      BY <2>1, <2>3, TimelyFrame
    <2>4. QED
      BY <1>0, <1>1, <2>2, <2>3, PollMoves
  <1>2. CASE SetRoundPhase \/ InitLock \/ AdvanceHeader \/ AdvanceCommit \/ GetPool
    <2>1. eng'.pc \notin {"waitSingle", "polling", "waitAnchor", "decide", "read"}
      <3>1. CASE SetRoundPhase
        BY <1>0, <3>1 DEF SetRoundPhase, EngSort
      <3>2. CASE InitLock
        BY <1>0, <3>2 DEF InitLock, EngSort
      <3>3. CASE AdvanceHeader
        BY <1>0, <3>3 DEF AdvanceHeader, EngSort
      <3>4. CASE AdvanceCommit
        BY <1>0, <3>4 DEF AdvanceCommit, EngSort
      <3>5. CASE GetPool
        BY <1>0, <3>5 DEF GetPool, EngSort
      <3>6. QED
        BY <1>2, <3>1, <3>2, <3>3, <3>4, <3>5
    <2>2. QED
      BY <2>1 DEF Timely
  <1>3. CASE InitCursor \/ AdvanceFeasibility
    <2>1. /\ eng' = [eng EXCEPT !.pc = "waitSingle", !.epoch = 0, !.by = 0, !.late = Late]
          /\ UNCHANGED <<now, lockAt>>
      BY <1>3 DEF InitCursor, AdvanceFeasibility, chainVars
    <2>2. eng'.pc = "waitSingle" /\ eng'.late = Late
      BY <1>0, <2>1 DEF EngSort
    <2>3. ~Late => now <= lockAt - SingleOffset
      BY <1>0, <1>a DEF Late
    <2>4. QED
      BY <2>1, <2>2, <2>3 DEF Timely
  <1>4. CASE SinglePoll
    <2>1. eng.pc = "waitSingle" /\ UNCHANGED <<now, lockAt>>
      BY <1>4 DEF SinglePoll, chainVars, roundVars
    <2>2. ~eng.late => now <= lockAt - SingleOffset
      BY <2>1 DEF Timely
    <2> DEFINE c == now + CapSingle
               d == lockAt - AnchorOffset
    <2>3. ~eng.late => now <= c /\ c <= d /\ now <= d
      BY <1>0, <1>a, <2>2
    <2>4. CASE StartPoll("engine", CapSingle) /\ eng' = [eng EXCEPT !.pc = "polling"]
      <3>1. poll'.abortAt = c
        BY <1>0, <1>a, <2>4, StartPollMoves
      <3>2. eng'.pc = "polling" /\ eng'.late = eng.late
        BY <1>0, <2>4 DEF EngSort
      <3> HIDE DEF c
      <3>3. QED
        BY <2>1, <2>3, <3>1, <3>2 DEF Timely
    <2>5. CASE \/ eng' = [eng EXCEPT !.pc = "waitAnchor", !.dropped = "same"]
               \/ eng' = [eng EXCEPT !.pc = "waitAnchor", !.dropped = "other"]
      <3>1. eng'.pc = "waitAnchor" /\ eng'.late = eng.late
        BY <1>0, <2>5 DEF EngSort
      <3>2. QED
        BY <2>1, <2>3, <3>1 DEF Timely
    <2>6. QED
      BY <1>4, <2>4, <2>5 DEF SinglePoll
  <1>5. CASE AnchorPoll \/ IsPoolReady
    <2>1. /\ eng.pc \in {"waitAnchor", "decide"} /\ UNCHANGED <<now, lockAt>>
          /\ \E pc \in {"decide", "read", "idle"} : eng' = [eng EXCEPT !.pc = pc]
      BY <1>5 DEF AnchorPoll, IsPoolReady, chainVars, roundVars
    <2>2. eng'.pc \in {"decide", "read", "idle"} /\ eng'.late = eng.late
      BY <1>0, <2>1 DEF EngSort
    <2>3. QED
      BY <2>1, <2>2 DEF Timely
  <1>6. CASE OrphanEnds \/ DaemonPlan \/ UNCHANGED vars
    <2>1. UNCHANGED <<now, lockAt, eng, poll>>
      BY <1>6 DEF OrphanEnds, DaemonPlan, vars, chainVars, roundVars
    <2>2. QED
      BY <2>1, TimelyFrame
  <1>7. CASE DaemonTick
    <2>1. /\ UNCHANGED <<now, lockAt, eng>>
          /\ UNCHANGED poll \/ pollLock = "free"
      BY <1>7 DEF DaemonTick, chainVars, roundVars
    <2>2. pollLock = "free" => eng.pc # "polling"
      BY <1>0 DEF Locks
    <2>3. QED
      BY <2>1, <2>2, TimelyFrame
  <1>8. CASE Slot
    <2>1. now' = now + 1 /\ UNCHANGED <<lockAt, eng, poll>> /\ ~Pressing
      BY <1>8 DEF Slot, roundVars
    <2>2. /\ eng.pc \notin {"decide", "read"}
          /\ ~(eng.pc = "waitSingle" /\ now >= lockAt - SingleOffset)
          /\ ~(eng.pc = "waitAnchor" /\ now >= lockAt - AnchorOffset)
          /\ ~(poll.pc # "idle" /\ now >= poll.abortAt)
      BY <2>1 DEF Pressing
    <2>3. eng.pc = "waitSingle" => now' <= lockAt - SingleOffset
      BY <1>0, <1>a, <2>1, <2>2
    <2>4. eng.pc = "waitAnchor" => now' <= lockAt - AnchorOffset
      BY <1>0, <1>a, <2>1, <2>2
    <2>5. eng.pc = "polling" => now' <= poll.abortAt
      <3>1. eng.pc = "polling" => ~(now >= poll.abortAt)
        BY <1>0, <2>2 DEF Locks
      <3>2. QED
        BY <1>0, <2>1, <3>1
    <2>6. QED
      BY <2>1, <2>2, <2>3, <2>4, <2>5 DEF Timely
  <1>9. QED
    BY <1>1, <1>2, <1>3, <1>4, <1>5, <1>6, <1>7, <1>8 DEF Next, EngineStep

\* A round set up in time is decided in time: the wall cap of the engine's own poll,
\* or the poll of the daemon it runs into, never carries the decision past the
\* instant of the anchor poll, for every schedule the start-up checks of config.py
\* accept, unless a thread is held up between two steps that only compute.
THEOREM DecisionSound == ~Stalls => (Spec => []DecisionIsOnTime)
  <1>1. Init => Base /\ Timely
    <2> SUFFICES ASSUME Init PROVE Base /\ Timely
      OBVIOUS
    <2>1. eng.pc = "idle"
      BY DEF Init
    <2>2. QED
      BY <2>1, BaseStarts DEF Timely
  <1>2. Timely => DecisionIsOnTime
    BY DEF Timely, DecisionIsOnTime
  <1>3. SUFFICES ASSUME ~Stalls PROVE Spec => []DecisionIsOnTime
    OBVIOUS
  <1>4. Base /\ Timely /\ [Next]_vars => (Base /\ Timely)'
    BY <1>3, BaseStep, TimelyStep
  <1>5. QED
    BY <1>1, <1>2, <1>4, PTL DEF Spec

-----------------------------------------------------------------------------
(* The start: the first cursor is set while the first round is still open, *)
(* and no other thread polls before it is set.                             *)

\* Nobody polls before the first cursor, and there is time left to set it.
Early ==
    /\ epoch = 0 => daemon.lock = 0 /\ pollLock = "free" /\ cursor = 0
    /\ eng.pc = "initLock" =>
          /\ pollLock = "free" /\ cursor = 0 /\ now + StartMargin < lockAt
          /\ daemon.lock > 0 => daemon.wake > now
    /\ eng.pc = "initCursor" => cursor = 0 /\ now <= eng.by /\ eng.by < lockAt

LEMMA EarlyStep ==
    ASSUME ~Stalls, HeaderCap <= StartMargin, Base, Base', Early, [Next]_vars
    PROVE  Early'
  <1>0. /\ Typed /\ Locks /\ eng \in EngSort /\ daemon \in DaemonSort
        /\ now \in Nat /\ lockAt \in Nat /\ epoch \in Nat /\ epoch' \in Nat
        /\ eng.by \in Nat
    BY DEF Base, Typed, ChainShape, ShapeOf, EngSort
  <1>a. HeaderCap \in Nat /\ StartMargin \in Nat
    BY Constants
  <1>b. epoch = 0 => lockAt = 0 /\ eng.pc = "idle"
    BY <1>0 DEF Base, Calendar
  <1>1. CASE PollStep
    <2>1. UNCHANGED epoch /\ poll.pc # "idle"
      BY <1>0, <1>1, PollMoves
    <2>2. pollLock # "free" /\ eng.pc # "initCursor"
      BY <1>0, <2>1 DEF Locks
    <2>3. epoch # 0 /\ eng.pc # "initLock"
      BY <2>2 DEF Early
    <2>4. eng'.pc \notin {"initLock", "initCursor"}
      <3>1. CASE EndPoll
        BY <1>0, <2>2, <2>3, <3>1, EndPollMoves
      <3>2. CASE UNCHANGED eng
        BY <2>2, <2>3, <3>2
      <3>3. QED
        BY <1>0, <1>1, <3>1, <3>2, PollMoves
    <2>5. QED
      BY <2>1, <2>3, <2>4 DEF Early
  <1>2. CASE SetRoundPhase
    <2> DEFINE e == Len(rounds)
    <2>1. UNCHANGED <<now, pollLock, cursor, daemon>>
      BY <1>2 DEF SetRoundPhase, chainVars
    <2>2. CASE epoch = 0
      <3>1. /\ eng' = [eng EXCEPT !.pc = "initLock", !.epoch = e, !.by = now + HeaderCap,
                                  !.dropped = "no"]
            /\ lockAt' = rounds[e].lock /\ lockAt' > now + StartMargin /\ epoch' = e /\ e > epoch
        BY <1>2, <2>2 DEF SetRoundPhase
      <3>2. eng'.pc = "initLock"
        BY <1>0, <3>1 DEF EngSort
      <3>3. daemon.lock = 0 /\ pollLock = "free" /\ cursor = 0
        BY <2>2 DEF Early
      <3>4. ~(daemon.lock > 0)
        BY <3>3
      <3>5. epoch' # 0
        BY <1>0, <3>1
      <3>6. lockAt' \in Nat
        BY DEF Base, Typed
      <3>7. now + StartMargin < lockAt'
        BY <1>0, <1>a, <3>1, <3>6
      <3>8. QED
        BY <2>1, <3>2, <3>3, <3>4, <3>5, <3>7 DEF Early
    <2>3. CASE epoch # 0
      <3>1. /\ eng' = [eng EXCEPT !.pc = "advHeader", !.epoch = e, !.by = now + HeaderCap,
                                  !.dropped = "no"]
            /\ UNCHANGED epoch
        BY <1>2, <2>3 DEF SetRoundPhase
      <3>2. eng'.pc = "advHeader"
        BY <1>0, <3>1 DEF EngSort
      <3>3. QED
        BY <2>3, <3>1, <3>2 DEF Early
    <2>4. QED
      BY <2>2, <2>3
  <1>3. CASE InitLock
    <2>1. /\ eng.pc = "initLock" /\ eng' = [eng EXCEPT !.pc = "initCursor", !.by = now + HeaderCap]
          /\ UNCHANGED <<now, lockAt, epoch, cursor>>
      BY <1>3 DEF InitLock, chainVars, roundVars
    <2>2. eng'.pc = "initCursor" /\ eng'.by = now + HeaderCap
      BY <1>0, <2>1 DEF EngSort
    <2>3. cursor = 0 /\ now + StartMargin < lockAt
      BY <2>1 DEF Early
    <2>4. now <= now + HeaderCap /\ now + HeaderCap < lockAt
      BY <1>0, <1>a, <2>3
    <2>5. epoch # 0
      BY <1>b, <2>1
    <2>6. QED
      BY <2>1, <2>2, <2>3, <2>4, <2>5 DEF Early
  <1>4. CASE InitCursor \/ AdvanceHeader \/ AdvanceCommit \/ AdvanceFeasibility \/ SinglePoll
             \/ AnchorPoll \/ IsPoolReady \/ GetPool
    <2>1. eng'.pc \notin {"initLock", "initCursor"}
      <3>1. CASE InitCursor
        BY <1>0, <3>1 DEF InitCursor, EngSort
      <3>2. CASE AdvanceHeader
        BY <1>0, <3>2 DEF AdvanceHeader, EngSort
      <3>3. CASE AdvanceCommit
        BY <1>0, <3>3 DEF AdvanceCommit, EngSort
      <3>4. CASE AdvanceFeasibility
        BY <1>0, <3>4 DEF AdvanceFeasibility, EngSort
      <3>5. CASE SinglePoll
        BY <1>0, <3>5 DEF SinglePoll, EngSort
      <3>6. CASE AnchorPoll
        BY <1>0, <3>6 DEF AnchorPoll, EngSort
      <3>7. CASE IsPoolReady
        BY <1>0, <3>7 DEF IsPoolReady, EngSort
      <3>8. CASE GetPool
        BY <1>0, <3>8 DEF GetPool, EngSort
      <3>9. QED
        BY <1>4, <3>1, <3>2, <3>3, <3>4, <3>5, <3>6, <3>7, <3>8
    <2>2. epoch' # 0
      <3>1. eng.pc # "idle"
        BY <1>4 DEF InitCursor, AdvanceHeader, AdvanceCommit, AdvanceFeasibility, SinglePoll,
                    AnchorPoll, IsPoolReady, GetPool
      <3>2. epoch # 0
        BY <1>b, <3>1
      <3>3. CASE AdvanceCommit
        <4>1. epoch' = eng.epoch /\ eng.pc = "advCommit"
          BY <3>3 DEF AdvanceCommit
        <4>2. eng.epoch > epoch /\ eng.epoch \in Nat
          BY <1>0, <4>1 DEF Base, Calendar, EngSort
        <4>3. QED
          BY <1>0, <4>1, <4>2
      <3>4. CASE ~AdvanceCommit
        <4>1. UNCHANGED epoch
          BY <1>4, <3>4 DEF InitCursor, AdvanceHeader, AdvanceFeasibility, SinglePoll, AnchorPoll,
                            IsPoolReady, GetPool, roundVars
        <4>2. QED
          BY <3>2, <4>1
      <3>5. QED
        BY <3>3, <3>4
    <2>3. QED
      BY <2>1, <2>2 DEF Early
  <1>5. CASE DaemonPlan
    <2>1. /\ daemon' = [pc |-> "wait", lock |-> lockAt,
                        wake |-> IF lockAt = 0 THEN now + Period ELSE NextTick(lockAt)]
          /\ UNCHANGED <<now, lockAt, epoch, cursor, pollLock, eng>>
      BY <1>5 DEF DaemonPlan, chainVars, roundVars
    <2>2. daemon'.lock = lockAt /\ (lockAt # 0 => daemon'.wake = NextTick(lockAt))
      BY <2>1
    <2>3. now < NextTick(lockAt) /\ NextTick(lockAt) \in Int
      BY <1>0, NextTickLater
    <2>4. lockAt # 0 => daemon'.wake > now
      BY <1>0, <2>2, <2>3
    <2>5. daemon'.lock > 0 => daemon'.wake > now
      BY <1>0, <2>2, <2>4
    <2>6. QED
      BY <1>b, <2>1, <2>2, <2>5 DEF Early
  <1>6. CASE DaemonTick
    <2>1. /\ now >= daemon.wake /\ UNCHANGED <<now, lockAt, epoch, cursor, eng>>
          /\ \/ daemon.lock > 0 /\ pollLock = "free"
             \/ daemon' = [daemon EXCEPT !.pc = "plan"] /\ UNCHANGED pollLock
      BY <1>6 DEF DaemonTick, chainVars, roundVars
    <2>2. CASE daemon.lock > 0 /\ pollLock = "free"
      <3>1. epoch # 0
        BY <2>2 DEF Early
      <3>2. daemon.wake \in Int
        BY <1>0 DEF DaemonSort
      <3>3. eng.pc # "initLock"
        BY <1>0, <2>1, <2>2, <3>2 DEF Early
      <3>4. eng.pc # "initCursor"
        BY <1>0, <2>2 DEF Locks
      <3>5. QED
        BY <2>1, <3>1, <3>3, <3>4 DEF Early
    <2>3. CASE daemon' = [daemon EXCEPT !.pc = "plan"] /\ UNCHANGED pollLock
      <3>1. daemon'.lock = daemon.lock /\ daemon'.wake = daemon.wake
        BY <1>0, <2>3 DEF DaemonSort
      <3>2. QED
        BY <2>1, <2>3, <3>1 DEF Early
    <2>4. QED
      BY <2>1, <2>2, <2>3
  <1>7. CASE OrphanEnds \/ UNCHANGED vars
    <2>1. UNCHANGED <<now, lockAt, epoch, cursor, pollLock, eng, daemon>>
      BY <1>7 DEF OrphanEnds, vars, chainVars, roundVars
    <2>2. QED
      BY <2>1 DEF Early
  <1>8. CASE Slot
    <2>1. now' = now + 1 /\ UNCHANGED <<lockAt, epoch, cursor, pollLock, eng, daemon>> /\ ~Pressing
      BY <1>8 DEF Slot, roundVars
    <2>2. /\ ~(eng.pc = "initLock" /\ pollLock = "free")
          /\ eng.pc = "initCursor" => ~(now >= eng.by)
      BY <2>1 DEF Pressing
    <2>3. eng.pc # "initLock"
      BY <2>2 DEF Early
    <2>4. eng.pc = "initCursor" => now + 1 <= eng.by
      BY <1>0, <2>2
    <2>5. QED
      BY <2>1, <2>3, <2>4 DEF Early
  <1>9. QED
    BY <1>1, <1>2, <1>3, <1>4, <1>5, <1>6, <1>7, <1>8 DEF Next, EngineStep

-----------------------------------------------------------------------------
(* What the cursor has passed.                                             *)

\* No block up to the n-th lies in a round the bot has not come to yet.
NotAfter(n) ==
    \A k \in 1 .. Len(rounds), b \in 1 .. n : k > epoch => blockTs[b] <= rounds[k].start

\* The bets of the open round in a stretch of blocks are among those of a set.
Among(S, lo, hi) == \A b \in 1 .. hi : lo <= b /\ EpochOf(b) = epoch => b \in S

LEMMA NotAfterStays ==
    ASSUME Base, Base', ChainGrows, NEW n \in Nat, n <= Len(blockTs), NotAfter(n), epoch' >= epoch
    PROVE  NotAfter(n)'
  <1> SUFFICES ASSUME NEW k \in 1 .. Len(rounds'), NEW b \in 1 .. n, k > epoch'
               PROVE  blockTs'[b] <= rounds'[k].start
    BY DEF NotAfter
  <1> DEFINE N == Len(blockTs)
             m == Len(rounds)
             q == Len(rounds')
             x == blockTs[b]
  <1>1. N \in Nat /\ m \in Nat /\ q \in Nat /\ epoch \in Nat /\ epoch' \in Nat /\ now \in Nat
    BY LenProperties DEF Base, Typed, ChainShape, ShapeOf
  <1>2. k \in 1 .. q /\ n <= N /\ k > epoch'
    OBVIOUS
  <1>3. b \in 1 .. Len(blockTs)
    <2> HIDE DEF N, m, q, x
    <2>1. b \in 1 .. N
      BY <1>1, <1>2
    <2>2. QED
      BY <2>1 DEF N
  <1>4. blockTs'[b] = x
    BY <1>3 DEF ChainGrows
  <1>5. CASE k <= m
    <2>1. k \in 1 .. Len(rounds) /\ k > epoch
      <3> HIDE DEF N, m, q, x
      <3>1. k \in 1 .. m /\ k > epoch
        BY <1>1, <1>2, <1>5
      <3>2. QED
        BY <3>1 DEF m
    <2>2. rounds'[k] = rounds[k]
      BY <2>1 DEF ChainGrows
    <2>3. x <= rounds[k].start
      BY <2>1 DEF NotAfter
    <2>4. QED
      BY <1>4, <2>2, <2>3
  <1>6. CASE ~(k <= m)
    <2>1. k > m
      <3> HIDE DEF N, m, q, x
      <3>1. QED
        BY <1>1, <1>2, <1>6
    <2>2. rounds'[k].start > now
      BY <2>1 DEF ChainGrows
    <2>3. rounds'[k].start \in Nat
      <3>1. rounds'[k] \in [start : Nat, lock : Nat]
        BY ElementOfSeq DEF Base, ChainShape, ShapeOf
      <3>2. QED
        BY <3>1
    <2>4. x <= now /\ x \in Int
      BY <1>3, BlockIsPast DEF Base
    <2> DEFINE y == rounds'[k].start
    <2>5. y > now /\ y \in Nat
      BY <2>2, <2>3
    <2> HIDE DEF x, y, N, m, q
    <2>6. x <= y
      BY <1>1, <2>4, <2>5
    <2>7. QED
      BY <1>4, <2>6 DEF y
  <1>7. QED
    BY <1>5, <1>6

LEMMA NotAfterLess ==
    ASSUME NEW n \in Int, NEW m \in Int, n <= m, NotAfter(m)
    PROVE  NotAfter(n)
  <1>1. \A b \in 1 .. n : b \in 1 .. m
    OBVIOUS
  <1>2. QED
    BY <1>1 DEF NotAfter

\* While the round of the bot is open there is no later one.
LEMMA NoLaterRound ==
    ASSUME Base, epoch > 0, now < lockAt, NEW n
    PROVE  NotAfter(n)
  <1> SUFFICES ASSUME NEW k \in 1 .. Len(rounds), k > epoch PROVE FALSE
    BY DEF NotAfter
  <1> DEFINE m == Len(rounds)
             s == rounds[k].start
  <1>1. m \in Nat /\ now \in Nat /\ lockAt \in Nat
    BY LenProperties DEF Base, Typed, ChainShape, ShapeOf
  <1>2. k \in Nat /\ k <= Len(rounds)
    <2>1. k \in 1 .. m
      OBVIOUS
    <2> HIDE DEF m
    <2>2. k \in Nat /\ k <= m
      BY <1>1, <2>1
    <2>3. QED
      BY <2>2 DEF m
  <1>3. lockAt <= s /\ s <= now /\ s \in Nat
    BY <1>2, LaterRoundsBegin
  <1> HIDE DEF m, s
  <1>4. QED
    BY <1>1, <1>3

\* A block not later than the start of a round does not belong to it.
LEMMA OutsideRound ==
    ASSUME ChainShape, NEW b \in 1 .. Len(blockTs), NEW e \in 1 .. Len(rounds),
           blockTs[b] <= rounds[e].start
    PROVE  EpochOf(b) # e
  <1> DEFINE x == blockTs[b]
             s == rounds[e].start
  <1>1. x \in Int
    BY ElementOfSeq DEF ChainShape, ShapeOf
  <1>2. rounds[e] \in [start : Nat, lock : Nat]
    BY ElementOfSeq DEF ChainShape, ShapeOf
  <1>3. s \in Nat /\ x <= s
    BY <1>2
  <1> HIDE DEF x, s
  <1>4. ~(s < x)
    BY <1>1, <1>3
  <1>5. ~Holds(b, e)
    BY <1>4 DEF Holds, x, s
  <1>6. QED
    BY <1>5, EpochOfIs

\* A block of a stretch of blocks is a block.
LEMMA BlockBelow ==
    ASSUME ChainShape, NEW n \in Nat, n <= Len(blockTs), NEW b \in 1 .. n
    PROVE  b \in 1 .. Len(blockTs)
  <1> DEFINE N == Len(blockTs)
  <1>1. N \in Nat /\ n <= N
    BY LenProperties DEF ChainShape, ShapeOf
  <1> HIDE DEF N
  <1>2. b \in 1 .. N
    BY <1>1
  <1>3. QED
    BY <1>2 DEF N

\* When the round changes, what the cursor has passed holds no bet of the new one.
LEMMA AmongAfresh ==
    ASSUME Base, Base', ChainGrows, NEW n \in Nat, n <= Len(blockTs), epoch' > 0,
           epoch' <= Len(rounds), \A b \in 1 .. n : blockTs[b] <= rounds[epoch'].start,
           NEW S, NEW lo
    PROVE  Among(S, lo, n)'
  <1> SUFFICES ASSUME NEW b \in 1 .. n PROVE EpochOf(b)' # epoch'
    BY DEF Among
  <1>1. b \in 1 .. Len(blockTs)
    BY BlockBelow DEF Base
  <1>2. epoch' \in 1 .. Len(rounds)
    <2>1. epoch' \in Nat
      BY DEF Base, Typed
    <2>2. QED
      BY <2>1, RoundFacts DEF Base
  <1>3. PICK e \in 1 .. Len(rounds) : e = epoch'
    BY <1>2
  <1>4. blockTs[b] <= rounds[e].start
    BY <1>3
  <1>5. EpochOf(b) # e
    BY <1>1, <1>4, OutsideRound DEF Base
  <1>6. EpochOf(b)' # e
    BY <1>1, <1>5, EpochOfStays DEF Base
  <1>7. QED
    BY <1>3, <1>6

LEMMA AmongStays ==
    ASSUME Base, Base', ChainGrows, epoch > 0, UNCHANGED epoch,
           NEW n \in Nat, n <= Len(blockTs), NEW S, NEW T, NEW lo, S \subseteq T, Among(S, lo, n)
    PROVE  Among(T, lo, n)'
  <1> SUFFICES ASSUME NEW b \in 1 .. n, lo <= b, EpochOf(b)' = epoch' PROVE b \in T
    BY DEF Among
  <1>1. b \in 1 .. Len(blockTs)
    BY BlockBelow DEF Base
  <1>2. epoch \in 1 .. Len(rounds)
    BY OpenRound
  <1>3. PICK e \in 1 .. Len(rounds) : e = epoch
    BY <1>2
  <1>4. EpochOf(b)' = e
    BY <1>3
  <1>5. EpochOf(b) = e
    BY <1>1, <1>4, EpochOfStays DEF Base
  <1>6. b \in S
    BY <1>3, <1>5 DEF Among
  <1>7. QED
    BY <1>6

Active == {"fetch", "stamp", "append", "advance"}

\* What the cursor has passed does not lie in a later round than the bot's.
CursorPart == cursor <= Len(blockTs) /\ NotAfter(cursor)

\* A jump ends before the round it is for.
JumpPart ==
    eng.pc = "advCommit" =>
        /\ eng.jump <= Len(blockTs)
        /\ \A b \in 1 .. eng.jump : blockTs[b] <= rounds[eng.epoch].start

\* The bets of the open round that the cursor has passed are in the pool.
MissPart ==
    epoch > 0 /\ ~infeasible /\ eng.pc \notin {"initLock", "initCursor"} => Among(pools, 1, cursor)

\* The range of a poll joins the cursor, and what it has parsed is all there is in it.
PollPart ==
    poll.pc \in Active =>
        /\ poll.from >= 1 /\ poll.from <= cursor + 1 /\ poll.from <= poll.head
        /\ poll.head <= Len(blockTs) /\ NotAfter(poll.head)
        /\ poll.pc # "fetch" => poll.to <= poll.head
        /\ poll.pc \in {"stamp", "append"} => Among(poll.parsed, poll.from, poll.to)
        /\ poll.pc = "advance" => Among(pools, poll.from, poll.to)

Behind == CursorPart /\ JumpPart /\ MissPart /\ PollPart

\* The lengths, as numbers.
LEMMA Lengths ==
    ASSUME Base
    PROVE  Len(blockTs) \in Nat /\ Len(rounds) \in Nat
  BY LenProperties DEF Base, ChainShape, ShapeOf

LEMMA PollHasRound ==
    ASSUME Base, Early, poll.pc # "idle"
    PROVE  epoch > 0 /\ pollLock # "free"
  <1>1. epoch \in Nat /\ pollLock # "free"
    BY DEF Base, Typed, Locks
  <1>2. epoch # 0
    BY <1>1 DEF Early
  <1>3. QED
    BY <1>1, <1>2

LEMMA CursorStays ==
    ASSUME Base, Base', ChainGrows, CursorPart, UNCHANGED cursor, epoch' >= epoch
    PROVE  CursorPart'
  <1>1. PICK n \in Nat : n = cursor
    BY DEF Base, Typed
  <1>2. n <= Len(blockTs) /\ NotAfter(n)
    BY <1>1 DEF CursorPart
  <1>3. NotAfter(n)'
    BY <1>2, NotAfterStays
  <1> DEFINE p == Len(blockTs)
             q == Len(blockTs')
  <1>4. p \in Nat /\ q \in Nat /\ p <= q /\ n <= p
    BY <1>2, LenProperties DEF Base, ChainShape, ShapeOf, ChainGrows
  <1> HIDE DEF p, q
  <1>5. n <= q
    BY <1>4
  <1>6. cursor' = n
    BY <1>1
  <1>7. NotAfter(cursor)'
    BY <1>3, <1>6 DEF NotAfter
  <1>8. QED
    BY <1>5, <1>6, <1>7 DEF CursorPart, q

LEMMA JumpStays ==
    ASSUME Base, Base', ChainGrows, JumpPart, UNCHANGED eng
    PROVE  JumpPart'
  <1> SUFFICES ASSUME eng.pc = "advCommit"
               PROVE  /\ eng.jump <= Len(blockTs')
                      /\ \A b \in 1 .. eng.jump : blockTs'[b] <= rounds'[eng.epoch].start
    BY DEF JumpPart
  <1>1. eng.jump \in Nat /\ eng.epoch \in Nat /\ epoch \in Nat
    BY DEF Base, Typed, EngSort
  <1>2. eng.jump <= Len(blockTs) /\ \A b \in 1 .. eng.jump : blockTs[b] <= rounds[eng.epoch].start
    BY DEF JumpPart
  <1>3. eng.epoch > epoch /\ eng.epoch <= Len(rounds)
    BY DEF Base, Calendar
  <1>4. eng.epoch > 0
    BY <1>1, <1>3
  <1>5. eng.epoch \in 1 .. Len(rounds)
    BY <1>1, <1>3, <1>4, RoundFacts DEF Base
  <1>6. rounds'[eng.epoch] = rounds[eng.epoch]
    BY <1>5 DEF ChainGrows
  <1>7. \A b \in 1 .. eng.jump : blockTs'[b] = blockTs[b]
    <2> TAKE b \in 1 .. eng.jump
    <2>1. b \in 1 .. Len(blockTs)
      BY <1>1, <1>2, BlockBelow DEF Base
    <2>2. QED
      BY <2>1 DEF ChainGrows
  <1> DEFINE p == Len(blockTs)
             q == Len(blockTs')
             j == eng.jump
  <1>8. p \in Nat /\ q \in Nat /\ p <= q /\ j <= p /\ j \in Nat
    BY <1>1, <1>2, LenProperties DEF Base, ChainShape, ShapeOf, ChainGrows
  <1>9. j <= q
    <2> HIDE DEF p, q, j
    <2>1. QED
      BY <1>8
  <1>10. QED
    BY <1>2, <1>6, <1>7, <1>9

LEMMA MissStays ==
    ASSUME Base, Base', ChainGrows, CursorPart, MissPart, UNCHANGED <<epoch, cursor>>,
           pools \subseteq pools',
           ~infeasible' /\ eng'.pc \notin {"initLock", "initCursor"}
              => ~infeasible /\ eng.pc \notin {"initLock", "initCursor"}
    PROVE  MissPart'
  <1>1. PICK n \in Nat : n = cursor
    BY DEF Base, Typed
  <1>2. PICK S, T : S = pools /\ T = pools'
    OBVIOUS
  <1> SUFFICES ASSUME epoch' > 0, ~infeasible', eng'.pc \notin {"initLock", "initCursor"}
               PROVE  Among(pools, 1, cursor)'
    BY DEF MissPart
  <1>3. Among(S, 1, n)
    BY <1>1, <1>2 DEF MissPart, Among
  <1>4. n <= Len(blockTs) /\ S \subseteq T /\ epoch > 0
    BY <1>1, <1>2 DEF CursorPart
  <1>5. Among(T, 1, n)'
    BY <1>3, <1>4, AmongStays
  <1>6. cursor' = n
    BY <1>1
  <1>7. QED
    BY <1>2, <1>5, <1>6 DEF Among

LEMMA PollStays ==
    ASSUME Base, Base', ChainGrows, Early, PollPart, UNCHANGED <<epoch, poll>>, cursor' >= cursor,
           pools \subseteq pools'
    PROVE  PollPart'
  <1> SUFFICES ASSUME poll.pc \in Active
               PROVE  /\ poll.from >= 1 /\ poll.from <= cursor' + 1 /\ poll.from <= poll.head
                      /\ poll.head <= Len(blockTs') /\ NotAfter(poll.head)'
                      /\ poll.pc # "fetch" => poll.to <= poll.head
                      /\ poll.pc \in {"stamp", "append"} => Among(poll.parsed, poll.from, poll.to)'
                      /\ poll.pc = "advance" => Among(pools, poll.from, poll.to)'
    BY DEF PollPart
  <1>0. epoch > 0
    BY PollHasRound DEF Active
  <1>a. PICK f \in Nat, h \in Nat, u \in Nat : f = poll.from /\ h = poll.head /\ u = poll.to
    BY DEF Base, Typed, PollSort
  <1>b. PICK P, S, T : P = poll.parsed /\ S = pools /\ T = pools'
    OBVIOUS
  <1>1. f = poll.from /\ h = poll.head /\ u = poll.to /\ P = poll.parsed /\ S = pools /\ T = pools'
    BY <1>a, <1>b
  <1>2. f >= 1 /\ f <= cursor + 1 /\ f <= h /\ h <= Len(blockTs) /\ NotAfter(h)
        /\ (poll.pc # "fetch" => u <= h)
    BY <1>1 DEF PollPart
  <1> DEFINE p == Len(blockTs)
             q == Len(blockTs')
  <1>3. p \in Nat /\ q \in Nat /\ p <= q /\ h <= p /\ cursor \in Nat /\ cursor' \in Nat
    BY <1>2, LenProperties DEF Base, Typed, ChainShape, ShapeOf, ChainGrows
  <1>4. NotAfter(h)'
    BY <1>2, NotAfterStays DEF Base, Typed
  <1> HIDE DEF p, q
  <1> DEFINE c == cursor
             d == cursor'
  <1>c. c \in Nat /\ d \in Nat /\ c <= d /\ f <= c + 1
    BY <1>2, <1>3
  <1> HIDE DEF c, d
  <1>d. f <= d + 1 /\ h <= q
    BY <1>3, <1>c
  <1>5. h <= q /\ f <= cursor' + 1
    BY <1>d DEF d
  <1>6. poll.pc # "fetch" => u <= p
    BY <1>2, <1>3
  <1>7. ASSUME poll.pc \in {"stamp", "append"} PROVE Among(P, f, u)'
    <2>1. Among(P, f, u)
      BY <1>1, <1>7 DEF PollPart, Among
    <2>2. u <= Len(blockTs) /\ P \subseteq P
      BY <1>6, <1>7 DEF p
    <2>3. QED
      BY <1>0, <2>1, <2>2, AmongStays
  <1>8. ASSUME poll.pc = "advance" PROVE Among(T, f, u)'
    <2>1. Among(S, f, u)
      BY <1>1, <1>8 DEF PollPart, Among
    <2>2. u <= Len(blockTs) /\ S \subseteq T
      BY <1>1, <1>6, <1>8 DEF p
    <2>3. QED
      BY <1>0, <2>1, <2>2, AmongStays
  <1>9. poll' = poll
    OBVIOUS
  <1>10. NotAfter(poll.head)'
    BY <1>1, <1>4, <1>9 DEF NotAfter
  <1>11. poll.pc \in {"stamp", "append"} => Among(poll.parsed, poll.from, poll.to)'
    BY <1>1, <1>7, <1>9 DEF Among
  <1>12. poll.pc = "advance" => Among(pools, poll.from, poll.to)'
    BY <1>1, <1>8, <1>9 DEF Among
  <1>13. QED
    BY <1>1, <1>2, <1>5, <1>10, <1>11, <1>12 DEF q

\* A step that moves neither the cursor nor the poll, or ends the poll.
LEMMA BehindFrame ==
    ASSUME Base, Base', ChainGrows, Early, Behind, UNCHANGED <<epoch, cursor>>,
           pools \subseteq pools',
           UNCHANGED eng \/ eng'.pc # "advCommit",
           ~infeasible' /\ eng'.pc \notin {"initLock", "initCursor"}
              => ~infeasible /\ eng.pc \notin {"initLock", "initCursor"},
           UNCHANGED poll \/ poll'.pc \notin Active
    PROVE  Behind'
  <1>0. epoch' >= epoch /\ cursor' >= cursor
    BY DEF Base, Typed
  <1>1. CursorPart'
    BY <1>0, CursorStays DEF Behind
  <1>2. JumpPart'
    <2>1. CASE UNCHANGED eng
      BY <2>1, JumpStays DEF Behind
    <2>2. CASE eng'.pc # "advCommit"
      BY <2>2 DEF JumpPart
    <2>3. QED
      BY <2>1, <2>2
  <1>3. MissPart'
    BY MissStays DEF Behind
  <1>4. PollPart'
    <2>1. CASE UNCHANGED poll
      BY <1>0, <2>1, PollStays DEF Behind
    <2>2. CASE poll'.pc \notin Active
      BY <2>2 DEF PollPart
    <2>3. QED
      BY <2>1, <2>2
  <1>5. QED
    BY <1>1, <1>2, <1>3, <1>4 DEF Behind

\* A poll that ends leaves the cursor and the pool as they are.
LEMMA BehindEnds ==
    ASSUME Base, Base', ChainGrows, Early, Behind, EndPoll, poll.pc # "idle",
           UNCHANGED <<epoch, cursor, pools>>, infeasible' = infeasible \/ infeasible' = TRUE
    PROVE  Behind'
  <1>0. Typed /\ Locks /\ pools \subseteq pools'
    BY DEF Base
  <1>1. poll'.pc \notin Active
    BY <1>0, EndPollMoves DEF IdlePoll, Active
  <1>2. CASE pollLock = "engine"
    <2>1. eng'.pc = "waitAnchor"
      BY <1>0, <1>2, EndPollMoves
    <2>2. eng.pc = "polling"
      BY <1>0, <1>2 DEF Locks
    <2>3. ~infeasible' /\ eng'.pc \notin {"initLock", "initCursor"}
              => ~infeasible /\ eng.pc \notin {"initLock", "initCursor"}
      BY <2>2
    <2>4. eng'.pc # "advCommit"
      BY <2>1
    <2>5. QED
      BY <1>0, <1>1, <2>3, <2>4, BehindFrame
  <1>3. CASE pollLock # "engine"
    <2>1. eng' = eng
      BY <1>0, <1>3, EndPollMoves
    <2>2. ~infeasible' /\ eng'.pc \notin {"initLock", "initCursor"}
              => ~infeasible /\ eng.pc \notin {"initLock", "initCursor"}
      BY <2>1
    <2>3. QED
      BY <1>0, <1>1, <2>1, <2>2, BehindFrame
  <1>4. QED
    BY <1>2, <1>3

\* The cost of a range is at least one tick: a poll that is found feasible starts
\* before the lock.
LEMMA FeasibleIsOpen ==
    ASSUME Base, epoch > 0, NEW behind \in Nat, behind > 0, ~CatchupInfeasible(behind, lockAt)
    PROVE  now < lockAt
  <1>0. now \in Nat /\ lockAt \in Nat /\ Chunk \in Nat /\ Chunk > 0 /\ ChunkCost \in Nat
        /\ ChunkCost > 0 /\ Interval \in Nat /\ Interval > 0
    BY Constants, ScheduleAssumption DEF Base, Typed, ChainShape, ShapeOf
  <1>1. lockAt > 0
    <2> DEFINE s == rounds[epoch].start
    <2>1. lockAt - Interval = s /\ s \in Nat
      BY OpenRound
    <2> HIDE DEF s
    <2>2. QED
      BY <1>0, <2>1
  <1>2. ~(CatchupCost(behind) > TimeUntilLock(lockAt))
    BY <1>1 DEF CatchupInfeasible
  <1> DEFINE a == behind + Chunk - 1
             n == a \div Chunk
  <1>3. a \in Nat /\ a >= Chunk
    BY <1>0
  <1>4. n \in Nat /\ n >= 1
    <2> HIDE DEF a
    <2>1. a < Chunk * (n + 1) /\ n \in Nat
      BY <1>0, <1>3
    <2>2. n # 0
      <3> SUFFICES ASSUME n = 0 PROVE FALSE
        OBVIOUS
      <3> HIDE DEF n
      <3>1. a < Chunk * (0 + 1)
        BY <2>1
      <3>2. QED
        BY <1>0, <1>3, <3>1
    <2> HIDE DEF n
    <2>3. QED
      BY <2>1, <2>2
  <1> HIDE DEF a, n
  <1>5. n * ChunkCost \in Nat /\ n * ChunkCost >= 1
    <2>1. PICK c \in Nat : c = ChunkCost /\ c >= 1
      BY <1>0
    <2>2. PICK m \in Nat : n = m + 1
      <3>1. n - 1 \in Nat /\ n = (n - 1) + 1
        BY <1>4
      <3>2. QED
        BY <3>1
    <2>3. n * c = m * c + c /\ m * c \in Nat
      BY <2>1, <2>2
    <2> DEFINE x == m * c
               y == n * c
    <2>4. y = x + c /\ x \in Nat
      BY <2>3
    <2> HIDE DEF x, y
    <2>5. y \in Nat /\ y >= 1
      BY <2>1, <2>4
    <2>6. QED
      BY <2>1, <2>5 DEF y
  <1> DEFINE z == n * ChunkCost
             u == TimeUntilLock(lockAt)
  <1>6. CatchupCost(behind) = z
    BY DEF CatchupCost, n, a
  <1>7. u = IF lockAt > now THEN lockAt - now ELSE 0
    BY DEF TimeUntilLock
  <1>8. ~(z > u) /\ z \in Nat /\ z >= 1
    BY <1>2, <1>5, <1>6
  <1> HIDE DEF z, u
  <1>9. QED
    BY <1>0, <1>7, <1>8

\* A poll that goes on: only its own part has to be looked at.
LEMMA BehindGoesOn ==
    ASSUME Base, Base', ChainGrows, Behind, UNCHANGED <<epoch, cursor, eng, infeasible>>,
           pools \subseteq pools', PollPart'
    PROVE  Behind'
  <1>0. epoch' >= epoch
    BY DEF Base, Typed
  <1>1. CursorPart'
    BY <1>0, CursorStays DEF Behind
  <1>2. JumpPart'
    BY JumpStays DEF Behind
  <1>3. MissPart'
    BY MissStays DEF Behind
  <1>4. QED
    BY <1>1, <1>2, <1>3 DEF Behind

LEMMA BehindPollHead ==
    ASSUME Base, Base', ChainGrows, Early, Behind, PollHead
    PROVE  Behind'
  <1>0. /\ poll.pc = "head" /\ UNCHANGED <<epoch, cursor, pools, infeasible>> /\ poll \in PollSort
        /\ cursor \in Nat
    BY DEF PollHead, poolVars, Base, Typed
  <1>1. PICK h \in Heads :
          \/ EndPoll
          \/ poll' = [poll EXCEPT !.pc = "flag"] /\ UNCHANGED eng
          \/ /\ h >= cursor + 1 /\ ~CatchupInfeasible(h - (cursor + 1) + 1, lockAt)
             /\ poll' = [poll EXCEPT !.pc = "fetch", !.head = h, !.from = cursor + 1]
             /\ UNCHANGED eng
    BY DEF PollHead
  <1>2. CASE EndPoll
    <2>1. poll.pc # "idle"
      BY <1>0
    <2>2. QED
      BY <1>0, <1>2, <2>1, BehindEnds
  <1>3. CASE poll' = [poll EXCEPT !.pc = "flag"] /\ UNCHANGED eng
    <2>1. poll'.pc = "flag"
      BY <1>0, <1>3 DEF PollSort
    <2>2. poll'.pc \notin Active /\ pools \subseteq pools'
      BY <1>0, <2>1 DEF Active
    <2>3. QED
      BY <1>0, <1>3, <2>2, BehindFrame
  <1>4. CASE /\ h >= cursor + 1 /\ ~CatchupInfeasible(h - (cursor + 1) + 1, lockAt)
             /\ poll' = [poll EXCEPT !.pc = "fetch", !.head = h, !.from = cursor + 1]
             /\ UNCHANGED eng
    <2>1. poll'.pc = "fetch" /\ poll'.head = h /\ poll'.from = cursor + 1
      BY <1>0, <1>4 DEF PollSort
    <2>2. h \in Nat /\ h \in 1 .. Len(blockTs)
      BY HeadIsBlock DEF Base
    <2>3. epoch > 0
      BY <1>0, PollHasRound
    <2> DEFINE behind == h - (cursor + 1) + 1
    <2>4. behind \in Nat /\ behind > 0
      BY <1>0, <1>4, <2>2
    <2>5. ~CatchupInfeasible(behind, lockAt)
      BY <1>4
    <2> HIDE DEF behind
    <2>6. now < lockAt
      BY <2>3, <2>4, <2>5, FeasibleIsOpen
    <2>7. NotAfter(h)
      BY <2>3, <2>6, NoLaterRound
    <2>8. h <= Len(blockTs)
      BY <2>2, Lengths
    <2>9. epoch' >= epoch
      BY <1>0 DEF Base, Typed
    <2>10. NotAfter(h)'
      BY <2>2, <2>7, <2>8, <2>9, NotAfterStays
    <2>11. h <= Len(blockTs')
      <3> DEFINE p == Len(blockTs)
                 q == Len(blockTs')
      <3>1. p \in Nat /\ q \in Nat /\ p <= q /\ h <= p
        BY <2>8, LenProperties DEF Base, ChainShape, ShapeOf, ChainGrows
      <3> HIDE DEF p, q
      <3>2. h <= q
        BY <2>2, <3>1
      <3>3. QED
        BY <3>2 DEF q
    <2>12. NotAfter(poll.head)'
      BY <2>1, <2>10 DEF NotAfter
    <2> DEFINE f == cursor + 1
    <2>13. f >= 1 /\ f <= cursor' + 1 /\ f <= h
      BY <1>0, <1>4, <2>2
    <2>14. poll'.from = f
      BY <2>1
    <2> HIDE DEF f
    <2>15. PollPart'
      BY <2>1, <2>11, <2>12, <2>13, <2>14 DEF PollPart
    <2>16. pools \subseteq pools'
      BY <1>0
    <2>17. QED
      BY <1>0, <1>4, <2>15, <2>16, BehindGoesOn
  <1>5. QED
    BY <1>1, <1>2, <1>3, <1>4

\* The numbers of a poll.
LEMMA PollNumbers ==
    ASSUME Base, PollPart, poll.pc \in Active
    PROVE  /\ poll.from \in Nat /\ poll.head \in Nat /\ poll.to \in Nat /\ cursor \in Nat
           /\ poll.from >= 1 /\ poll.from <= cursor + 1 /\ poll.from <= poll.head
           /\ poll.head <= Len(blockTs) /\ NotAfter(poll.head)
           /\ poll.pc # "fetch" => poll.to <= poll.head
           /\ Len(blockTs) \in Nat
  BY Lengths DEF PollPart, Base, Typed, PollSort

\* A poll that goes on over the same blocks.
LEMMA SamePoll ==
    ASSUME Base, Base', ChainGrows, Early, Behind, poll.pc \in Active, UNCHANGED <<epoch, cursor>>,
           poll'.head = poll.head, poll'.from = poll.from,
           poll'.pc # "fetch" => poll'.to <= poll.head,
           poll'.pc \in {"stamp", "append"} => Among(poll.parsed, poll.from, poll.to)',
           poll'.pc = "advance" => Among(pools, poll.from, poll.to)'
    PROVE  PollPart'
  <1>1. /\ poll.head \in Nat /\ poll.from >= 1 /\ poll.from <= cursor + 1 /\ poll.from <= poll.head
        /\ poll.head <= Len(blockTs) /\ NotAfter(poll.head)
    BY PollNumbers DEF Behind
  <1>2. PICK h \in Nat : h = poll.head
    BY <1>1
  <1>3. epoch' >= epoch /\ h <= Len(blockTs) /\ NotAfter(h)
    BY <1>1, <1>2 DEF Base, Typed
  <1>4. NotAfter(h)'
    BY <1>3, NotAfterStays
  <1>5. NotAfter(poll.head)'
    BY <1>2, <1>4 DEF NotAfter
  <1> DEFINE p == Len(blockTs)
             q == Len(blockTs')
  <1>6. p \in Nat /\ q \in Nat /\ p <= q /\ h <= p
    BY <1>3, LenProperties DEF Base, ChainShape, ShapeOf, ChainGrows
  <1> HIDE DEF p, q
  <1>7. h <= q
    BY <1>6
  <1>8. poll'.head <= Len(blockTs')
    BY <1>2, <1>7 DEF q
  <1>9. poll'.from >= 1 /\ poll'.from <= cursor' + 1 /\ poll'.from <= poll'.head
    BY <1>1
  <1>10. poll'.pc # "fetch" => poll'.to <= poll'.head
    OBVIOUS
  <1>11. poll'.pc \in {"stamp", "append"} => Among(poll.parsed, poll.from, poll.to)'
    OBVIOUS
  <1>12. poll'.pc = "advance" => Among(pools, poll.from, poll.to)'
    OBVIOUS
  <1>13. QED
    BY <1>5, <1>8, <1>9, <1>10, <1>11, <1>12 DEF PollPart

LEMMA BehindPollRange ==
    ASSUME Base, Base', ChainGrows, Early, Behind, PollRange
    PROVE  Behind'
  <1> DEFINE t == Min({poll.from + Chunk - 1, poll.head})
             p == {b \in poll.from .. t : EpochOf(b) \in {epoch, epoch + 1}}
             c == IF p = {} THEN "advance" ELSE "stamp"
  <1>1. /\ poll.pc = "fetch" /\ poll' = [poll EXCEPT !.to = t, !.parsed = p, !.pc = c]
        /\ UNCHANGED <<epoch, cursor, eng, infeasible, pools>>
    BY DEF PollRange, roundVars, poolVars
  <1>2. poll \in PollSort /\ poll.pc \in Active
    BY <1>1 DEF Base, Typed, Active
  <1>3. epoch > 0
    BY <1>1, PollHasRound
  <1>4. poll.from \in Nat /\ poll.head \in Nat /\ poll.head <= Len(blockTs) /\ Len(blockTs) \in Nat
        /\ poll.from >= 1
    BY <1>2, PollNumbers DEF Behind
  <1>5. t \in Nat /\ t <= poll.head
    <2> DEFINE a == poll.from + Chunk - 1
               h == poll.head
    <2>1. a \in Nat /\ h \in Nat
      BY <1>4, Constants
    <2> HIDE DEF a, h
    <2>2. Min({a, h}) = IF h < a THEN h ELSE a
      BY <2>1, MinOfTwo
    <2>3. Min({a, h}) \in Nat /\ Min({a, h}) <= h
      BY <2>1, <2>2
    <2>4. QED
      BY <2>3 DEF a, h
  <1>6. Among(p, poll.from, t)
    <2> SUFFICES ASSUME NEW b \in 1 .. t, poll.from <= b, EpochOf(b) = epoch PROVE b \in p
      BY DEF Among
    <2>1. b \in poll.from .. t
      <3> HIDE DEF t
      <3>1. QED
        BY <1>4, <1>5
    <2>2. EpochOf(b) \in {epoch, epoch + 1}
      OBVIOUS
    <2> HIDE DEF t
    <2>3. QED
      BY <2>1, <2>2, Zenon
  <1>7. c \in {"stamp", "advance"} /\ (c = "advance" => p = {})
    OBVIOUS
  <1> HIDE DEF t, p, c
  <1>8. poll'.head = poll.head /\ poll'.from = poll.from /\ poll'.to = t /\ poll'.parsed = p
        /\ poll'.pc = c
    BY <1>1, <1>2 DEF PollSort
  <1>a. PICK P : P = p
    OBVIOUS
  <1>b. PICK f \in Nat, u \in Nat : f = poll.from /\ u = t
    BY <1>4, <1>5
  <1>9. f = poll.from /\ u = t /\ P = p
    BY <1>a, <1>b
  <1>10. u <= Len(blockTs)
    <2> DEFINE n == Len(blockTs)
               h == poll.head
    <2>1. n \in Nat /\ h \in Nat /\ h <= n /\ u <= h
      BY <1>4, <1>5, <1>9
    <2> HIDE DEF n, h
    <2>2. u <= n
      BY <2>1
    <2>3. QED
      BY <2>2 DEF n
  <1>11. Among(P, f, u)
    BY <1>6, <1>9
  <1>12. Among(P, f, u)'
    BY <1>1, <1>3, <1>10, <1>11, AmongStays
  <1>13. Among(poll.parsed, poll.from, poll.to)'
    BY <1>8, <1>9, <1>12 DEF Among
  <1>14. c = "advance" => Among(pools, poll.from, poll.to)'
    <2> SUFFICES ASSUME c = "advance" PROVE Among(pools, poll.from, poll.to)'
      OBVIOUS
    <2>1. poll'.parsed = {}
      BY <1>7, <1>8
    <2>2. QED
      BY <1>13, <2>1 DEF Among
  <1>15. PollPart'
    BY <1>1, <1>2, <1>5, <1>8, <1>13, <1>14, SamePoll
  <1>16. pools \subseteq pools'
    BY <1>1
  <1>17. QED
    BY <1>1, <1>15, <1>16, BehindGoesOn

LEMMA BehindPollStamps ==
    ASSUME Base, Base', ChainGrows, Early, Behind, PollStamps
    PROVE  Behind'
  <1>1. /\ poll.pc = "stamp" /\ poll' = [poll EXCEPT !.pc = "append"]
        /\ UNCHANGED <<epoch, cursor, eng, infeasible, pools>>
    BY DEF PollStamps, roundVars
  <1>2. poll \in PollSort /\ poll.pc \in Active
    BY <1>1 DEF Base, Typed, Active
  <1>3. epoch > 0
    BY <1>1, PollHasRound
  <1>4. poll.to <= poll.head /\ poll.head <= Len(blockTs) /\ Len(blockTs) \in Nat /\ poll.to \in Nat
        /\ poll.head \in Nat
    BY <1>1, <1>2, PollNumbers DEF Behind
  <1>5. poll'.head = poll.head /\ poll'.from = poll.from /\ poll'.to = poll.to
        /\ poll'.parsed = poll.parsed /\ poll'.pc = "append"
    BY <1>1, <1>2 DEF PollSort
  <1>a. PICK P : P = poll.parsed
    OBVIOUS
  <1>b. PICK f \in Nat, u \in Nat : f = poll.from /\ u = poll.to
    BY <1>2, <1>4 DEF PollSort
  <1>6. f = poll.from /\ u = poll.to /\ P = poll.parsed
    BY <1>a, <1>b
  <1>7. u <= Len(blockTs)
    <2> DEFINE n == Len(blockTs)
               h == poll.head
    <2>1. n \in Nat /\ h \in Nat /\ h <= n /\ u <= h
      BY <1>4, <1>6
    <2> HIDE DEF n, h
    <2>2. u <= n
      BY <2>1
    <2>3. QED
      BY <2>2 DEF n
  <1>8. Among(P, f, u)
    BY <1>1, <1>2, <1>6 DEF Behind, PollPart, Among
  <1>9. Among(P, f, u)'
    BY <1>1, <1>3, <1>7, <1>8, AmongStays
  <1>10. Among(poll.parsed, poll.from, poll.to)'
    BY <1>5, <1>6, <1>9 DEF Among
  <1>11. PollPart'
    BY <1>1, <1>2, <1>4, <1>5, <1>10, SamePoll
  <1>12. pools \subseteq pools'
    BY <1>1
  <1>13. QED
    BY <1>1, <1>11, <1>12, BehindGoesOn

LEMMA BehindPollAppend ==
    ASSUME Base, Base', ChainGrows, Early, Behind, PollAppend
    PROVE  Behind'
  <1>1. /\ poll.pc = "append" /\ poll' = [poll EXCEPT !.pc = "advance"]
        /\ pools' = pools \cup ({b \in poll.parsed : EpochOf(b) >= epoch} \ pools)
        /\ UNCHANGED <<epoch, cursor, eng, infeasible>>
    BY DEF PollAppend, roundVars
  <1>2. poll \in PollSort /\ poll.pc \in Active
    BY <1>1 DEF Base, Typed, Active
  <1>3. epoch > 0 /\ epoch \in Nat
    BY <1>1, PollHasRound DEF Base, Typed
  <1>4. poll.to <= poll.head /\ poll.head <= Len(blockTs) /\ Len(blockTs) \in Nat /\ poll.to \in Nat
        /\ poll.head \in Nat
    BY <1>1, <1>2, PollNumbers DEF Behind
  <1>5. poll'.head = poll.head /\ poll'.from = poll.from /\ poll'.to = poll.to
        /\ poll'.parsed = poll.parsed /\ poll'.pc = "advance"
    BY <1>1, <1>2 DEF PollSort
  <1>a. PICK P, T : P = poll.parsed /\ T = pools'
    OBVIOUS
  <1>b. PICK f \in Nat, u \in Nat : f = poll.from /\ u = poll.to
    BY <1>2, <1>4 DEF PollSort
  <1>6. f = poll.from /\ u = poll.to /\ P = poll.parsed /\ T = pools'
    BY <1>a, <1>b
  <1>7. u <= Len(blockTs)
    <2> DEFINE n == Len(blockTs)
               h == poll.head
    <2>1. n \in Nat /\ h \in Nat /\ h <= n /\ u <= h
      BY <1>4, <1>6
    <2> HIDE DEF n, h
    <2>2. u <= n
      BY <2>1
    <2>3. QED
      BY <2>2 DEF n
  <1>8. Among(T, f, u)
    <2> SUFFICES ASSUME NEW b \in 1 .. u, f <= b, EpochOf(b) = epoch PROVE b \in T
      BY DEF Among
    <2>1. Among(P, f, u)
      BY <1>1, <1>2, <1>6 DEF Behind, PollPart, Among
    <2>2. b \in P
      BY <2>1 DEF Among
    <2>3. epoch >= epoch
      BY <1>3
    <2>4. EpochOf(b) >= epoch
      BY <2>3
    <2>5. b \in {x \in poll.parsed : EpochOf(x) >= epoch}
      BY ONLY <1>6, <2>2, <2>4, Zenon
    <2>6. b \in pools'
      BY <1>1, <2>5, Zenon
    <2>7. QED
      BY <1>6, <2>6
  <1>9. Among(T, f, u)'
    BY <1>1, <1>3, <1>7, <1>8, AmongStays
  <1>10. Among(pools, poll.from, poll.to)'
    BY <1>5, <1>6, <1>9 DEF Among
  <1>11. PollPart'
    BY <1>1, <1>2, <1>4, <1>5, <1>10, SamePoll
  <1>12. pools \subseteq pools'
    BY <1>1
  <1>13. QED
    BY <1>1, <1>11, <1>12, BehindGoesOn

LEMMA BehindPollAdvance ==
    ASSUME Base, Base', ChainGrows, Early, Behind, PollAdvance
    PROVE  Behind'
  <1>1. /\ poll.pc = "advance" /\ cursor' = Max({cursor, poll.to})
        /\ UNCHANGED <<epoch, infeasible, pools>>
        /\ \/ /\ poll.to < poll.head /\ UNCHANGED eng
              /\ poll' = [poll EXCEPT !.pc = "fetch", !.from = poll.to + 1]
           \/ EndPoll
    BY DEF PollAdvance, roundVars, poolVars
  <1>2. poll \in PollSort /\ poll.pc \in Active /\ Typed /\ Locks
    BY <1>1 DEF Base, Typed, Active
  <1>3. epoch > 0
    BY <1>1, PollHasRound
  <1>4. /\ poll.from \in Nat /\ poll.head \in Nat /\ poll.to \in Nat /\ cursor \in Nat
        /\ poll.from <= cursor + 1 /\ poll.to <= poll.head /\ poll.head <= Len(blockTs)
        /\ NotAfter(poll.head) /\ Len(blockTs) \in Nat
    BY <1>1, <1>2, PollNumbers DEF Behind
  <1>5. PICK f \in Nat, u \in Nat, h \in Nat, k \in Nat, n \in Nat :
          f = poll.from /\ u = poll.to /\ h = poll.head /\ k = cursor /\ n = cursor'
    BY <1>4 DEF Base, Typed
  <1>6. n = IF u > k THEN u ELSE k
    <2>1. Max({k, u}) = IF u > k THEN u ELSE k
      BY MaxOfTwo
    <2>2. QED
      BY <1>1, <1>5, <2>1
  <1>7. f <= k + 1 /\ u <= h /\ h <= Len(blockTs) /\ NotAfter(h) /\ n >= k /\ u <= n
    BY <1>4, <1>5, <1>6
  <1>8. k <= Len(blockTs) /\ NotAfter(k)
    BY <1>5 DEF Behind, CursorPart
  <1>9. n <= Len(blockTs) /\ u <= Len(blockTs)
    <2> DEFINE p == Len(blockTs)
    <2>1. p \in Nat /\ k <= p /\ h <= p
      BY <1>4, <1>7, <1>8
    <2> HIDE DEF p
    <2>2. n <= p /\ u <= p
      BY <1>6, <1>7, <2>1
    <2>3. QED
      BY <2>2 DEF p
  <1>10. NotAfter(n)
    <2>1. NotAfter(u)
      BY <1>7, NotAfterLess
    <2>2. QED
      BY <1>6, <1>8, <2>1
  <1>11. epoch' >= epoch
    BY <1>1 DEF Base, Typed
  <1>12. NotAfter(n)'
    BY <1>9, <1>10, <1>11, NotAfterStays
  <1> DEFINE p == Len(blockTs)
             q == Len(blockTs')
  <1>13. p \in Nat /\ q \in Nat /\ p <= q /\ n <= p /\ h <= p
    BY <1>7, <1>9, LenProperties DEF Base, ChainShape, ShapeOf, ChainGrows
  <1> HIDE DEF p, q
  <1>14. n <= q /\ h <= q
    BY <1>13
  <1>15. CursorPart'
    <2>1. NotAfter(cursor)'
      BY <1>5, <1>12 DEF NotAfter
    <2>2. QED
      BY <1>5, <1>14, <2>1 DEF CursorPart, q
  <1>16. eng' = eng \/ (eng'.pc = "waitAnchor" /\ eng.pc = "polling")
    <2>1. CASE EndPoll /\ pollLock = "engine"
      <3>1. eng'.pc = "waitAnchor"
        BY <1>2, <2>1, EndPollMoves
      <3>2. eng.pc = "polling"
        BY <1>1, <1>2, <2>1 DEF Locks
      <3>3. QED
        BY <3>1, <3>2
    <2>2. CASE EndPoll /\ pollLock # "engine"
      BY <1>2, <2>2, EndPollMoves
    <2>3. QED
      BY <1>1, <2>1, <2>2
  <1>17. JumpPart'
    <2>1. CASE eng' = eng
      BY <2>1, JumpStays DEF Behind
    <2>2. CASE eng'.pc = "waitAnchor"
      BY <2>2 DEF JumpPart
    <2>3. QED
      BY <1>16, <2>1, <2>2
  <1>18. MissPart'
    <2> SUFFICES ASSUME ~infeasible', eng'.pc \notin {"initLock", "initCursor"}
                 PROVE  Among(pools, 1, cursor)'
      BY DEF MissPart
    <2>1. ~infeasible /\ eng.pc \notin {"initLock", "initCursor"}
      BY <1>1, <1>16
    <2>2. PICK S : S = pools
      OBVIOUS
    <2>3. Among(S, 1, k)
      BY <1>3, <1>5, <2>1, <2>2 DEF Behind, MissPart
    <2>4. Among(S, f, u)
      BY <1>1, <1>2, <1>5, <2>2 DEF Behind, PollPart
    <2>5. Among(S, 1, n)
      <3> SUFFICES ASSUME NEW b \in 1 .. n, EpochOf(b) = epoch PROVE b \in S
        BY DEF Among
      <3>1. b \in 1 .. k \/ (b \in 1 .. u /\ f <= b)
        BY <1>6, <1>7
      <3>2. b \in 1 .. k => 1 <= b
        OBVIOUS
      <3>3. QED
        BY <2>3, <2>4, <3>1, <3>2 DEF Among
    <2>6. S \subseteq S
      OBVIOUS
    <2>7. Among(S, 1, n)'
      BY <1>1, <1>3, <1>9, <2>5, <2>6, AmongStays
    <2>8. QED
      BY <1>1, <1>5, <2>2, <2>7 DEF Among
  <1>19. PollPart'
    <2>1. CASE EndPoll
      <3>1. poll'.pc \notin Active
        BY <1>2, <2>1, EndPollMoves DEF IdlePoll, Active
      <3>2. QED
        BY <3>1 DEF PollPart
    <2>2. CASE poll.to < poll.head /\ poll' = [poll EXCEPT !.pc = "fetch", !.from = poll.to + 1]
      <3>1. poll'.pc = "fetch" /\ poll'.head = h /\ poll'.from = u + 1
        BY <1>2, <1>5, <2>2 DEF PollSort
      <3>2. u < h
        BY <1>5, <2>2
      <3>3. NotAfter(h)'
        BY <1>7, <1>11, NotAfterStays
      <3>4. NotAfter(poll.head)'
        BY <3>1, <3>3 DEF NotAfter
      <3>5. u + 1 >= 1 /\ u + 1 <= n + 1 /\ u + 1 <= h
        BY <1>7, <3>2
      <3>6. poll'.from >= 1 /\ poll'.from <= cursor' + 1 /\ poll'.from <= poll'.head
        BY <1>5, <3>1, <3>5
      <3>7. poll'.head <= Len(blockTs')
        BY <1>14, <3>1 DEF q
      <3>8. QED
        BY <3>1, <3>4, <3>6, <3>7 DEF PollPart
    <2>3. QED
      BY <1>1, <2>1, <2>2
  <1>20. QED
    BY <1>15, <1>17, <1>18, <1>19 DEF Behind

LEMMA BehindSetRoundPhase ==
    ASSUME Base, Base', ChainGrows, Early, Early', Behind, SetRoundPhase
    PROVE  Behind'
  <1> DEFINE e == Len(rounds)
  <1>1. eng.pc = "idle" /\ UNCHANGED <<cursor, pools, infeasible, poll>> /\ eng \in EngSort
    BY DEF SetRoundPhase, poolVars, Base, Typed
  <1>2. CASE epoch # 0
    <2>1. /\ UNCHANGED epoch
          /\ eng' = [eng EXCEPT !.pc = "advHeader", !.epoch = e, !.by = now + HeaderCap,
                                !.dropped = "no"]
      BY <1>2 DEF SetRoundPhase
    <2>2. eng'.pc = "advHeader"
      BY <1>1, <2>1 DEF EngSort
    <2>3. pools \subseteq pools' /\ eng'.pc # "advCommit"
          /\ (~infeasible' => ~infeasible /\ eng.pc \notin {"initLock", "initCursor"})
      BY <1>1, <2>2
    <2>4. QED
      BY <1>1, <2>1, <2>3, BehindFrame
  <1>3. CASE epoch = 0
    <2>1. eng' = [eng EXCEPT !.pc = "initLock", !.epoch = e, !.by = now + HeaderCap, !.dropped = "no"]
      BY <1>3 DEF SetRoundPhase
    <2>2. eng'.pc = "initLock"
      BY <1>1, <2>1 DEF EngSort
    <2>3. cursor' = 0 /\ poll.pc = "idle"
      BY <1>1, <1>3 DEF Early, Base, Locks
    <2>4. 0 <= Len(blockTs')
      BY LenProperties DEF Base, ChainShape, ShapeOf
    <2>5. CursorPart'
      <3>1. \A b \in 1 .. 0 : FALSE
        OBVIOUS
      <3>2. NotAfter(cursor)'
        BY <2>3, <3>1 DEF NotAfter
      <3>3. QED
        BY <2>3, <2>4, <3>2 DEF CursorPart
    <2>6. JumpPart' /\ MissPart' /\ PollPart'
      BY <1>1, <2>2, <2>3 DEF JumpPart, MissPart, PollPart, Active
    <2>7. QED
      BY <2>5, <2>6 DEF Behind
  <1>4. QED
    BY <1>2, <1>3

\* The first cursor: nothing it has passed lies in the open round, or the round is
\* given up.
LEMMA BehindInitCursor ==
    ASSUME Base, Base', ChainGrows, Early, Behind, InitCursor
    PROVE  Behind'
  <1> DEFINE start == lockAt - Interval
  <1>1. /\ eng.pc = "initCursor" /\ UNCHANGED <<epoch, lockAt, pools, poll, chainVars>> /\ eng \in EngSort
        /\ eng' = [eng EXCEPT !.pc = "waitSingle", !.epoch = 0, !.by = 0, !.late = Late]
    BY DEF InitCursor, poolVars, Base, Typed
  <1>2. eng'.pc = "waitSingle"
    BY <1>1 DEF EngSort
  <1>3. poll.pc = "idle" /\ epoch > 0 /\ cursor = 0
    BY <1>1 DEF Base, Locks, Calendar, Early
  <1>4. now < lockAt
    <2>1. now <= eng.by /\ eng.by < lockAt
      BY <1>1 DEF Early
    <2>2. now \in Nat /\ eng.by \in Nat /\ lockAt \in Nat
      BY DEF Base, Typed, EngSort, ChainShape, ShapeOf
    <2> DEFINE x == eng.by
    <2>3. now <= x /\ x < lockAt /\ x \in Nat
      BY <2>1, <2>2
    <2> HIDE DEF x
    <2>4. QED
      BY <2>2, <2>3
  <1>5. /\ epoch \in 1 .. Len(rounds) /\ start = rounds[epoch].start
        /\ start \in Nat /\ start >= 1
    BY <1>3, OpenRound
  <1>6. PICK n \in Nat : n = cursor'
    BY DEF Base, Typed
  <1>7. n <= Len(blockTs) /\ (~infeasible' => \A b \in 1 .. n : blockTs[b] <= rounds[epoch].start)
    <2>1. CASE UNCHANGED cursor
      <3>1. n = 0
        BY <1>3, <1>6, <2>1
      <3>2. 0 <= Len(blockTs) /\ \A b \in 1 .. 0 : FALSE
        BY Lengths
      <3>3. QED
        BY <3>1, <3>2
    <2>2. CASE \E h \in Heads, margin \in {0, RsMargin} :
               LET rs == RoundStartBlock(h, start, margin) IN
               cursor' = IF blockTs[h] <= start \/ infeasible' THEN h ELSE rs - 1
      <3>1. PICK h \in Heads, margin \in {0, RsMargin} :
               cursor' = IF blockTs[h] <= start \/ infeasible' THEN h
                         ELSE RoundStartBlock(h, start, margin) - 1
        BY <2>2
      <3>2. h \in 1 .. Len(blockTs) /\ h \in Nat
        BY HeadIsBlock DEF Base
      <3> DEFINE rs == RoundStartBlock(h, start, margin)
                 p == Len(blockTs)
      <3>3. rs \in 1 .. h /\ \A b \in 1 .. rs - 1 : blockTs[b] <= start
        <4> HIDE DEF start
        <4>1. QED
          BY <1>5, <3>2, StartBlock DEF Base
      <3>4. p \in Nat /\ h \in 1 .. p
        BY <3>2, Lengths
      <3>5. CASE n = h /\ blockTs[h] <= start
        <4> SUFFICES ASSUME NEW b \in 1 .. h PROVE blockTs[b] <= start
          BY <1>5, <3>4, <3>5
        <4>1. b \in 1 .. Len(blockTs) /\ b <= h
          <5> HIDE DEF p, start, rs
          <5>1. b \in 1 .. p /\ b <= h
            BY <3>4
          <5>2. QED
            BY <5>1 DEF p
        <4>2. blockTs[b] \in Int /\ blockTs[h] \in Int /\ blockTs[b] <= blockTs[h]
          BY <3>2, <4>1, BlocksInOrder DEF Base
        <4> DEFINE x == blockTs[b]
                   y == blockTs[h]
        <4>3. x \in Int /\ y \in Int /\ x <= y /\ y <= start /\ start \in Nat
          BY <1>5, <3>5, <4>2
        <4> HIDE DEF x, y, start
        <4>4. x <= start
          BY <4>3
        <4>5. QED
          BY <4>4 DEF x
      <3>6. CASE n = h /\ infeasible'
        BY <3>4, <3>6
      <3>7. CASE n = rs - 1
        <4>1. n <= p
          <5> HIDE DEF p, rs
          <5>1. QED
            BY <3>2, <3>3, <3>4, <3>7
        <4>2. \A b \in 1 .. n : blockTs[b] <= start
          BY <3>3, <3>7
        <4>3. QED
          BY <1>5, <4>1, <4>2
      <3>8. QED
        BY <1>6, <3>1, <3>5, <3>6, <3>7
    <2>3. QED
      BY <2>1, <2>2 DEF InitCursor
  <1>8. NotAfter(n)
    BY <1>3, <1>4, NoLaterRound
  <1>9. epoch' >= epoch
    BY <1>1 DEF Base, Typed
  <1>10. NotAfter(n)'
    BY <1>7, <1>8, <1>9, NotAfterStays
  <1>11. CursorPart'
    <2>1. NotAfter(cursor)'
      BY <1>6, <1>10 DEF NotAfter
    <2>2. n <= Len(blockTs')
      BY <1>1, <1>7 DEF chainVars
    <2>3. QED
      BY <1>6, <2>1, <2>2 DEF CursorPart
  <1>12. JumpPart' /\ PollPart'
    BY <1>1, <1>2, <1>3 DEF JumpPart, PollPart, Active
  <1>13. MissPart'
    <2> SUFFICES ASSUME ~infeasible' PROVE Among(pools, 1, cursor)'
      BY DEF MissPart
    <2>1. \A b \in 1 .. n : blockTs[b] <= rounds[epoch].start
      BY <1>7
    <2>2. epoch' > 0 /\ epoch' <= Len(rounds) /\ epoch' = epoch
      BY <1>1, <1>3 DEF Base, Calendar
    <2>3. PICK S : S = pools'
      OBVIOUS
    <2>4. Among(S, 1, n)'
      BY <1>7, <2>1, <2>2, AmongAfresh
    <2>5. QED
      BY <1>6, <2>3, <2>4 DEF Among
  <1>14. QED
    BY <1>11, <1>12, <1>13 DEF Behind

LEMMA BehindAdvanceHeader ==
    ASSUME Base, Base', ChainGrows, Early, Behind, AdvanceHeader
    PROVE  Behind'
  <1> DEFINE s == rounds[eng.epoch].start
  <1>1. /\ eng.pc = "advHeader" /\ UNCHANGED <<epoch, cursor, pools, infeasible, poll, chainVars>>
        /\ eng \in EngSort /\ eng.epoch \in Nat /\ epoch \in Nat
    BY DEF AdvanceHeader, poolVars, roundVars, Base, Typed, EngSort
  <1>2. s \in Nat /\ s >= 1
    <2>1. eng.epoch > epoch /\ eng.epoch <= Len(rounds)
      BY <1>1 DEF Base, Calendar
    <2>2. eng.epoch > 0
      BY <1>1, <2>1
    <2>3. QED
      BY <1>1, <2>1, <2>2, RoundFacts DEF Base
  <1>3. PICK j \in Nat : /\ eng' = [eng EXCEPT !.pc = "advCommit", !.jump = j]
                         /\ j <= Len(blockTs) /\ \A b \in 1 .. j : blockTs[b] <= s
    <2>1. CASE \E h \in Heads, margin \in {0, RsMargin} :
                 eng' = [eng EXCEPT !.pc = "advCommit", !.jump = RoundStartBlock(h, s, margin) - 1]
      <3>1. PICK h \in Heads, margin \in {0, RsMargin} :
                 eng' = [eng EXCEPT !.pc = "advCommit", !.jump = RoundStartBlock(h, s, margin) - 1]
        BY <2>1
      <3> DEFINE rs == RoundStartBlock(h, s, margin)
                 p == Len(blockTs)
                 j == rs - 1
      <3>2. h \in 1 .. Len(blockTs) /\ h \in Nat
        BY HeadIsBlock DEF Base
      <3>3. rs \in 1 .. h /\ \A b \in 1 .. rs - 1 : blockTs[b] <= s
        <4> HIDE DEF s
        <4>1. QED
          BY <1>2, <3>2, StartBlock DEF Base
      <3>4. p \in Nat /\ h \in 1 .. p
        BY <3>2, Lengths
      <3>5. eng' = [eng EXCEPT !.pc = "advCommit", !.jump = j] /\ \A b \in 1 .. j : blockTs[b] <= s
        BY <3>1, <3>3
      <3>6. j \in Nat /\ j <= p
        <4> HIDE DEF p, rs, s
        <4>1. QED
          BY <3>2, <3>3, <3>4
      <3> HIDE DEF j, rs
      <3>7. QED
        BY <3>5, <3>6
    <2>2. CASE eng' = [eng EXCEPT !.pc = "advCommit", !.jump = 0]
      <3>1. 0 <= Len(blockTs) /\ \A b \in 1 .. 0 : FALSE
        BY Lengths
      <3>2. QED
        BY <2>2, <3>1
    <2>3. QED
      BY <2>1, <2>2 DEF AdvanceHeader
  <1>4. eng'.pc = "advCommit" /\ eng'.jump = j /\ eng'.epoch = eng.epoch
    BY <1>1, <1>3 DEF EngSort
  <1>5. JumpPart'
    BY <1>1, <1>3, <1>4 DEF JumpPart, chainVars
  <1>6. epoch' >= epoch /\ cursor' >= cursor /\ pools \subseteq pools'
    BY <1>1 DEF Base, Typed
  <1>7. CursorPart'
    BY <1>1, <1>6, CursorStays DEF Behind
  <1>8. ~infeasible' => ~infeasible /\ eng.pc \notin {"initLock", "initCursor"}
    BY <1>1
  <1>9. MissPart'
    BY <1>1, <1>6, <1>8, MissStays DEF Behind
  <1>10. PollPart'
    BY <1>1, <1>6, PollStays DEF Behind
  <1>11. QED
    BY <1>5, <1>7, <1>9, <1>10 DEF Behind

\* The new round: nothing that has been passed lies in it, also when the cursor jumps,
\* and also for a poll that is under way.
LEMMA BehindAdvanceCommit ==
    ASSUME Base, Base', ChainGrows, Early, Behind, AdvanceCommit
    PROVE  Behind'
  <1> DEFINE e == eng.epoch
             s == rounds[e].start
  <1>1. /\ eng.pc = "advCommit" /\ epoch' = e /\ cursor' = Max({cursor, eng.jump})
        /\ UNCHANGED <<chainVars, poll>> /\ eng \in EngSort /\ e \in Nat /\ epoch \in Nat
        /\ eng' = [eng EXCEPT !.pc = "advHead", !.by = now + HeaderCap, !.jump = 0]
    BY DEF AdvanceCommit, Base, Typed, EngSort
  <1>2. eng'.pc = "advHead"
    BY <1>1 DEF EngSort
  <1>3. e > epoch /\ e <= Len(rounds)
    BY <1>1 DEF Base, Calendar
  <1>4. e > 0
    BY <1>1, <1>3
  <1>5. e \in 1 .. Len(rounds) /\ s \in Nat
    BY <1>1, <1>3, <1>4, RoundFacts DEF Base
  <1>6. PICK n \in Nat, k \in Nat, j \in Nat : n = cursor' /\ k = cursor /\ j = eng.jump
    BY <1>1 DEF Base, Typed, EngSort
  <1>7. n = IF j > k THEN j ELSE k
    <2>1. Max({k, j}) = IF j > k THEN j ELSE k
      BY MaxOfTwo
    <2>2. QED
      BY <1>1, <1>6, <2>1
  <1>8. k <= Len(blockTs) /\ NotAfter(k)
    BY <1>6 DEF Behind, CursorPart
  <1>9. j <= Len(blockTs) /\ \A b \in 1 .. j : blockTs[b] <= s
    BY <1>1, <1>6 DEF Behind, JumpPart
  <1>10. \A b \in 1 .. k : blockTs[b] <= s
    BY <1>3, <1>5, <1>8 DEF NotAfter
  <1>11. n <= Len(blockTs) /\ \A b \in 1 .. n : blockTs[b] <= s
    BY <1>7, <1>8, <1>9, <1>10
  <1>12. NotAfter(n)'
    <2> SUFFICES ASSUME NEW i \in 1 .. Len(rounds), NEW b \in 1 .. n, i > e
                 PROVE  blockTs[b] <= rounds[i].start
      BY <1>1 DEF NotAfter, chainVars
    <2>1. b \in 1 .. Len(blockTs)
      BY <1>11, BlockBelow DEF Base
    <2> DEFINE x == blockTs[b]
               y == rounds[i].start
               z == rounds[e].lock
               m == Len(rounds)
    <2>2. x \in Int
      BY <2>1, BlockIsPast DEF Base
    <2>3. x <= s
      BY <1>11
    <2>4. z = s + Interval
      BY <1>5 DEF Base, ChainShape, ShapeOf
    <2>5. z <= y
      <3>1. e < i
        <4>1. i \in 1 .. m /\ m \in Nat
          BY Lengths
        <4> HIDE DEF m, e
        <4>2. QED
          BY <1>1, <4>1
      <3>2. \A a, c \in 1 .. Len(rounds) : a < c => rounds[a].lock <= rounds[c].start
        BY DEF Base, ChainShape, ShapeOf
      <3>3. QED
        BY <1>5, <3>1, <3>2
    <2>6. y \in Nat
      <3>1. rounds[i] \in [start : Nat, lock : Nat]
        BY ElementOfSeq DEF Base, ChainShape, ShapeOf
      <3>2. QED
        BY <3>1
    <2> HIDE DEF x, y, z, s, e, m
    <2>7. x <= y
      BY <1>5, <2>2, <2>3, <2>4, <2>5, <2>6, Constants
    <2>8. QED
      BY <2>7 DEF x, y
  <1>13. CursorPart'
    <2>1. NotAfter(cursor)'
      BY <1>6, <1>12 DEF NotAfter
    <2>2. n <= Len(blockTs')
      BY <1>1, <1>11 DEF chainVars
    <2>3. QED
      BY <1>6, <2>1, <2>2 DEF CursorPart
  <1>14. JumpPart'
    BY <1>2 DEF JumpPart
  <1>15. epoch' > 0 /\ epoch' <= Len(rounds) /\ epoch' >= epoch
    <2> HIDE DEF e
    <2>1. e >= epoch
      BY <1>1, <1>3
    <2>2. QED
      BY <1>1, <1>3, <1>4, <2>1
  <1>16. MissPart'
    <2>1. PICK S : S = pools'
      OBVIOUS
    <2>2. \A b \in 1 .. n : blockTs[b] <= rounds[epoch'].start
      BY <1>1, <1>11
    <2>3. Among(S, 1, n)'
      BY <1>11, <1>15, <2>2, AmongAfresh
    <2>4. Among(pools, 1, cursor)'
      BY <1>6, <2>1, <2>3 DEF Among
    <2>5. QED
      BY <2>4 DEF MissPart
  <1>17. PollPart'
    <2> SUFFICES ASSUME poll.pc \in Active
                 PROVE  PollPart'
      BY <1>1 DEF PollPart
    <2>1. /\ poll.from \in Nat /\ poll.head \in Nat /\ poll.to \in Nat /\ cursor \in Nat
          /\ poll.from >= 1 /\ poll.from <= cursor + 1 /\ poll.from <= poll.head
          /\ poll.head <= Len(blockTs) /\ NotAfter(poll.head)
          /\ poll.pc # "fetch" => poll.to <= poll.head
      BY PollNumbers DEF Behind
    <2>2. PICK f \in Nat, h \in Nat, u \in Nat : f = poll.from /\ h = poll.head /\ u = poll.to
      BY <2>1
    <2>a. PICK P, S : P = poll.parsed /\ S = pools'
      OBVIOUS
    <2>3. f >= 1 /\ f <= k + 1 /\ f <= h /\ h <= Len(blockTs) /\ NotAfter(h)
          /\ (poll.pc # "fetch" => u <= h)
      BY <1>6, <2>1, <2>2
    <2>4. NotAfter(h)'
      BY <1>15, <2>3, NotAfterStays
    <2>5. f <= n + 1
      BY <1>7, <2>3
    <2>6. \A b \in 1 .. h : blockTs[b] <= s
      BY <1>3, <1>5, <2>3 DEF NotAfter
    <2>7. ASSUME poll.pc # "fetch" PROVE Among(P, f, u)' /\ Among(S, f, u)'
      <3> DEFINE p == Len(blockTs)
      <3>1. p \in Nat /\ h <= p /\ u <= h
        BY <2>3, <2>7, Lengths
      <3> HIDE DEF p
      <3>2. u <= p /\ \A b \in 1 .. u : b \in 1 .. h
        BY <3>1
      <3>3. u <= Len(blockTs)
        BY <3>2 DEF p
      <3>4. \A b \in 1 .. u : blockTs[b] <= rounds[epoch'].start
        BY <1>1, <2>6, <3>2
      <3>5. QED
        BY <1>15, <3>3, <3>4, AmongAfresh
    <2>8. poll' = poll /\ Len(blockTs') = Len(blockTs)
      BY <1>1 DEF chainVars
    <2>9. NotAfter(poll.head)'
      BY <2>2, <2>4, <2>8 DEF NotAfter
    <2>10. poll.pc \in {"stamp", "append"} => Among(poll.parsed, poll.from, poll.to)'
      BY <2>2, <2>a, <2>7, <2>8 DEF Among
    <2>11. poll.pc = "advance" => Among(pools, poll.from, poll.to)'
      BY <2>2, <2>a, <2>7, <2>8 DEF Among
    <2>12. poll.from <= cursor' + 1
      BY <1>6, <2>2, <2>5
    <2>13. poll'.pc # "fetch" => poll'.to <= poll'.head
      BY <2>1, <2>8
    <2>14. /\ poll'.from >= 1 /\ poll'.from <= cursor' + 1 /\ poll'.from <= poll'.head
           /\ poll'.head <= Len(blockTs')
      BY <2>1, <2>8, <2>12
    <2>15. QED
      BY <2>8, <2>9, <2>10, <2>11, <2>13, <2>14 DEF PollPart
  <1>18. QED
    BY <1>13, <1>14, <1>16, <1>17 DEF Behind

LEMMA BehindStep ==
    ASSUME Base, Base', ChainGrows, Early, Early', Behind, [Next]_vars
    PROVE  Behind'
  <1>0. eng \in EngSort /\ poll \in PollSort /\ infeasible \in BOOLEAN
    BY DEF Base, Typed
  <1>1. CASE PollHeadFails \/ PollFlag \/ PollCapBetweenChunks \/ PollRangeFails
    <2>1. /\ EndPoll /\ poll.pc # "idle" /\ UNCHANGED <<epoch, cursor, pools>>
          /\ infeasible' = infeasible \/ infeasible' = TRUE
      BY <1>1 DEF PollHeadFails, PollFlag, PollCapBetweenChunks, PollRangeFails, roundVars, poolVars
    <2>2. QED
      BY <2>1, BehindEnds
  <1>2. CASE OrphanEnds \/ DaemonPlan \/ Slot \/ UNCHANGED vars
    <2>1. UNCHANGED <<epoch, cursor, pools, infeasible, eng, poll>> /\ pools \subseteq pools'
      BY <1>2 DEF OrphanEnds, DaemonPlan, Slot, vars, roundVars, poolVars
    <2>2. QED
      BY <2>1, BehindFrame
  <1>3. CASE DaemonTick
    <2>1. /\ UNCHANGED <<epoch, cursor, pools, infeasible, eng>> /\ pools \subseteq pools'
          /\ UNCHANGED poll \/ poll'.pc = "head"
      BY <1>3 DEF DaemonTick, StartPoll, IdlePoll, roundVars, poolVars
    <2>2. UNCHANGED poll \/ poll'.pc \notin Active
      BY <2>1 DEF Active
    <2>3. QED
      BY <2>1, <2>2, BehindFrame
  <1>4. CASE SinglePoll
    <2>1. /\ UNCHANGED <<epoch, cursor, pools, infeasible>> /\ pools \subseteq pools'
          /\ UNCHANGED poll \/ poll'.pc = "head"
          /\ eng.pc = "waitSingle"
      BY <1>4 DEF SinglePoll, StartPoll, IdlePoll, roundVars, poolVars
    <2>2. UNCHANGED poll \/ poll'.pc \notin Active
      BY <2>1 DEF Active
    <2>3. eng'.pc # "advCommit"
      BY <1>0, <1>4 DEF SinglePoll, EngSort
    <2>4. ~infeasible' => ~infeasible /\ eng.pc \notin {"initLock", "initCursor"}
      BY <2>1
    <2>5. QED
      BY <2>1, <2>2, <2>3, <2>4, BehindFrame
  <1>5. CASE InitLock
    <2>1. /\ UNCHANGED <<epoch, cursor, pools, infeasible, poll>> /\ pools \subseteq pools'
      BY <1>5 DEF InitLock, roundVars, poolVars
    <2>2. eng'.pc = "initCursor"
      BY <1>0, <1>5 DEF InitLock, EngSort
    <2>3. QED
      BY <2>1, <2>2, BehindFrame
  <1>6. CASE AdvanceFeasibility
    <2>1. /\ UNCHANGED <<epoch, cursor, pools, poll>> /\ pools \subseteq pools' /\ eng.pc = "advHead"
      BY <1>6 DEF AdvanceFeasibility, poolVars
    <2>2. eng'.pc = "waitSingle"
      BY <1>0, <1>6 DEF AdvanceFeasibility, EngSort
    <2>3. infeasible => infeasible'
      <3>1. \/ UNCHANGED infeasible
            \/ \E b : infeasible' = (infeasible \/ b)
        BY <1>6 DEF AdvanceFeasibility
      <3>2. QED
        BY <3>1, Zenon
    <2>4. QED
      BY <2>1, <2>2, <2>3, BehindFrame
  <1>7. CASE AnchorPoll \/ IsPoolReady \/ GetPool
    <2>1. /\ UNCHANGED <<epoch, cursor, pools, infeasible, poll>> /\ pools \subseteq pools'
          /\ eng.pc \in {"waitAnchor", "decide", "read"}
          /\ \E pc \in {"idle", "decide", "read"} : eng' = [eng EXCEPT !.pc = pc]
      BY <1>7 DEF AnchorPoll, IsPoolReady, GetPool, roundVars, poolVars
    <2>2. eng'.pc \in {"idle", "decide", "read"}
      BY <1>0, <2>1 DEF EngSort
    <2>3. QED
      BY <2>1, <2>2, BehindFrame
  <1>8. CASE PollHead \/ PollRange \/ PollStamps \/ PollAppend \/ PollAdvance
    BY <1>8, BehindPollHead, BehindPollRange, BehindPollStamps, BehindPollAppend, BehindPollAdvance
  <1>9. CASE SetRoundPhase \/ InitCursor \/ AdvanceHeader \/ AdvanceCommit
    BY <1>9, BehindSetRoundPhase, BehindInitCursor, BehindAdvanceHeader, BehindAdvanceCommit
  <1>10. QED
    BY <1>1, <1>2, <1>3, <1>4, <1>5, <1>6, <1>7, <1>8, <1>9 DEF Next, PollStep, EngineStep

LEMMA BehindStarts == ASSUME Init PROVE Early /\ Behind
  <1>1. epoch = 0 /\ cursor = 0 /\ poll.pc = "idle" /\ eng.pc = "idle" /\ daemon.lock = 0
        /\ pollLock = "free"
    BY DEF Init, IdlePoll
  <1>2. Early
    BY <1>1 DEF Early
  <1>3. \A b \in 1 .. 0 : FALSE
    OBVIOUS
  <1>4. 0 <= Len(blockTs)
    BY BaseStarts, Lengths
  <1>5. CursorPart
    <2>1. NotAfter(cursor)
      BY <1>1, <1>3 DEF NotAfter
    <2>2. QED
      BY <1>1, <1>4, <2>1 DEF CursorPart
  <1>6. JumpPart
    BY <1>1 DEF JumpPart
  <1>7. MissPart
    <2>1. ~(epoch > 0)
      BY <1>1
    <2>2. QED
      BY <2>1 DEF MissPart
  <1>8. PollPart
    BY <1>1 DEF PollPart, Active
  <1>9. QED
    BY <1>2, <1>5, <1>6, <1>7, <1>8 DEF Behind

LEMMA BehindIsNotMissing ==
    ASSUME Base, Behind
    PROVE  NothingIsMissingBehindTheCursor
  <1> SUFFICES ASSUME epoch > 0, ~infeasible, eng.pc \notin {"initLock", "initCursor"}
               PROVE  {b \in 1 .. cursor : EpochOf(b) = epoch} \subseteq pools
    BY DEF NothingIsMissingBehindTheCursor
  <1>1. Among(pools, 1, cursor)
    BY DEF Behind, MissPart
  <1> SUFFICES ASSUME NEW b \in 1 .. cursor, EpochOf(b) = epoch PROVE b \in pools
    BY Zenon
  <1>2. 1 <= b
    OBVIOUS
  <1>3. QED
    BY <1>1, <1>2 DEF Among

LEMMA BehindAlways ==
    ~Stalls /\ HeaderCap <= StartMargin => (Spec => [](Base /\ Early /\ Behind))
  <1>1. SUFFICES ASSUME ~Stalls, HeaderCap <= StartMargin PROVE Spec => [](Base /\ Early /\ Behind)
    OBVIOUS
  <1>2. Init => Base /\ Early /\ Behind
    BY BaseStarts, BehindStarts
  <1>3. Base /\ Early /\ Behind /\ [Next]_vars => (Base /\ Early /\ Behind)'
    <2> SUFFICES ASSUME Base, Early, Behind, [Next]_vars PROVE (Base /\ Early /\ Behind)'
      OBVIOUS
    <2>1. Base' /\ ChainGrows
      BY BaseStep
    <2>2. Early'
      BY <1>1, <2>1, EarlyStep
    <2>3. Behind'
      BY <2>1, <2>2, BehindStep
    <2>4. QED
      BY <2>1, <2>2, <2>3
  <1>4. QED
    BY <1>2, <1>3, PTL DEF Spec

\* The cursor leaves no bet of the open round behind, for every schedule and chain,
\* every number of rounds, faults and slots without a block, however the polls of the
\* two threads, their wall caps, the jumps of the cursor and the epoch gates meet.
\* The process must not be started closer to a lock than the header of the first
\* cursor may take (RpcPoller_start.cfg shows a bet left behind when it is), and no
\* thread is held up between two steps that only compute.
THEOREM CursorSound ==
    ~Stalls /\ HeaderCap <= StartMargin => (Spec => []NothingIsMissingBehindTheCursor)
  <1>1. SUFFICES ASSUME ~Stalls, HeaderCap <= StartMargin
                 PROVE  Spec => []NothingIsMissingBehindTheCursor
    OBVIOUS
  <1>2. Spec => [](Base /\ Early /\ Behind)
    BY <1>1, BehindAlways
  <1>3. Base /\ Early /\ Behind => NothingIsMissingBehindTheCursor
    BY BehindIsNotMissing
  <1>4. QED
    BY <1>2, <1>3, PTL

-----------------------------------------------------------------------------
(* What a bet is sized on.                                                 *)

\* The bets of the open round before its cutoff are in S.
DueIn(S) ==
    \A b \in 1 .. Len(blockTs) :
        EpochOf(b) = epoch /\ blockTs[b] < lockAt - PoolCutoff => b \in S

\* The anchor is a block and its time; the pool the engine reads once it has one, and
\* the pool of its verdict, hold every bet that was due.
Sized ==
    /\ eng.pc # "idle" => verdict = NoVerdict
    /\ verdict.kind = "sized" => epoch > 0
    /\ anchor.block # 0 =>
          anchor.block \in 1 .. Len(blockTs) /\ anchor.ts = blockTs[anchor.block]
    /\ eng.pc = "read" /\ anchor.block # 0 /\ gaps = 0 =>
          DueIn(pools) /\ lockAt - PoolCutoff <= now
    /\ verdict.kind = "sized" /\ verdict.epoch = epoch /\ verdict.armed /\ gaps = 0 =>
          DueIn(verdict.used \cup verdict.dropped) /\ lockAt - PoolCutoff <= now

\* While every slot has had its block, a new block is later than the clock was: once
\* the cutoff is past, no more bets fall due.
LEMMA DueStays ==
    ASSUME Base, Base', ChainGrows, epoch > 0, gaps = 0, UNCHANGED <<epoch, lockAt>>,
           NEW S, NEW T, S \subseteq T, DueIn(S), lockAt - PoolCutoff <= now
    PROVE  DueIn(T)' /\ (lockAt - PoolCutoff <= now)'
  <1> DEFINE p == Len(blockTs)
             q == Len(blockTs')
             c == lockAt - PoolCutoff
  <1>0. /\ p \in Nat /\ q \in Nat /\ now \in Nat /\ now' \in Nat /\ c \in Int /\ c <= now
        /\ now <= now' /\ p + gaps = now + History - 1 /\ History \in Nat
    BY LenProperties, Constants, HistoryTyped DEF Base, Typed, ChainShape, ShapeOf, ChainGrows
  <1>1. \A b \in 1 .. q : b - History + 1 <= blockTs'[b] /\ blockTs'[b] \in Int
    <2> TAKE b \in 1 .. q
    <2>1. blockTs'[b] \in Int
      BY ElementOfSeq DEF Base, ChainShape, ShapeOf
    <2>2. b - History + 1 <= blockTs'[b]
      BY DEF Base, ChainShape, ShapeOf
    <2>3. QED
      BY <2>1, <2>2
  <1>2. epoch \in 1 .. Len(rounds)
    BY OpenRound
  <1>3. ASSUME NEW b \in 1 .. q, EpochOf(b)' = epoch', blockTs'[b] < c PROVE b \in T
    <2> DEFINE x == blockTs'[b]
    <2>1. x \in Int /\ b - History + 1 <= x /\ x < c
      BY <1>1, <1>3
    <2>2. b \in 1 .. p
      <3> HIDE DEF x, p, q, c
      <3>1. b <= p
        BY <1>0, <2>1
      <3>2. QED
        BY <1>0, <3>1
    <2>3. blockTs'[b] = blockTs[b]
      BY <2>2 DEF ChainGrows
    <2>4. PICK e \in 1 .. Len(rounds) : e = epoch
      BY <1>2
    <2>5. EpochOf(b)' = e
      BY <1>3, <2>4
    <2>6. EpochOf(b) = e
      BY <2>2, <2>5, EpochOfStays DEF Base
    <2>7. b \in S
      BY <1>3, <2>2, <2>3, <2>4, <2>6 DEF DueIn
    <2>8. QED
      BY <2>7
  <1>4. DueIn(T)'
    BY <1>3 DEF DueIn
  <1>5. c <= now'
    <2> HIDE DEF c, p, q
    <2>1. QED
      BY <1>0
  <1>6. lockAt' - PoolCutoff <= now'
    BY <1>5
  <1>7. QED
    BY <1>4, <1>6

LEMMA SizedFrame ==
    ASSUME Base, Base', ChainGrows, Sized, UNCHANGED <<epoch, lockAt, verdict, anchor>>,
           pools \subseteq pools',
           eng'.pc = "read" => eng.pc = "read",
           eng'.pc # "idle" => eng.pc # "idle"
    PROVE  Sized'
  <1>0. gaps \in Nat /\ gaps' \in Nat /\ gaps <= gaps'
    BY DEF Base, ChainShape, ShapeOf, ChainGrows
  <1>1. gaps' = 0 => gaps = 0
    BY <1>0
  <1>2. (eng'.pc # "idle" => verdict' = NoVerdict) /\ (verdict'.kind = "sized" => epoch' > 0)
    BY DEF Sized
  <1>3. anchor'.block # 0 =>
          anchor'.block \in 1 .. Len(blockTs') /\ anchor'.ts = blockTs'[anchor'.block]
    <2> SUFFICES ASSUME anchor.block # 0
                 PROVE  anchor.block \in 1 .. Len(blockTs') /\ anchor.ts = blockTs'[anchor.block]
      OBVIOUS
    <2>1. anchor.block \in 1 .. Len(blockTs) /\ anchor.ts = blockTs[anchor.block]
      BY DEF Sized
    <2> DEFINE p == Len(blockTs)
               q == Len(blockTs')
               a == anchor.block
    <2>2. p \in Nat /\ q \in Nat /\ p <= q /\ a \in 1 .. p
      BY <2>1, LenProperties DEF Base, ChainShape, ShapeOf, ChainGrows
    <2>3. a \in 1 .. q
      <3> HIDE DEF p, q, a
      <3>1. QED
        BY <2>2
    <2>4. blockTs'[anchor.block] = blockTs[anchor.block]
      BY <2>1 DEF ChainGrows
    <2>5. QED
      BY <2>1, <2>3, <2>4
  <1>4. ASSUME eng'.pc = "read", anchor'.block # 0, gaps' = 0
        PROVE  (DueIn(pools) /\ lockAt - PoolCutoff <= now)'
    <2>1. PICK S, T : S = pools /\ T = pools'
      OBVIOUS
    <2>2. DueIn(S) /\ lockAt - PoolCutoff <= now /\ gaps = 0
      BY <1>1, <1>4, <2>1 DEF Sized, DueIn
    <2>3. epoch > 0
      BY <1>4 DEF Base, Calendar
    <2>4. S \subseteq T
      BY <2>1
    <2>5. DueIn(T)' /\ (lockAt - PoolCutoff <= now)'
      BY <2>2, <2>3, <2>4, DueStays
    <2>6. QED
      BY <2>1, <2>5 DEF DueIn
  <1>5. ASSUME verdict'.kind = "sized", verdict'.epoch = epoch', verdict'.armed, gaps' = 0
        PROVE  (DueIn(verdict.used \cup verdict.dropped) /\ lockAt - PoolCutoff <= now)'
    <2>1. PICK S : S = verdict.used \cup verdict.dropped
      OBVIOUS
    <2>2. DueIn(S) /\ lockAt - PoolCutoff <= now /\ gaps = 0 /\ epoch > 0
      BY <1>1, <1>5, <2>1 DEF Sized, DueIn
    <2>3. S \subseteq S
      OBVIOUS
    <2>4. DueIn(S)' /\ (lockAt - PoolCutoff <= now)'
      BY <2>2, <2>3, DueStays
    <2>5. verdict'.used \cup verdict'.dropped = S
      BY <2>1
    <2>6. QED
      BY <2>4, <2>5 DEF DueIn
  <1>6. QED
    BY <1>2, <1>3, <1>4, <1>5 DEF Sized

\* A poll never takes a bet out of the pool.
LEMMA PollKeepsPool ==
    ASSUME PollStep
    PROVE  pools \subseteq pools'
  BY DEF PollStep, PollHead, PollHeadFails, PollFlag, PollCapBetweenChunks, PollRangeFails, PollRange,
         PollStamps, PollAppend, PollAdvance, poolVars

\* The cursor's time reckoned from the anchor is the time of its block.
LEMMA ReadyPoolIsComplete ==
    ASSUME Base, Behind, Sized, gaps = 0, eng.pc = "decide", ~infeasible, Covered, anchor.block # 0
    PROVE  DueIn(pools) /\ lockAt - PoolCutoff <= now
  <1> DEFINE p == Len(blockTs)
             a == anchor.block
             x == anchor.ts
             c == lockAt - PoolCutoff
  <1>1. a \in 1 .. p /\ x = blockTs[a]
    BY DEF Sized
  <1>2. \A b \in 1 .. p : b - History + 1 <= blockTs[b] /\ blockTs[b] <= b - History + 1 + gaps
    BY DEF Base, ChainShape, ShapeOf
  <1>3. \A b \in 1 .. p : blockTs[b] \in Int
    BY ElementOfSeq DEF Base, ChainShape, ShapeOf
  <1>4. p \in Nat /\ p + gaps = now + History - 1 /\ now \in Nat /\ History \in Nat /\ lockAt \in Nat
        /\ PoolCutoff \in Nat /\ cursor \in Nat /\ cursor <= p /\ epoch \in Nat
    BY LenProperties, Constants, HistoryTyped
       DEF Base, Typed, ChainShape, ShapeOf, Behind, CursorPart
  <1>5. x \in Int /\ x = a - History + 1
    <2> DEFINE y == blockTs[a]
    <2>1. y \in Int /\ a - History + 1 <= y /\ y <= a - History + 1 + gaps
      BY <1>1, <1>2, <1>3
    <2> HIDE DEF y, p, a
    <2>2. y = a - History + 1
      BY <1>1, <1>4, <2>1
    <2>3. QED
      BY <1>1, <2>1, <2>2 DEF y, a
  <1>6. epoch > 0 /\ lockAt # 0
    <2>1. epoch > 0
      BY DEF Base, Calendar
    <2> DEFINE s == rounds[epoch].start
    <2>2. lockAt - Interval = s /\ s \in Nat /\ s >= 1
      BY <2>1, OpenRound
    <2> HIDE DEF s
    <2>3. lockAt # 0
      BY <1>4, <2>2, Constants
    <2>4. QED
      BY <2>1, <2>3
  <1>7. x + (cursor - a) >= c
    BY <1>6 DEF Covered, CursorTime
  <1>8. cursor - History + 1 >= c
    <2> HIDE DEF p, a, x
    <2>1. c \in Int
      BY <1>4
    <2> HIDE DEF c
    <2>2. a \in Int
      BY <1>1, <1>4
    <2>3. QED
      BY <1>4, <1>5, <1>7, <2>1, <2>2
  <1>9. c <= now
    <2>1. c \in Int
      BY <1>4
    <2> HIDE DEF c, p
    <2>2. QED
      BY <1>4, <1>8, <2>1
  <1>10. Among(pools, 1, cursor)
    BY <1>6 DEF Behind, MissPart
  <1>11. ASSUME NEW b \in 1 .. p, EpochOf(b) = epoch, blockTs[b] < c PROVE b \in pools
    <2> DEFINE z == blockTs[b]
    <2>1. z \in Int /\ b - History + 1 <= z /\ z < c /\ c \in Int
      BY <1>2, <1>3, <1>4, <1>11
    <2>2. b \in 1 .. cursor /\ 1 <= b
      <3> HIDE DEF z, c, p
      <3>1. b <= cursor
        BY <1>4, <1>8, <2>1
      <3>2. QED
        BY <1>4, <3>1
    <2>3. QED
      BY <1>10, <1>11, <2>2 DEF Among
  <1>12. DueIn(pools)
    BY <1>11 DEF DueIn
  <1>13. QED
    BY <1>9, <1>12

LEMMA SizedPoolRead ==
    ASSUME Base, Base', Sized, GetPool
    PROVE  Sized'
  <1> DEFINE held  == {b \in pools : EpochOf(b) = epoch}
             known == held \cap (stamped \cup tsCache)
             used  == {b \in known : blockTs[b] < lockAt - PoolCutoff}
  <1>1. /\ eng.pc = "read" /\ eng' = [eng EXCEPT !.pc = "idle"] /\ eng \in EngSort
        /\ UNCHANGED <<chainVars, epoch, lockAt, anchor>>
        /\ verdict' = [kind |-> "sized", epoch |-> epoch, dropped |-> held \ known, used |-> used,
                       armed |-> anchor.block > 0]
    BY DEF GetPool, roundVars, Base, Typed
  <1>2. eng'.pc = "idle" /\ epoch > 0
    BY <1>1 DEF EngSort, Base, Calendar
  <1>3. ASSUME anchor.block # 0, gaps = 0
        PROVE  DueIn(used \cup (held \ known)) /\ lockAt - PoolCutoff <= now
    <2>1. DueIn(pools) /\ lockAt - PoolCutoff <= now
      BY <1>1, <1>3 DEF Sized
    <2>2. ASSUME NEW b \in 1 .. Len(blockTs), EpochOf(b) = epoch, blockTs[b] < lockAt - PoolCutoff
          PROVE  b \in used \cup (held \ known)
      <3>1. b \in pools
        BY <2>1, <2>2 DEF DueIn
      <3>2. b \in held
        BY <2>2, <3>1, Zenon
      <3> HIDE DEF held, known
      <3>3. b \in known => b \in used
        BY <2>2, Zenon
      <3> HIDE DEF used
      <3>4. QED
        BY <3>2, <3>3
    <2>3. QED
      BY <2>1, <2>2, Zenon DEF DueIn
  <1>4. /\ verdict'.used = used /\ verdict'.dropped = held \ known /\ verdict'.armed = (anchor.block > 0)
        /\ verdict'.epoch = epoch /\ verdict'.kind = "sized"
    <2> HIDE DEF used, held, known
    <2>1. QED
      BY <1>1
  <1> HIDE DEF used, held, known
  <1>5. anchor'.block # 0 =>
          anchor'.block \in 1 .. Len(blockTs') /\ anchor'.ts = blockTs'[anchor'.block]
    BY <1>1 DEF Sized, chainVars
  <1>6. ASSUME verdict'.armed, gaps' = 0
        PROVE  (DueIn(verdict.used \cup verdict.dropped) /\ lockAt - PoolCutoff <= now)'
    <2>1. anchor.block > 0
      BY <1>4, <1>6
    <2>2. anchor.block # 0
      BY <2>1
    <2>3. gaps = 0
      BY <1>1, <1>6 DEF chainVars
    <2>4. DueIn(used \cup (held \ known)) /\ lockAt - PoolCutoff <= now
      BY <1>3, <2>2, <2>3
    <2>5. PICK S : S = used \cup (held \ known)
      OBVIOUS
    <2>6. \A b : EpochOf(b)' = EpochOf(b)
      BY <1>1 DEF EpochOf, chainVars
    <2>7. DueIn(S)'
      BY <1>1, <2>4, <2>5, <2>6 DEF DueIn, chainVars
    <2>8. verdict'.used \cup verdict'.dropped = S
      BY <1>4, <2>5
    <2>9. DueIn(verdict.used \cup verdict.dropped)'
      BY <2>7, <2>8 DEF DueIn
    <2>10. (lockAt - PoolCutoff <= now)'
      BY <1>1, <2>4 DEF chainVars
    <2>11. QED
      BY <2>9, <2>10
  <1>7. eng'.pc # "read" /\ epoch' > 0
    BY <1>1, <1>2
  <1>8. QED
    BY <1>2, <1>5, <1>6, <1>7 DEF Sized

LEMMA SizedStep ==
    ASSUME Base, Base', ChainGrows, Behind, Sized, [Next]_vars
    PROVE  Sized'
  <1>0. Typed /\ Locks /\ eng \in EngSort /\ epoch \in Nat
    BY DEF Base, Typed
  <1>1. CASE PollStep
    <2>1. UNCHANGED <<epoch, lockAt, verdict, anchor>> /\ poll.pc # "idle" /\ pools \subseteq pools'
      BY <1>0, <1>1, PollMoves, PollKeepsPool
    <2>2. eng' = eng \/ (eng'.pc = "waitAnchor" /\ eng.pc # "idle")
      <3>1. CASE EndPoll /\ pollLock = "engine"
        BY <1>0, <2>1, <3>1, EndPollMoves DEF Locks
      <3>2. CASE EndPoll /\ pollLock # "engine"
        BY <1>0, <3>2, EndPollMoves
      <3>3. QED
        BY <1>0, <1>1, <3>1, <3>2, PollMoves
    <2>3. (eng'.pc = "read" => eng.pc = "read") /\ (eng'.pc # "idle" => eng.pc # "idle")
      BY <2>2
    <2>4. QED
      BY <2>1, <2>3, SizedFrame
  <1>2. CASE OrphanEnds \/ DaemonPlan \/ DaemonTick \/ Slot \/ UNCHANGED vars
    <2>1. UNCHANGED <<epoch, lockAt, verdict, anchor, pools, eng>>
      BY <1>2 DEF OrphanEnds, DaemonPlan, DaemonTick, Slot, vars, roundVars, poolVars
    <2>2. pools \subseteq pools'
      BY <2>1
    <2>3. QED
      BY <2>1, <2>2, SizedFrame
  <1>3. CASE InitLock \/ InitCursor \/ AdvanceHeader \/ AdvanceFeasibility \/ SinglePoll
    <2>1. UNCHANGED <<epoch, lockAt, verdict, anchor, pools>> /\ eng.pc # "idle"
      BY <1>3 DEF InitLock, InitCursor, AdvanceHeader, AdvanceFeasibility, SinglePoll, roundVars,
                  poolVars
    <2>2. eng'.pc # "read"
      <3>1. CASE InitLock
        BY <1>0, <3>1 DEF InitLock, EngSort
      <3>2. CASE InitCursor
        BY <1>0, <3>2 DEF InitCursor, EngSort
      <3>3. CASE AdvanceHeader
        BY <1>0, <3>3 DEF AdvanceHeader, EngSort
      <3>4. CASE AdvanceFeasibility
        BY <1>0, <3>4 DEF AdvanceFeasibility, EngSort
      <3>5. CASE SinglePoll
        BY <1>0, <3>5 DEF SinglePoll, EngSort
      <3>6. QED
        BY <1>3, <3>1, <3>2, <3>3, <3>4, <3>5
    <2>3. pools \subseteq pools'
      BY <2>1
    <2>4. QED
      BY <2>1, <2>2, <2>3, SizedFrame
  <1>4. CASE SetRoundPhase
    <2>1. /\ verdict' = NoVerdict /\ eng.pc = "idle" /\ UNCHANGED <<anchor, blockTs>>
      BY <1>4 DEF SetRoundPhase, chainVars
    <2>2. eng'.pc # "read"
      BY <1>0, <1>4 DEF SetRoundPhase, EngSort
    <2>3. verdict'.kind # "sized"
      BY <2>1 DEF NoVerdict
    <2>4. QED
      BY <2>1, <2>2, <2>3 DEF Sized
  <1>5. CASE AdvanceCommit
    <2>1. eng.pc = "advCommit" /\ UNCHANGED <<anchor, verdict, blockTs>>
      BY <1>5 DEF AdvanceCommit, chainVars
    <2>2. eng'.pc = "advHead"
      BY <1>0, <1>5 DEF AdvanceCommit, EngSort
    <2>3. verdict' = NoVerdict
      BY <2>1 DEF Sized
    <2>4. verdict'.kind # "sized"
      BY <2>3 DEF NoVerdict
    <2>5. QED
      BY <2>1, <2>2, <2>3, <2>4 DEF Sized
  <1>6. CASE AnchorPoll
    <2>1. /\ eng.pc = "waitAnchor" /\ UNCHANGED <<blockTs, verdict>>
          /\ \/ \E h \in Heads : anchor' = [block |-> h, ts |-> blockTs[h]]
             \/ UNCHANGED anchor
      BY <1>6 DEF AnchorPoll, chainVars
    <2>2. eng'.pc = "decide"
      BY <1>0, <1>6 DEF AnchorPoll, EngSort
    <2>3. verdict' = NoVerdict
      BY <2>1 DEF Sized
    <2>4. verdict'.kind # "sized"
      BY <2>3 DEF NoVerdict
    <2>5. anchor'.block # 0 =>
            anchor'.block \in 1 .. Len(blockTs') /\ anchor'.ts = blockTs'[anchor'.block]
      <3>1. CASE \E h \in Heads : anchor' = [block |-> h, ts |-> blockTs[h]]
        <4>1. PICK h \in Heads : anchor' = [block |-> h, ts |-> blockTs[h]]
          BY <3>1
        <4>2. h \in 1 .. Len(blockTs)
          BY HeadIsBlock DEF Base
        <4>3. QED
          BY <2>1, <4>1, <4>2
      <3>2. CASE UNCHANGED anchor
        BY <2>1, <3>2 DEF Sized
      <3>3. QED
        BY <2>1, <3>1, <3>2
    <2>6. QED
      BY <2>2, <2>3, <2>4, <2>5 DEF Sized
  <1>7. CASE IsPoolReady
    <2>1. eng.pc = "decide" /\ UNCHANGED <<chainVars, epoch, lockAt, anchor, pools>> /\ epoch > 0
      BY <1>7 DEF IsPoolReady, roundVars, poolVars, Base, Calendar
    <2>2. \/ /\ eng' = [eng EXCEPT !.pc = "read"] /\ UNCHANGED verdict
             /\ ~infeasible /\ Covered
          \/ /\ eng' = [eng EXCEPT !.pc = "idle"]
             /\ verdict'.kind # "sized"
      <3> DEFINE reason == CASE ~connected -> "cold_start_in_progress"
                    [] connected /\ infeasible -> "catchup_infeasible_for_round"
                    [] connected /\ ~infeasible /\ inProgress -> "poll_in_progress"
                    [] connected /\ ~infeasible /\ ~inProgress /\ ~Covered -> "pool_uncovered"
                    [] OTHER -> "ready"
      <3>1. reason # "sized" /\ (reason = "ready" => ~infeasible /\ Covered)
        BY Zenon
      <3>2. IF reason = "ready"
              THEN eng' = [eng EXCEPT !.pc = "read"] /\ UNCHANGED verdict
              ELSE /\ eng' = [eng EXCEPT !.pc = "idle"]
                   /\ verdict' = [kind |-> reason, epoch |-> epoch]
        BY <1>7 DEF IsPoolReady
      <3> HIDE DEF reason
      <3>3. QED
        BY <3>1, <3>2
    <2>3. anchor'.block # 0 =>
            anchor'.block \in 1 .. Len(blockTs') /\ anchor'.ts = blockTs'[anchor'.block]
      BY <2>1 DEF Sized, chainVars
    <2>4. CASE eng' = [eng EXCEPT !.pc = "idle"] /\ verdict'.kind # "sized"
      <3>1. eng'.pc = "idle"
        BY <1>0, <2>4 DEF EngSort
      <3>2. QED
        BY <2>3, <2>4, <3>1 DEF Sized
    <2>5. CASE eng' = [eng EXCEPT !.pc = "read"] /\ UNCHANGED verdict /\ ~infeasible /\ Covered
      <3>1. eng'.pc = "read"
        BY <1>0, <2>5 DEF EngSort
      <3>2. verdict' = NoVerdict
        BY <2>1, <2>5 DEF Sized
      <3>3. verdict'.kind # "sized"
        BY <3>2 DEF NoVerdict
      <3>4. ASSUME anchor'.block # 0, gaps' = 0
            PROVE  (DueIn(pools) /\ lockAt - PoolCutoff <= now)'
        <4>1. gaps = 0 /\ anchor.block # 0
          BY <2>1, <3>4 DEF chainVars
        <4>2. DueIn(pools) /\ lockAt - PoolCutoff <= now
          BY <2>1, <2>5, <4>1, ReadyPoolIsComplete
        <4>3. \A b : EpochOf(b)' = EpochOf(b)
          BY <2>1 DEF EpochOf, chainVars
        <4>4. QED
          BY <2>1, <4>2, <4>3 DEF DueIn, chainVars
      <3>5. QED
        BY <2>3, <3>1, <3>2, <3>3, <3>4 DEF Sized
    <2>6. QED
      BY <2>2, <2>4, <2>5
  <1>8. CASE GetPool
    BY <1>8, SizedPoolRead
  <1>9. QED
    BY <1>1, <1>2, <1>3, <1>4, <1>5, <1>6, <1>7, <1>8 DEF Next, EngineStep

\* What the engine sizes a bet on is complete once an anchor poll has succeeded, as
\* long as every slot has had its block: the time of the cursor, reckoned from the
\* anchor (_pool_coverage_shortfall_locked), is then the time of its block. After a
\* slot without a block it is not (RpcPoller_gap.cfg shows a bet that is missing).
THEOREM PoolSound ==
    ~Stalls /\ HeaderCap <= StartMargin => (Spec => [](gaps = 0 => ArmedPoolIsComplete))
  <1>1. SUFFICES ASSUME ~Stalls, HeaderCap <= StartMargin
                 PROVE  Spec => [](gaps = 0 => ArmedPoolIsComplete)
    OBVIOUS
  <1>2. Spec => [](Base /\ Early /\ Behind)
    BY <1>1, BehindAlways
  <1>3. Init => Sized
    <2> SUFFICES ASSUME Init PROVE Sized
      OBVIOUS
    <2>1. eng.pc = "idle" /\ verdict = NoVerdict /\ anchor.block = 0
      BY DEF Init
    <2>2. verdict.kind # "sized"
      BY <2>1 DEF NoVerdict
    <2>3. QED
      BY <2>1, <2>2 DEF Sized
  <1>4. (Base /\ Early /\ Behind) /\ (Base /\ Early /\ Behind)' /\ Sized /\ [Next]_vars => Sized'
    BY BaseStep, SizedStep
  <1>5. Base /\ Sized => (gaps = 0 => ArmedPoolIsComplete)
    <2> SUFFICES ASSUME Base, Sized, gaps = 0, verdict.kind = "sized", verdict.epoch = epoch, verdict.armed
                 PROVE  {b \in Blocks : EpochOf(b) = epoch /\ blockTs[b] < lockAt - PoolCutoff}
                            \subseteq verdict.used \cup verdict.dropped
      BY DEF ArmedPoolIsComplete
    <2>1. DueIn(verdict.used \cup verdict.dropped)
      BY DEF Sized
    <2> SUFFICES ASSUME NEW b \in Blocks, EpochOf(b) = epoch, blockTs[b] < lockAt - PoolCutoff
                 PROVE  b \in verdict.used \cup verdict.dropped
      BY Zenon
    <2>2. QED
      BY <2>1, Zenon DEF DueIn, Blocks
  <1>6. QED
    BY <1>2, <1>3, <1>4, <1>5, PTL DEF Spec

-----------------------------------------------------------------------------
(* The daemon keeps clear of the engine.                                   *)

\* The latest start of a tick that ends, with its cap and its buffer, before the
\* engine's poll is due.
Safe == lockAt - SingleOffset - CapPeriodic - SafetyBuffer

\* A tick planned under this round's lock waits for an instant that is safe or past the
\* lock, and is not late for it; once it has begun it is cut off before the engine's poll.
Clear ==
    /\ daemon.lock <= lockAt
    /\ daemon.pc = "wait" /\ daemon.lock = lockAt /\ lockAt > 0 =>
          now <= daemon.wake /\ (daemon.wake <= Safe \/ daemon.wake >= lockAt)
    /\ daemon.pc = "polling" /\ daemon.lock = lockAt /\ now < lockAt =>
          now <= poll.abortAt /\ poll.abortAt + SafetyBuffer <= lockAt - SingleOffset
    /\ eng.pc = "decide" => now >= lockAt - AnchorOffset
    /\ eng.dropped # "same"

\* The instant NextTick chooses is safe, or past the lock.
LEMMA NextTickClear ==
    ASSUME now \in Nat, lockAt \in Nat
    PROVE  NextTick(lockAt) <= Safe \/ NextTick(lockAt) >= lockAt
  <1> DEFINE open   == lockAt - Interval
             window == lockAt - SingleOffset
             safe   == window - CapPeriodic - SafetyBuffer
             k      == IF now < open THEN 1 ELSE (now - open) \div Period + 1
             next   == open + k * Period
  <1>1. open \in Int /\ window \in Int /\ safe \in Int /\ Period \in Nat
    BY Constants
  <1>2. next \in Int
    <2>1. k \in Int
      <3>1. CASE now < open
        BY <3>1
      <3>2. CASE ~(now < open)
        <4> DEFINE a == now - open
        <4>1. a \in Nat /\ Period > 0
          BY <1>1, <3>2, Constants
        <4>2. a \div Period \in Int
          BY <1>1, <4>1
        <4>3. QED
          BY <3>2, <4>2
      <3>3. QED
        BY <3>1, <3>2
    <2> HIDE DEF k, open
    <2>2. k * Period \in Int
      BY <1>1, <2>1
    <2>3. QED
      BY <1>1, <2>2
  <1>3. NextTick(lockAt) = CASE now >= lockAt                   -> now + Period
          [] now < lockAt /\ next >= window  -> lockAt
          [] now < lockAt /\ next < window /\ next > safe -> IF safe > now THEN safe ELSE lockAt
          [] OTHER                         -> next
    BY DEF NextTick
  <1>4. Safe = safe
    BY DEF Safe
  <1> HIDE DEF open, window, safe, k, next
  <1>5. QED
    BY <1>1, <1>2, <1>3, <1>4

\* A step that leaves the clock, the lock and the daemon alone, and a poll of the
\* daemon's where it was, as far as where the engine goes allows.
LEMMA ClearFrame ==
    ASSUME Clear, UNCHANGED <<now, lockAt, daemon>>,
           daemon.pc = "polling" => poll'.abortAt = poll.abortAt,
           eng'.pc # "decide" \/ eng' = eng, eng'.dropped # "same"
    PROVE  Clear'
  BY DEF Clear, Safe

LEMMA ClearStep ==
    ASSUME ~Stalls, SafetyBuffer > 0, Base, Base', Clear, [Next]_vars
    PROVE  Clear'
  <1>0. /\ Typed /\ Locks /\ Calendar /\ poll \in PollSort /\ eng \in EngSort
        /\ daemon \in DaemonSort /\ now \in Nat /\ lockAt \in Nat /\ epoch \in Nat
        /\ poll.abortAt \in Nat /\ daemon.lock \in Nat /\ daemon.wake \in Int
    BY DEF Base, Typed, ChainShape, ShapeOf, PollSort, DaemonSort
  <1>a. /\ SingleOffset \in Nat /\ AnchorOffset \in Nat /\ CapSingle \in Nat
        /\ CapPeriodic \in Nat /\ SafetyBuffer \in Nat /\ AnchorOffset <= SingleOffset
    BY Constants
  <1>b. eng.dropped # "same" /\ daemon.lock <= lockAt /\ Safe \in Int
    BY <1>0, <1>a DEF Clear, Safe
  <1>c. daemon.pc = "polling" => poll.pc # "idle"
    BY <1>0 DEF Locks
  <1>1. CASE PollStep
    <2>1. UNCHANGED <<now, lockAt>> /\ poll.pc # "idle"
      BY <1>0, <1>1, PollMoves DEF chainVars
    <2>2. CASE EndPoll
      <3>1. CASE pollLock = "engine"
        <4>1. eng'.pc = "waitAnchor" /\ eng'.dropped = eng.dropped /\ daemon' = daemon
          BY <1>0, <2>2, <3>1, EndPollMoves
        <4>2. daemon.pc # "polling"
          BY <1>0, <3>1 DEF Locks
        <4>3. QED
          BY <1>b, <2>1, <4>1, <4>2, ClearFrame
      <3>2. CASE pollLock # "engine"
        <4>1. daemon'.pc = "plan" /\ daemon'.lock = daemon.lock /\ eng' = eng
          BY <1>0, <2>2, <3>2, EndPollMoves
        <4>2. QED
          BY <2>1, <4>1 DEF Clear
      <3>3. QED
        BY <3>1, <3>2
    <2>3. CASE UNCHANGED <<eng, daemon>> /\ poll'.abortAt = poll.abortAt
      BY <1>b, <2>1, <2>3, ClearFrame
    <2>4. QED
      BY <1>0, <1>1, <2>2, <2>3, PollMoves
  <1>2. CASE SetRoundPhase
    <2>1. /\ UNCHANGED <<now, poll, daemon>>
          /\ \E pc \in {"initLock", "advHeader"} : \E e, by :
                eng' = [eng EXCEPT !.pc = pc, !.epoch = e, !.by = by, !.dropped = "no"]
      BY <1>2, Zenon DEF SetRoundPhase, chainVars
    <2>2. eng'.pc # "decide" /\ eng'.dropped # "same"
      BY <1>0, <2>1 DEF EngSort
    <2>3. CASE epoch = 0
      <3>1. lockAt = 0 /\ epoch' = Len(rounds) /\ Len(rounds) > 0
        BY <1>0, <1>2, <2>3 DEF SetRoundPhase, Calendar
      <3>2. daemon'.lock = 0
        BY <1>0, <1>b, <2>1, <3>1
      <3>3. lockAt' > 0
        <4>1. epoch' # 0
          BY <3>1
        <4>2. epoch' \in Nat /\ lockAt' = rounds'[epoch'].lock /\ Base'
          BY <3>1, <4>1 DEF Base, Typed, Calendar
        <4>3. epoch' > 0
          BY <4>1, <4>2
        <4>4. lockAt' = rounds[epoch'].lock
          BY <1>2, <4>2 DEF SetRoundPhase, chainVars
        <4>5. rounds[epoch'].lock > now
          BY <1>2, <2>3, <3>1 DEF SetRoundPhase
        <4> DEFINE l == rounds[epoch'].lock
        <4>6. l = lockAt' /\ lockAt' \in Nat /\ l > now
          BY <4>4, <4>5 DEF Base, Typed
        <4> HIDE DEF l
        <4>7. QED
          BY <1>0, <4>6
      <3>4. lockAt' \in Nat
        BY DEF Base, Typed
      <3>5. QED
        BY <2>2, <3>2, <3>3, <3>4 DEF Clear
    <2>4. CASE epoch # 0
      <3>1. UNCHANGED lockAt
        BY <1>2, <2>4 DEF SetRoundPhase
      <3>2. QED
        BY <2>1, <2>2, <3>1, ClearFrame
    <2>5. QED
      BY <2>3, <2>4
  <1>3. CASE AdvanceCommit
    <2>1. /\ UNCHANGED <<now, poll, daemon>> /\ eng.pc = "advCommit"
          /\ lockAt' = rounds[eng.epoch].lock
          /\ \E by : eng' = [eng EXCEPT !.pc = "advHead", !.by = by, !.jump = 0]
      BY <1>3, Zenon DEF AdvanceCommit, chainVars
    <2>2. eng'.pc = "advHead" /\ eng'.dropped = eng.dropped
      BY <1>0, <2>1 DEF EngSort
    <2>3. eng.epoch > epoch /\ eng.epoch <= Len(rounds) /\ epoch > 0 /\ eng.epoch \in Nat
      BY <1>0, <2>1 DEF Calendar, EngSort
    <2>4. /\ lockAt <= rounds[eng.epoch].start /\ rounds[eng.epoch].start \in Nat
          /\ rounds[eng.epoch].lock = rounds[eng.epoch].start + Interval
      <3>1. eng.epoch > 0
        BY <1>0, <2>3
      <3>2. QED
        BY <2>3, <3>1, LaterRoundsBegin, RoundFacts DEF Base
    <2> DEFINE s == rounds[eng.epoch].start
    <2>5. lockAt' = s + Interval /\ s \in Nat /\ lockAt <= s
      BY <2>1, <2>4
    <2> HIDE DEF s
    <2>6. Interval \in Nat /\ Interval > 0
      BY Constants
    <2>7. lockAt < lockAt' /\ daemon.lock < lockAt' /\ lockAt' \in Nat
      BY <1>0, <1>b, <2>5, <2>6
    <2>8. QED
      BY <1>0, <1>b, <2>1, <2>2, <2>7 DEF Clear
  <1>4. CASE InitLock \/ InitCursor \/ AdvanceHeader \/ AdvanceFeasibility \/ GetPool
    <2>1. UNCHANGED <<now, lockAt, poll, daemon>>
      BY <1>4 DEF InitLock, InitCursor, AdvanceHeader, AdvanceFeasibility, GetPool,
         chainVars, roundVars
    <2>2. eng'.pc # "decide" /\ eng'.dropped = eng.dropped
      <3>1. CASE InitLock
        BY <1>0, <3>1 DEF InitLock, EngSort
      <3>2. CASE InitCursor
        BY <1>0, <3>2 DEF InitCursor, EngSort
      <3>3. CASE AdvanceHeader
        BY <1>0, <3>3 DEF AdvanceHeader, EngSort
      <3>4. CASE AdvanceFeasibility
        BY <1>0, <3>4 DEF AdvanceFeasibility, EngSort
      <3>5. CASE GetPool
        BY <1>0, <3>5 DEF GetPool, EngSort
      <3>6. QED
        BY <1>4, <3>1, <3>2, <3>3, <3>4, <3>5
    <2>3. QED
      BY <1>b, <2>1, <2>2, ClearFrame
  <1>5. CASE SinglePoll
    <2>1. /\ UNCHANGED <<now, lockAt, daemon>> /\ now >= lockAt - SingleOffset
      BY <1>5 DEF SinglePoll, chainVars, roundVars
    <2>2. CASE pollLock = "free"
      <3>1. eng' = [eng EXCEPT !.pc = "polling"]
        BY <1>5, <2>2 DEF SinglePoll
      <3>2. daemon.pc # "polling"
        BY <1>0, <2>2 DEF Locks
      <3>3. eng'.pc = "polling" /\ eng'.dropped = eng.dropped
        BY <1>0, <3>1 DEF EngSort
      <3>4. QED
        BY <1>b, <2>1, <3>2, <3>3, ClearFrame
    <2>3. CASE pollLock # "free"
      <3>1. eng' = [eng EXCEPT !.pc = "waitAnchor",
                               !.dropped = IF now < lockAt /\ daemon.lock = lockAt
                                             THEN "same" ELSE "other"]
            /\ UNCHANGED poll
        BY <1>5, <2>3 DEF SinglePoll
      <3>2. daemon.pc = "polling"
        <4>1. eng.pc = "waitSingle"
          BY <1>5 DEF SinglePoll
        <4>2. pollLock \in {"free", "engine", "daemon"}
          BY <1>0 DEF Typed
        <4>3. QED
          BY <1>0, <2>3, <4>1, <4>2 DEF Locks
      <3>3. ~(now < lockAt /\ daemon.lock = lockAt)
        <4>1. SUFFICES ASSUME now < lockAt, daemon.lock = lockAt PROVE FALSE
          OBVIOUS
        <4>2. now <= poll.abortAt /\ poll.abortAt + SafetyBuffer <= lockAt - SingleOffset
          BY <3>2, <4>1 DEF Clear
        <4>3. QED
          BY <1>0, <1>a, <2>1, <4>2
      <3>4. eng' = [eng EXCEPT !.pc = "waitAnchor", !.dropped = "other"]
        BY <3>1, <3>3, Zenon
      <3>5. eng'.pc = "waitAnchor" /\ eng'.dropped = "other"
        BY <1>0, <3>4 DEF EngSort
      <3>6. QED
        BY <2>1, <3>1, <3>5, ClearFrame
    <2>4. QED
      BY <2>2, <2>3
  <1>6. CASE AnchorPoll
    <2>1. /\ UNCHANGED <<now, lockAt, daemon, poll>> /\ now >= lockAt - AnchorOffset
          /\ eng' = [eng EXCEPT !.pc = "decide"]
      BY <1>6 DEF AnchorPoll, chainVars, roundVars
    <2>2. eng'.dropped = eng.dropped
      BY <1>0, <2>1 DEF EngSort
    <2>3. QED
      BY <1>b, <2>1, <2>2 DEF Clear, Safe
  <1>7. CASE IsPoolReady
    <2>1. /\ UNCHANGED <<now, lockAt, daemon, poll>>
          /\ \E pc \in {"read", "idle"} : eng' = [eng EXCEPT !.pc = pc]
      BY <1>7 DEF IsPoolReady, chainVars, roundVars
    <2>2. eng'.pc # "decide" /\ eng'.dropped = eng.dropped
      BY <1>0, <2>1 DEF EngSort
    <2>3. QED
      BY <1>b, <2>1, <2>2, ClearFrame
  <1>8. CASE OrphanEnds \/ UNCHANGED vars
    <2>1. UNCHANGED <<now, lockAt, eng, poll, daemon>>
      BY <1>8 DEF OrphanEnds, vars, chainVars, roundVars
    <2>2. QED
      BY <1>b, <2>1, ClearFrame
  <1>9. CASE DaemonPlan
    <2> DEFINE w == IF lockAt = 0 THEN now + Period ELSE NextTick(lockAt)
    <2>1. /\ UNCHANGED <<now, lockAt, eng, poll>>
          /\ daemon' = [pc |-> "wait", lock |-> lockAt, wake |-> w]
      BY <1>9 DEF DaemonPlan, chainVars, roundVars
    <2>2. daemon'.pc = "wait" /\ daemon'.lock = lockAt /\ daemon'.wake = w
      BY <2>1
    <2>3. lockAt > 0 => now <= w /\ (w <= Safe \/ w >= lockAt)
      BY <1>0, NextTickLater, NextTickClear
    <2> HIDE DEF w
    <2>4. Safe' = Safe
      BY <2>1 DEF Safe
    <2>5. QED
      BY <1>0, <2>1, <2>2, <2>3, <2>4 DEF Clear
  <1>10. CASE DaemonTick
    <2>1. /\ UNCHANGED <<now, lockAt, eng>> /\ daemon.pc = "wait" /\ now >= daemon.wake
      BY <1>10 DEF DaemonTick, chainVars, roundVars
    <2>2. CASE /\ StartPoll("daemon", CapPeriodic)
               /\ daemon' = [daemon EXCEPT !.pc = "polling", !.wake = 0]
               /\ daemon.lock > 0
      <3> DEFINE c == now + CapPeriodic
      <3>1. poll'.abortAt = c
        BY <1>0, <1>a, <2>2, StartPollMoves
      <3>2. daemon'.pc = "polling" /\ daemon'.lock = daemon.lock
        BY <1>0, <2>2 DEF DaemonSort
      <3>3. daemon.lock = lockAt /\ now < lockAt =>
               now <= c /\ c + SafetyBuffer <= lockAt - SingleOffset
        <4>1. SUFFICES ASSUME daemon.lock = lockAt, now < lockAt
                       PROVE  now <= c /\ c + SafetyBuffer <= lockAt - SingleOffset
          OBVIOUS
        <4>2. now <= daemon.wake /\ (daemon.wake <= Safe \/ daemon.wake >= lockAt)
          BY <2>1, <2>2, <4>1 DEF Clear
        <4>3. QED
          BY <1>0, <1>a, <2>1, <4>1, <4>2 DEF Safe
      <3> HIDE DEF c
      <3>4. QED
        BY <2>1, <3>1, <3>2, <3>3 DEF Clear
    <2>3. CASE daemon' = [daemon EXCEPT !.pc = "plan"]
      <3>1. daemon'.pc = "plan" /\ daemon'.lock = daemon.lock
        BY <1>0, <2>3 DEF DaemonSort
      <3>2. QED
        BY <2>1, <3>1 DEF Clear
    <2>4. QED
      BY <1>10, <2>2, <2>3 DEF DaemonTick
  <1>11. CASE Slot
    <2>1. now' = now + 1 /\ UNCHANGED <<lockAt, eng, poll, daemon>> /\ ~Pressing
      BY <1>11 DEF Slot, roundVars
    <2>2. /\ eng.pc # "decide"
          /\ ~(poll.pc # "idle" /\ now >= poll.abortAt)
          /\ ~(daemon.pc = "wait" /\ now >= daemon.wake)
      BY <2>1 DEF Pressing
    <2> DEFINE x == poll.abortAt
               y == daemon.wake
    <2>3. daemon.pc = "polling" => now' <= x
      BY <1>0, <1>c, <2>1, <2>2
    <2>4. daemon.pc = "wait" => now' <= y
      BY <1>0, <2>1, <2>2
    <2>5. now' < lockAt => now < lockAt
      BY <1>0, <2>1
    <2>6. Safe' = Safe
      BY <2>1 DEF Safe
    <2>7. QED
      BY <2>1, <2>2, <2>3, <2>4, <2>5, <2>6 DEF Clear
  <1>12. QED
    BY <1>1, <1>2, <1>3, <1>4, <1>5, <1>6, <1>7, <1>8, <1>9, <1>10, <1>11 DEF Next, EngineStep

\* A tick the daemon has planned under this round's lock never makes the engine drop its
\* own poll and is over when the engine decides, for every schedule with some buffer
\* between the two (RPC_PERIODIC_TO_SINGLE_POLL_SAFETY_BUFFER_SECONDS), unless a thread
\* is held up between two steps that only compute.
THEOREM ClearSound == ~Stalls /\ SafetyBuffer > 0 => (Spec => []PeriodicKeepsClear)
  <1>1. SUFFICES ASSUME ~Stalls, SafetyBuffer > 0 PROVE Spec => []PeriodicKeepsClear
    OBVIOUS
  <1>2. Init => Base /\ Clear
    <2> SUFFICES ASSUME Init PROVE Base /\ Clear
      OBVIOUS
    <2>1. eng.pc = "idle" /\ eng.dropped = "no" /\ daemon.pc = "plan" /\ daemon.lock = 0 /\ lockAt = 0
      BY DEF Init
    <2>2. QED
      BY <2>1, BaseStarts DEF Clear
  <1>3. Base /\ Clear => PeriodicKeepsClear
    <2> SUFFICES ASSUME Base, Clear, eng.pc = "decide", pollLock = "daemon", now < lockAt,
                        daemon.lock = lockAt
                 PROVE  FALSE
      BY DEF Clear, PeriodicKeepsClear
    <2>1. daemon.pc = "polling"
      BY DEF Base, Locks
    <2>2. /\ now <= poll.abortAt /\ poll.abortAt + SafetyBuffer <= lockAt - SingleOffset
          /\ now >= lockAt - AnchorOffset
      BY <2>1 DEF Clear
    <2>3. now \in Nat /\ lockAt \in Nat /\ poll.abortAt \in Nat
      BY DEF Base, Typed, ChainShape, ShapeOf, PollSort
    <2>4. SingleOffset \in Nat /\ AnchorOffset \in Nat /\ CapSingle \in Nat /\ SafetyBuffer \in Nat
          /\ CapSingle + AnchorOffset <= SingleOffset
      BY Constants
    <2>5. QED
      BY <1>1, <2>2, <2>3, <2>4
  <1>4. Base /\ Base' /\ Clear /\ [Next]_vars => Clear'
    BY <1>1, ClearStep
  <1>5. QED
    BY <1>2, <1>3, <1>4, BaseStep, PTL DEF Spec
=============================================================================
