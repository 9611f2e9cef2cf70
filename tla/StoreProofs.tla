----------------------------- MODULE StoreProofs -----------------------------
(***************************************************************************)
(* The market-data files under StoreSync, for every value of the           *)
(* constants: what the daily sync, the watchdog and the operator's merge   *)
(* may do to them, with a kill between any two writes.  First the readers  *)
(* and writers of JsonlStore on a file whose records ascend and whose last *)
(* line may be torn, then what every step keeps of the four files.         *)
(***************************************************************************)
EXTENDS StoreSync, FiniteSetTheorems, SequenceTheorems, WellFoundedInduction, TLAPS

-----------------------------------------------------------------------------
(* Sets of epochs.                                                         *)

LEMMA LastIsNat == LastDay \in Nat \ {0}
  BY StoreAssumption

LEMMA EpochsFinite ==
    ASSUME NEW S \in SUBSET Epochs
    PROVE  IsFiniteSet(S) /\ Cardinality(S) \in Nat /\ S \subseteq Nat
  <1>1. IsFiniteSet(Epochs)
    BY LastIsNat, FS_Interval DEF Epochs
  <1>2. IsFiniteSet(S)
    BY <1>1, FS_Subset
  <1>3. Epochs \subseteq Nat
    BY LastIsNat DEF Epochs
  <1>4. QED
    BY <1>2, <1>3, FS_CardinalityType

LEMMA LeastIs ==
    ASSUME NEW S \in SUBSET Nat, S # {}
    PROVE  Least(S) \in S /\ \A y \in S : Least(S) <= y
  <1>1. PICK least \in S : \A y \in S : ~(<<y, least>> \in OpToRel(<, Nat))
    BY NatLessThanWellFounded, WFMin
  <1>2. \A y \in S : ~(y < least)
    BY <1>1, Zenon DEF OpToRel
  <1>3. \A y \in S : least <= y
    BY <1>2
  <1>4. QED
    BY <1>3, Zenon DEF Least

\* There is a last one, for there is no epoch after LastDay.
LEMMA LastOne ==
    ASSUME NEW S \in SUBSET Epochs, S # {}
    PROVE  \E top \in S : \A y \in S : top >= y
  <1> DEFINE T == {LastDay - x : x \in S}
  <1>0. \A x \in S : x \in 1 .. LastDay
    BY DEF Epochs
  <1>1. T \subseteq Nat /\ T # {}
    <2>1. \A x \in 1 .. LastDay : LastDay - x \in Nat
      BY LastIsNat
    <2>2. QED
      BY <1>0, <2>1
  <1>2. Least(T) \in T /\ \A y \in T : Least(T) <= y
    BY <1>1, LeastIs
  <1>3. PICK top \in S : Least(T) = LastDay - top
    BY <1>2
  <1>4. ASSUME NEW y \in S PROVE top >= y
    <2>1. LastDay - top <= LastDay - y
      BY <1>2, <1>3
    <2>2. top \in Nat /\ y \in Nat /\ LastDay \in Nat
      BY LastIsNat DEF Epochs
    <2>3. QED
      BY <2>1, <2>2
  <1>5. QED
    BY <1>4

\* The epochs inside the span of a set.
LEMMA HolesAre ==
    ASSUME NEW S \in SUBSET Epochs
    PROVE  \A e : e \in Holes(S) <=>
              e \in Nat /\ e \notin S /\ (\E x \in S : x < e) /\ (\E y \in S : e < y)
  <1>1. CASE S = {}
    BY <1>1 DEF Holes
  <1>2. CASE S # {}
    <2>1. PICK lo \in S : \A y \in S : lo <= y
      BY <1>2, LeastIs, EpochsFinite
    <2>2. PICK hi \in S : \A y \in S : hi >= y
      BY <1>2, LastOne
    <2> DEFINE a == CHOOSE x \in S : \A y \in S : x <= y
               b == CHOOSE x \in S : \A y \in S : x >= y
    <2>3. a \in S /\ \A y \in S : a <= y
      BY <2>1, Zenon
    <2>4. b \in S /\ \A y \in S : b >= y
      BY <2>2, Zenon
    <2>5. Holes(S) = (a .. b) \ S
      BY <1>2, Zenon DEF Holes
    <2> HIDE DEF a, b
    <2>6. a \in Nat /\ b \in Nat /\ S \subseteq Nat
      BY <2>3, <2>4, EpochsFinite
    <2>7. ASSUME NEW e
          PROVE  e \in (a .. b) \ S <=>
                    e \in Nat /\ e \notin S /\ (\E x \in S : x < e) /\ (\E y \in S : e < y)
      <3>1. ASSUME e \in (a .. b) \ S
            PROVE  e \in Nat /\ e \notin S /\ (\E x \in S : x < e) /\ (\E y \in S : e < y)
        <4>1. e \in Nat /\ e \notin S /\ a <= e /\ e <= b /\ e # a /\ e # b
          BY <2>3, <2>4, <2>6, <3>1
        <4>2. a < e /\ e < b
          BY <2>6, <4>1
        <4>3. QED
          BY <2>3, <2>4, <4>1, <4>2
      <3>2. ASSUME e \in Nat, e \notin S, NEW x \in S, x < e, NEW y \in S, e < y
            PROVE  e \in (a .. b) \ S
        <4>1. x \in Nat /\ y \in Nat /\ a <= x /\ b >= y
          BY <2>3, <2>4, <2>6
        <4>2. QED
          BY <2>6, <3>2, <4>1
      <3>3. QED
        BY <3>1, <3>2
    <2>8. QED
      BY <2>5, <2>7
  <1>3. QED
    BY <1>1, <1>2

\* A batch is a beginning of what is to be fetched, a window an end of what there is.
LEMMA OldestIs ==
    ASSUME NEW S \in SUBSET Epochs, NEW n \in Nat
    PROVE  /\ Oldest(S, n) \subseteq S
           /\ \A e \in Oldest(S, n), x \in S : x < e => x \in Oldest(S, n)
           /\ S # {} /\ n > 0 => Oldest(S, n) # {}
  <1>1. \A e \in S : Cardinality({x \in S : x < e}) \in Nat
    BY EpochsFinite
  <1>2. ASSUME NEW e \in Oldest(S, n), NEW x \in S, x < e PROVE x \in Oldest(S, n)
    <2>0. e \in S /\ S \subseteq Nat
      BY EpochsFinite DEF Oldest
    <2>1. {y \in S : y < x} \subseteq {y \in S : y < e}
      <3>1. \A y \in S : y < x => y < e
        BY <1>2, <2>0
      <3>2. QED
        BY <3>1, Zenon
    <2>2. Cardinality({y \in S : y < x}) <= Cardinality({y \in S : y < e})
      <3>1. IsFiniteSet({y \in S : y < e})
        BY EpochsFinite
      <3>2. QED
        BY <2>1, <3>1, FS_Subset
    <2>3. e \in S /\ Cardinality({y \in S : y < e}) < n
      BY DEF Oldest
    <2>4. QED
      BY <1>1, <2>2, <2>3 DEF Oldest
  <1>3. ASSUME S # {}, n > 0 PROVE Oldest(S, n) # {}
    <2>1. Least(S) \in S /\ \A y \in S : Least(S) <= y
      BY <1>3, LeastIs, EpochsFinite
    <2>2. {x \in S : x < Least(S)} = {}
      <3>1. \A y \in S : ~(y < Least(S))
        BY <2>1, EpochsFinite
      <3>2. QED
        BY <3>1, Zenon
    <2>3. Cardinality({x \in S : x < Least(S)}) = 0
      BY <2>2, FS_EmptySet
    <2>4. QED
      BY <1>3, <2>1, <2>3 DEF Oldest
  <1>4. QED
    BY <1>2, <1>3 DEF Oldest

LEMMA NewestIs ==
    ASSUME NEW S \in SUBSET Epochs, NEW n \in Int
    PROVE  /\ Newest(S, n) \subseteq S
           /\ \A e \in Newest(S, n), x \in S : e < x => x \in Newest(S, n)
  <1>1. \A e \in S : Cardinality({x \in S : x > e}) \in Nat
    BY EpochsFinite
  <1>2. ASSUME NEW e \in Newest(S, n), NEW x \in S, e < x PROVE x \in Newest(S, n)
    <2>0. e \in S /\ S \subseteq Nat
      BY EpochsFinite DEF Newest
    <2>1. {y \in S : y > x} \subseteq {y \in S : y > e}
      <3>1. \A y \in S : y > x => y > e
        BY <1>2, <2>0
      <3>2. QED
        BY <3>1, Zenon
    <2>2. Cardinality({y \in S : y > x}) <= Cardinality({y \in S : y > e})
      <3>1. IsFiniteSet({y \in S : y > e})
        BY EpochsFinite
      <3>2. QED
        BY <2>1, <3>1, FS_Subset
    <2>3. e \in S /\ Cardinality({y \in S : y > e}) < n
      BY DEF Newest
    <2>4. QED
      BY <1>1, <2>2, <2>3 DEF Newest
  <1>3. QED
    BY <1>2 DEF Newest

-----------------------------------------------------------------------------
(* A file as the code keeps it: one record to a line, epochs ascending, and *)
(* at most the last line torn, in which case it has no newline.             *)

Shaped(f) == f \in [lines : Seq(Seq(Int)), open : BOOLEAN]
At(f, i)  == Magnitude(f.lines[i][1])

Ascends(f) == \A i, j \in 1 .. Len(f.lines) : i < j => At(f, i) < At(f, j)

Lined(f) ==
    \A i \in 1 .. Len(f.lines) :
        /\ Len(f.lines[i]) = 1 /\ At(f, i) \in Epochs
        /\ f.lines[i][1] < 0 <=> (i = Len(f.lines) /\ f.open)

Sound(f) == Shaped(f) /\ Lined(f) /\ Ascends(f) /\ (f.open => f.lines # <<>>)

LEMMA Shapes ==
    ASSUME NEW f, Shaped(f)
    PROVE  /\ f.lines \in Seq(Seq(Int)) /\ f.open \in BOOLEAN
           /\ Len(f.lines) \in Nat /\ DOMAIN f.lines = 1 .. Len(f.lines)
           /\ \A i \in 1 .. Len(f.lines) :
                 /\ f.lines[i] \in Seq(Int) /\ Len(f.lines[i]) \in Nat
                 /\ DOMAIN f.lines[i] = 1 .. Len(f.lines[i])
                 /\ \A j \in 1 .. Len(f.lines[i]) : f.lines[i][j] \in Int
           /\ f.lines # <<>> => Len(f.lines) > 0
  <1>1. f.lines \in Seq(Seq(Int)) /\ f.open \in BOOLEAN
    BY DEF Shaped
  <1>2. Len(f.lines) \in Nat /\ DOMAIN f.lines = 1 .. Len(f.lines)
    BY <1>1, LenProperties
  <1>3. f.lines # <<>> => Len(f.lines) > 0
    BY <1>1, <1>2, EmptySeq
  <1>4. ASSUME NEW i \in 1 .. Len(f.lines)
        PROVE  /\ f.lines[i] \in Seq(Int) /\ Len(f.lines[i]) \in Nat
               /\ DOMAIN f.lines[i] = 1 .. Len(f.lines[i])
               /\ \A j \in 1 .. Len(f.lines[i]) : f.lines[i][j] \in Int
    <2>1. f.lines[i] \in Seq(Int)
      BY <1>1, <1>4, ElementOfSeq
    <2>2. QED
      BY <2>1, LenProperties, ElementOfSeq
  <1>5. QED
    BY <1>1, <1>2, <1>3, <1>4

\* What the readers see of it: all lines but a torn last one.
LEMMA SoundReads ==
    ASSUME NEW f, Sound(f)
    PROVE  /\ OnDisk(f) \in 0 .. Len(f.lines)
           /\ BadLines(f) = (OnDisk(f) + 1) .. Len(f.lines)
           /\ Records(f) = {f.lines[i][1] : i \in 1 .. OnDisk(f)}
           /\ \A i \in 1 .. OnDisk(f) : f.lines[i][1] \in Epochs /\ f.lines[i][1] = At(f, i)
           /\ Records(f) \subseteq Epochs
  <1> DEFINE n == Len(f.lines)
             m == OnDisk(f)
  <1>1. /\ n \in Nat /\ DOMAIN f.lines = 1 .. n /\ f.open \in BOOLEAN
        /\ f.lines # <<>> => n > 0
        /\ \A i \in 1 .. n : f.lines[i] \in Seq(Int) /\ Len(f.lines[i]) = 1 /\ f.lines[i][1] \in Int
    <2>1. Shaped(f) /\ Lined(f)
      BY DEF Sound
    <2>2. QED
      BY <2>1, Shapes DEF Lined
  <1>2. m \in 0 .. n
    BY <1>1 DEF Sound, OnDisk
  <1>3. \A i \in 1 .. n : f.lines[i][1] < 0 <=> i = n /\ f.open
    BY DEF Sound, Lined
  <1>4. \A i \in 1 .. n : i <= m <=> ~(i = n /\ f.open)
    BY <1>1, <1>2 DEF OnDisk
  <1>5. \A i \in 1 .. n : At(f, i) \in Epochs
    BY DEF Sound, Lined
  <1>6. \A i \in 1 .. n : f.lines[i][1] > 0 <=> i <= m
    <2>1. \A i \in 1 .. n : At(f, i) # 0
      BY <1>5, LastIsNat DEF Epochs
    <2>2. \A i \in 1 .. n : f.lines[i][1] # 0
      BY <1>1, <2>1 DEF At, Magnitude
    <2>3. QED
      BY <1>1, <1>3, <1>4, <2>2
  <1>7. \A i \in 1 .. n : Parses(f.lines[i]) <=> i <= m
    BY <1>1, <1>6 DEF Parses
  <1>8. BadLines(f) = (m + 1) .. n
    <2>1. \A i : i \in BadLines(f) <=> i \in 1 .. n /\ ~(i <= m)
      BY <1>1, <1>7 DEF BadLines
    <2>2. \A i : i \in (m + 1) .. n <=> i \in 1 .. n /\ ~(i <= m)
      BY <1>1, <1>2
    <2>3. QED
      BY <2>1, <2>2, Zenon
  <1>9. DOMAIN f.lines \ BadLines(f) = 1 .. m
    <2>1. \A i : i \in 1 .. m <=> i \in 1 .. n /\ i \notin (m + 1) .. n
      BY <1>1, <1>2
    <2>2. QED
      BY <1>1, <1>8, <2>1, Zenon
  <1>10. Records(f) = {f.lines[i][1] : i \in 1 .. m}
    BY <1>9, Zenon DEF Records
  <1>11. ASSUME NEW i \in 1 .. m PROVE f.lines[i][1] \in Epochs /\ f.lines[i][1] = At(f, i)
    <2>1. i \in 1 .. n /\ i <= m
      BY <1>1, <1>2
    <2>2. f.lines[i][1] > 0 /\ f.lines[i][1] \in Int
      BY <1>1, <1>6, <2>1
    <2>3. f.lines[i][1] = At(f, i)
      BY <2>2 DEF At, Magnitude
    <2>4. QED
      BY <1>5, <2>1, <2>3
  <1>12. QED
    BY <1>2, <1>8, <1>10, <1>11

LEMMA SoundFile ==
    ASSUME NEW f, Sound(f)
    PROVE  /\ Records(f) \subseteq Epochs
           /\ Readable(f) <=> ~f.open
           /\ Repairable(f)
  <1>1. Len(f.lines) \in Nat /\ f.open \in BOOLEAN /\ (f.open => Len(f.lines) > 0)
    BY Shapes DEF Sound
  <1>2. BadLines(f) = (OnDisk(f) + 1) .. Len(f.lines) /\ Records(f) \subseteq Epochs
    BY SoundReads
  <1>3. Readable(f) <=> ~f.open
    BY <1>1, <1>2 DEF Readable, OnDisk
  <1>4. Repairable(f)
    BY <1>1, <1>2 DEF Repairable, OnDisk
  <1>5. QED
    BY <1>2, <1>3, <1>4

\* The scan, which does not parse, sees the torn line too.
LEMMA SoundScan ==
    ASSUME NEW f, Sound(f)
    PROVE  /\ ~Disordered(f)
           /\ Scanned(f) = {At(f, i) : i \in 1 .. Len(f.lines)}
  <1> DEFINE n == Len(f.lines)
  <1>1. n \in Nat /\ DOMAIN f.lines = 1 .. n /\ \A i \in 1 .. n : DOMAIN f.lines[i] = {1}
    <2>1. Shaped(f) /\ \A i \in 1 .. n : Len(f.lines[i]) = 1
      BY DEF Sound, Lined
    <2>2. \A i \in 1 .. n : DOMAIN f.lines[i] = 1 .. 1
      BY <2>1, Shapes
    <2>3. 1 .. 1 = {1}
      OBVIOUS
    <2>4. QED
      BY <2>1, <2>2, <2>3, Shapes
  <1>2. \A p : p \in Scan(f) <=> \E i \in 1 .. n : p = <<i, 1>>
    <2>1. \A p : p \in Scan(f) <=>
                    \E i \in DOMAIN f.lines : \E j \in DOMAIN f.lines[i] : p = <<i, j>>
      BY SMT DEF Scan
    <2>2. ASSUME NEW p, NEW i \in 1 .. n
          PROVE  (\E j \in DOMAIN f.lines[i] : p = <<i, j>>) <=> p = <<i, 1>>
      <3>1. DOMAIN f.lines[i] = {1}
        BY <1>1, Zenon
      <3>2. QED
        BY <3>1
    <2>3. ASSUME NEW p
          PROVE  p \in Scan(f) <=> \E i \in 1 .. n : p = <<i, 1>>
      <3>1. p \in Scan(f) <=> \E i \in 1 .. n : \E j \in DOMAIN f.lines[i] : p = <<i, j>>
        BY <1>1, <2>1
      <3>2. QED
        BY <2>2, <3>1, Zenon
    <2>4. QED
      BY <2>3, Zenon
  <1>3. \A i \in 1 .. n : ScanAt(f, <<i, 1>>) = At(f, i)
    BY DEF ScanAt, At
  <1>4. Scanned(f) = {At(f, i) : i \in 1 .. n}
    <2>1. \A e : e \in Scanned(f) <=> \E p \in Scan(f) : e = ScanAt(f, p)
      BY Zenon DEF Scanned
    <2>2. ASSUME NEW e, NEW p \in Scan(f), e = ScanAt(f, p) PROVE \E i \in 1 .. n : e = At(f, i)
      <3>1. PICK i \in 1 .. n : p = <<i, 1>>
        BY <1>2, Zenon
      <3>2. QED
        BY <1>3, <2>2, <3>1
    <2>3. ASSUME NEW e, NEW i \in 1 .. n, e = At(f, i) PROVE \E p \in Scan(f) : e = ScanAt(f, p)
      <3>1. <<i, 1>> \in Scan(f)
        BY <1>2, Zenon
      <3>2. QED
        BY <1>3, <2>3, <3>1
    <2>4. QED
      BY <2>1, <2>2, <2>3, Zenon
  <1>5. ASSUME NEW i \in 1 .. n, NEW j \in 1 .. n, i < j PROVE ~(At(f, j) <= At(f, i))
    <2>1. At(f, i) < At(f, j) /\ At(f, i) \in Epochs /\ At(f, j) \in Epochs
      BY <1>5 DEF Sound, Ascends, Lined
    <2>2. QED
      BY <2>1, LastIsNat DEF Epochs
  <1>6. ~Disordered(f)
    <2>1. ASSUME NEW p \in Scan(f), NEW q \in Scan(f),
                 p[1] < q[1] \/ (p[1] = q[1] /\ p[2] < q[2]), ScanAt(f, q) <= ScanAt(f, p)
          PROVE  FALSE
      <3>1. PICK i \in 1 .. n : p = <<i, 1>>
        BY <1>2, Zenon
      <3>2. PICK j \in 1 .. n : q = <<j, 1>>
        BY <1>2, Zenon
      <3>3. i < j
        BY <2>1, <3>1, <3>2
      <3>4. At(f, j) <= At(f, i)
        BY <1>3, <2>1, <3>1, <3>2
      <3>5. QED
        BY <1>5, <3>3, <3>4
    <2>2. QED
      BY <2>1 DEF Disordered
  <1>7. QED
    BY <1>4, <1>6

-----------------------------------------------------------------------------
(* The writers.                                                            *)

LEMMA PutClosed ==
    ASSUME NEW f, Shaped(f), ~f.open, NEW t \in Int, NEW ended \in BOOLEAN
    PROVE  LET g == Put(f, t, ended)
               n == Len(f.lines)
           IN  /\ Shaped(g) /\ g.open = ~ended /\ Len(g.lines) = n + 1
               /\ \A i \in 1 .. n : g.lines[i] = f.lines[i]
               /\ g.lines[n + 1] = <<t>>
  <1> DEFINE g == Put(f, t, ended)
             n == Len(f.lines)
  <1>1. f.lines \in Seq(Seq(Int)) /\ n \in Nat
    BY Shapes
  <1>2. g = [lines |-> Append(f.lines, <<t>>), open |-> ~ended]
    BY DEF Put
  <1>3. g.lines = Append(f.lines, <<t>>) /\ g.open = ~ended
    BY <1>2
  <1>4. <<t>> \in Seq(Int)
    OBVIOUS
  <1>5. /\ Append(f.lines, <<t>>) \in Seq(Seq(Int))
        /\ Len(Append(f.lines, <<t>>)) = n + 1
        /\ \A i \in 1 .. n : Append(f.lines, <<t>>)[i] = f.lines[i]
        /\ Append(f.lines, <<t>>)[n + 1] = <<t>>
    BY <1>1, <1>4, AppendProperties
  <1>6. Shaped(g)
    BY <1>2, <1>5 DEF Shaped
  <1>7. QED
    BY <1>3, <1>5, <1>6

\* A record, or the first part of one, of an epoch after all the others.
LEMMA PutSound ==
    ASSUME NEW f, Sound(f), ~f.open, NEW e \in Epochs, \A x \in Records(f) : x < e,
           NEW t \in Int, NEW ended \in BOOLEAN, Magnitude(t) = e, t < 0 <=> ~ended
    PROVE  LET g == Put(f, t, ended)
           IN  /\ Sound(g) /\ g.open = ~ended
               /\ Records(g) = IF ended THEN Records(f) \union {e} ELSE Records(f)
  <1> DEFINE g == Put(f, t, ended)
             n == Len(f.lines)
  <1>1. Shaped(f) /\ Lined(f) /\ Ascends(f)
    BY DEF Sound
  <1>2. /\ n \in Nat /\ OnDisk(f) = n /\ Epochs \subseteq Nat
        /\ \A i \in 1 .. n : f.lines[i][1] \in Epochs /\ f.lines[i][1] = At(f, i)
        /\ Records(f) = {f.lines[i][1] : i \in 1 .. n}
    <2>1. n \in Nat /\ OnDisk(f) = n /\ Epochs \subseteq Nat
      BY <1>1, Shapes, EpochsFinite DEF OnDisk
    <2>2. QED
      BY <2>1, SoundReads
  <1>3. /\ Shaped(g) /\ g.open = ~ended /\ Len(g.lines) = n + 1
        /\ \A i \in 1 .. n : g.lines[i] = f.lines[i]
        /\ g.lines[n + 1] = <<t>>
    BY <1>1, PutClosed
  <1> HIDE DEF g
  <1>4. /\ \A i \in 1 .. n : At(g, i) = At(f, i) /\ At(f, i) \in Epochs /\ At(f, i) < e
        /\ At(g, n + 1) = e
    <2>1. ASSUME NEW i \in 1 .. n PROVE At(g, i) = At(f, i) /\ At(f, i) \in Epochs /\ At(f, i) < e
      <3>1. At(g, i) = At(f, i)
        BY <1>3, <2>1 DEF At
      <3>2. f.lines[i][1] \in Records(f)
        BY <1>2, <2>1
      <3>3. QED
        BY <1>2, <3>1, <3>2
    <2>2. At(g, n + 1) = e
      BY <1>3 DEF At
    <2>3. QED
      BY <2>1, <2>2
  <1>5. Lined(g)
    <2>1. ASSUME NEW i \in 1 .. n + 1
          PROVE  /\ Len(g.lines[i]) = 1 /\ At(g, i) \in Epochs
                 /\ g.lines[i][1] < 0 <=> (i = n + 1 /\ g.open)
      <3>1. CASE i = n + 1
        <4>1. g.lines[i] = <<t>> /\ At(g, i) = e
          BY <1>3, <1>4, <3>1
        <4>2. Len(<<t>>) = 1 /\ <<t>>[1] = t
          OBVIOUS
        <4>3. t < 0 <=> g.open
          BY <1>3
        <4>4. QED
          BY <3>1, <4>1, <4>2, <4>3
      <3>2. CASE i # n + 1
        <4>1. i \in 1 .. n
          BY <1>2, <2>1, <3>2
        <4>2. Len(f.lines[i]) = 1 /\ ~(f.lines[i][1] < 0)
          BY <1>1, <4>1 DEF Lined
        <4>3. QED
          BY <1>3, <1>4, <3>2, <4>1, <4>2
      <3>3. QED
        BY <3>1, <3>2
    <2>2. QED
      BY <1>3, <2>1 DEF Lined
  <1>6. Ascends(g)
    <2>1. ASSUME NEW i \in 1 .. n + 1, NEW j \in 1 .. n + 1, i < j PROVE At(g, i) < At(g, j)
      <3>1. i \in 1 .. n
        BY <1>2, <2>1
      <3>2. CASE j = n + 1
        BY <1>4, <3>1, <3>2
      <3>3. CASE j # n + 1
        <4>1. j \in 1 .. n
          BY <1>2, <2>1, <3>3
        <4>2. At(f, i) < At(f, j)
          BY <1>1, <2>1, <3>1, <4>1 DEF Ascends
        <4>3. QED
          BY <1>4, <3>1, <4>1, <4>2
      <3>4. QED
        BY <3>2, <3>3
    <2>2. QED
      BY <1>3, <2>1 DEF Ascends
  <1>7. g.lines # <<>>
    <2>1. Len(g.lines) > 0
      BY <1>2, <1>3
    <2>2. QED
      BY <2>1
  <1>8. Sound(g)
    BY <1>3, <1>5, <1>6, <1>7 DEF Sound
  <1>9. Records(g) = {g.lines[i][1] : i \in 1 .. OnDisk(g)}
    BY <1>8, SoundReads
  <1>10. \A i \in 1 .. n : g.lines[i][1] = f.lines[i][1]
    BY <1>3
  <1>11. CASE ~ended
    <2>0. g.open
      BY <1>3, <1>11
    <2>1. OnDisk(g) = n
      BY <1>2, <1>3, <2>0 DEF OnDisk
    <2>2. Records(g) = Records(f)
      BY <1>2, <1>9, <1>10, <2>1
    <2>3. QED
      BY <1>3, <1>8, <1>11, <2>2 DEF g
  <1>12. CASE ended
    <2>0. ~g.open
      BY <1>3, <1>12
    <2>1. OnDisk(g) = n + 1
      BY <1>2, <1>3, <2>0 DEF OnDisk
    <2>2. g.lines[n + 1][1] = e
      BY <1>3, <1>12 DEF Magnitude
    <2>3. \A i \in 1 .. n + 1 : i \in 1 .. n \/ i = n + 1
      BY <1>2
    <2>4. 1 .. n \subseteq 1 .. n + 1 /\ n + 1 \in 1 .. n + 1
      BY <1>2
    <2>5. Records(g) = Records(f) \union {e}
      <3>1. ASSUME NEW x \in Records(g) PROVE x \in Records(f) \union {e}
        <4>1. PICK i \in 1 .. n + 1 : x = g.lines[i][1]
          BY <1>9, <2>1, <3>1
        <4>2. QED
          BY <1>2, <1>10, <2>2, <2>3, <4>1
      <3>2. ASSUME NEW x \in Records(f) PROVE x \in Records(g)
        <4>1. PICK i \in 1 .. n : x = f.lines[i][1]
          BY <1>2, <3>2
        <4>2. QED
          BY <1>9, <1>10, <2>1, <2>4, <4>1
      <3>3. e \in Records(g)
        BY <1>9, <2>1, <2>2, <2>4
      <3>4. QED
        BY <3>1, <3>2, <3>3
    <2>6. QED
      BY <1>3, <1>8, <1>12, <2>5 DEF g
  <1>13. QED
    BY <1>11, <1>12

\* Whatever a kill leaves of a record after all the others.
LEMMA CutSound ==
    ASSUME NEW f, Sound(f), ~f.open, NEW e \in Epochs, \A x \in Records(f) : x < e,
           ~MayCutNewline, NEW g \in CutRecord(f, e, MayCutNewline)
    PROVE  Sound(g) /\ (Records(g) = Records(f) \/ Records(g) = Records(f) \union {e})
  <1>1. e \in Nat /\ e > 0
    BY LastIsNat DEF Epochs
  <1>2. g \in {f, WriteRecord(f, e), Put(f, -e, FALSE)}
    BY Zenon DEF CutRecord
  <1>3. Magnitude(e) = e /\ Magnitude(-e) = e /\ ~(e < 0) /\ -e < 0 /\ e \in Int /\ -e \in Int
    BY <1>1 DEF Magnitude
  <1>4. CASE g = f
    BY <1>4
  <1>5. CASE g = WriteRecord(f, e)
    BY <1>3, <1>5, PutSound DEF WriteRecord
  <1>6. CASE g = Put(f, -e, FALSE)
    BY <1>3, <1>6, PutSound
  <1>7. QED
    BY <1>2, <1>4, <1>5, <1>6

LEMMA WriteSound ==
    ASSUME NEW f, Sound(f), ~f.open, NEW e \in Epochs, \A x \in Records(f) : x < e
    PROVE  /\ Sound(WriteRecord(f, e)) /\ ~WriteRecord(f, e).open
           /\ Records(WriteRecord(f, e)) = Records(f) \union {e}
  <1>1. Magnitude(e) = e /\ ~(e < 0) /\ e \in Int
    BY LastIsNat DEF Epochs, Magnitude
  <1>2. ASSUME NEW ended \in BOOLEAN, ended
        PROVE  /\ Sound(Put(f, e, ended)) /\ ~Put(f, e, ended).open
               /\ Records(Put(f, e, ended)) = Records(f) \union {e}
    <2>1. e < 0 <=> ~ended
      BY <1>1, <1>2
    <2> DEFINE g == Put(f, e, ended)
    <2>2. Sound(g) /\ g.open = ~ended
          /\ Records(g) = IF ended THEN Records(f) \union {e} ELSE Records(f)
      BY <1>1, <2>1, PutSound
    <2> HIDE DEF g
    <2>3. Sound(g) /\ ~g.open /\ Records(g) = Records(f) \union {e}
      BY <1>2, <2>2
    <2>4. QED
      BY <2>3 DEF g
  <1>3. /\ Sound(Put(f, e, TRUE)) /\ ~Put(f, e, TRUE).open
        /\ Records(Put(f, e, TRUE)) = Records(f) \union {e}
    BY <1>2, Zenon
  <1>4. QED
    BY <1>3, Zenon DEF WriteRecord

\* repair_torn_tail takes away what could not be read, and nothing else.
LEMMA RepairSound ==
    ASSUME NEW f, Sound(f)
    PROVE  /\ Sound(RepairTornTail(f)) /\ ~RepairTornTail(f).open
           /\ Records(RepairTornTail(f)) = Records(f)
  <1>1. CASE ~f.open
    <2>1. RepairTornTail(f) = f
      BY <1>1, SoundFile DEF RepairTornTail
    <2>2. QED
      BY <1>1, <2>1
  <1>2. CASE f.open
    <2> DEFINE n == Len(f.lines)
               ls == SubSeq(f.lines, 1, n - 1)
               g == [lines |-> ls, open |-> FALSE]
    <2>1. RepairTornTail(f) = g
      BY <1>2, SoundFile DEF RepairTornTail
    <2>2. /\ n \in Nat /\ n > 0 /\ f.lines \in Seq(Seq(Int)) /\ DOMAIN f.lines = 1 .. n
          /\ \A i \in 1 .. n : f.lines[i] \in Seq(Int)
      BY <1>2, Shapes DEF Sound
    <2>3. ls \in Seq(Seq(Int)) /\ Len(ls) = n - 1 /\ \A i \in 1 .. n - 1 : ls[i] = f.lines[i]
      <3>1. \A i \in 1 .. n - 1 : f.lines[i] \in Seq(Int)
        BY <2>2
      <3>2. /\ ls \in Seq(Seq(Int))
            /\ Len(ls) = IF 1 <= n - 1 THEN (n - 1) - 1 + 1 ELSE 0
            /\ \A i \in 1 .. (n - 1) - 1 + 1 : ls[i] = f.lines[1 + i - 1]
        BY <2>2, <3>1, SubSeqProperties
      <3> HIDE DEF ls
      <3>3. Len(ls) = n - 1
        BY <2>2, <3>2
      <3>4. ASSUME NEW i \in 1 .. n - 1 PROVE ls[i] = f.lines[i]
        <4>1. i \in 1 .. (n - 1) - 1 + 1 /\ 1 + i - 1 = i
          BY <2>2
        <4>2. QED
          BY <3>2, <4>1
      <3>5. QED
        BY <3>2, <3>3, <3>4
    <2> HIDE DEF ls
    <2>4. g.lines = ls /\ g.open = FALSE
      OBVIOUS
    <2>5. Shaped(g)
      BY <2>3 DEF Shaped
    <2> HIDE DEF g
    <2>6. ASSUME NEW i \in 1 .. n - 1
          PROVE  g.lines[i] = f.lines[i] /\ At(g, i) = At(f, i) /\ i \in 1 .. n /\ i # n
      <3>1. g.lines[i] = f.lines[i]
        BY <2>3, <2>4
      <3>2. At(g, i) = At(f, i)
        BY <3>1, Zenon DEF At
      <3>3. QED
        BY <2>2, <3>1, <3>2
    <2>7. Lined(g)
      BY <2>3, <2>4, <2>6 DEF Lined, Sound
    <2>8. Ascends(g)
      BY <2>3, <2>4, <2>6 DEF Ascends, Sound
    <2>9. Sound(g)
      BY <2>4, <2>5, <2>7, <2>8 DEF Sound
    <2>10. OnDisk(g) = n - 1 /\ OnDisk(f) = n - 1
      BY <1>2, <2>3, <2>4 DEF OnDisk
    <2>11. Records(g) = Records(f)
      <3>1. Records(g) = {g.lines[i][1] : i \in 1 .. n - 1}
        BY <2>9, <2>10, SoundReads
      <3>2. Records(f) = {f.lines[i][1] : i \in 1 .. n - 1}
        BY <2>10, SoundReads
      <3>3. \A i \in 1 .. n - 1 : g.lines[i][1] = f.lines[i][1]
        BY <2>6
      <3>4. QED
        BY <3>1, <3>2, <3>3
    <2>12. QED
      BY <2>1, <2>4, <2>9, <2>11
  <1>3. QED
    BY <1>1, <1>2, Shapes DEF Sound

\* The first k lines of a file.
LEMMA Prefix ==
    ASSUME NEW f, Shaped(f), NEW k \in 0 .. Len(f.lines)
    PROVE  /\ SubSeq(f.lines, 1, k) \in Seq(Seq(Int)) /\ Len(SubSeq(f.lines, 1, k)) = k
           /\ DOMAIN SubSeq(f.lines, 1, k) = 1 .. k
           /\ \A i \in 1 .. k : i \in 1 .. Len(f.lines) /\ SubSeq(f.lines, 1, k)[i] = f.lines[i]
  <1> DEFINE n == Len(f.lines)
             ls == SubSeq(f.lines, 1, k)
  <1>1. /\ n \in Nat /\ f.lines \in Seq(Seq(Int)) /\ DOMAIN f.lines = 1 .. n
        /\ \A i \in 1 .. n : f.lines[i] \in Seq(Int)
    BY Shapes
  <1>2. k \in Nat /\ k <= n /\ \A i \in 1 .. k : i \in 1 .. n
    BY <1>1
  <1>3. \A i \in 1 .. k : f.lines[i] \in Seq(Int)
    BY <1>1, <1>2
  <1>4. /\ ls \in Seq(Seq(Int))
        /\ Len(ls) = IF 1 <= k THEN k - 1 + 1 ELSE 0
        /\ \A i \in 1 .. k - 1 + 1 : ls[i] = f.lines[1 + i - 1]
    BY <1>1, <1>2, <1>3, SubSeqProperties
  <1> HIDE DEF ls
  <1>5. Len(ls) = k
    BY <1>2, <1>4
  <1>6. DOMAIN ls = 1 .. k
    BY <1>4, <1>5, LenProperties
  <1>7. ASSUME NEW i \in 1 .. k PROVE i \in 1 .. n /\ ls[i] = f.lines[i]
    <2>1. i \in 1 .. k - 1 + 1 /\ 1 + i - 1 = i
      BY <1>2
    <2>2. QED
      BY <1>2, <1>4, <2>1
  <1>8. QED
    BY <1>4, <1>5, <1>6, <1>7 DEF ls

\* The records of the first k lines are some of the records of the file.
LEMMA PrefixReads ==
    ASSUME NEW f, Shaped(f), NEW k \in 0 .. Len(f.lines), NEW g, g.lines = SubSeq(f.lines, 1, k)
    PROVE  /\ Records(g) = {f.lines[i][1] : i \in {j \in 1 .. k : Parses(f.lines[j])}}
           /\ Records(g) \subseteq Records(f)
  <1>1. /\ DOMAIN g.lines = 1 .. k
        /\ \A i \in 1 .. k : i \in 1 .. Len(f.lines) /\ g.lines[i] = f.lines[i]
    BY Prefix
  <1>2. DOMAIN f.lines = 1 .. Len(f.lines)
    BY Shapes
  <1>3. DOMAIN g.lines \ BadLines(g) = {j \in 1 .. k : Parses(f.lines[j])}
    BY <1>1 DEF BadLines
  <1>4. DOMAIN f.lines \ BadLines(f) = {j \in 1 .. Len(f.lines) : Parses(f.lines[j])}
    BY <1>2 DEF BadLines
  <1>5. Records(g) = {f.lines[i][1] : i \in {j \in 1 .. k : Parses(f.lines[j])}}
    BY <1>1, <1>3 DEF Records
  <1>6. Records(f) = {f.lines[i][1] : i \in {j \in 1 .. Len(f.lines) : Parses(f.lines[j])}}
    BY <1>4, Zenon DEF Records
  <1>7. QED
    BY <1>1, <1>5, <1>6

\* A power loss leaves whole lines from the front, and all of those that are safe.
LEMMA LeftReads ==
    ASSUME NEW f, Shaped(f), f.open => f.lines # <<>>,
           NEW n \in 0 .. OnDisk(f), NEW g \in Left(f, n)
    PROVE  /\ Shaped(g) /\ Records(g) \subseteq Records(f)
           /\ g = f \/ ~g.open
           /\ Records([f EXCEPT !.lines = SubSeq(@, 1, n)]) \subseteq Records(g)
  <1> DEFINE s == [f EXCEPT !.lines = SubSeq(f.lines, 1, n)]
  <1>0. /\ f \in [lines : Seq(Seq(Int)), open : BOOLEAN] /\ Len(f.lines) \in Nat
        /\ OnDisk(f) \in 0 .. Len(f.lines) /\ n \in 0 .. Len(f.lines)
    BY Shapes DEF Shaped, OnDisk
  <1>1. s.lines = SubSeq(f.lines, 1, n)
    BY <1>0
  <1>2. /\ Records(s) = {f.lines[i][1] : i \in {j \in 1 .. n : Parses(f.lines[j])}}
        /\ Records(s) \subseteq Records(f)
    BY <1>0, <1>1, PrefixReads
  <1> HIDE DEF s
  <1>3. CASE g = f
    BY <1>2, <1>3 DEF s
  <1>4. ASSUME NEW k \in n .. OnDisk(f), g = [lines |-> SubSeq(f.lines, 1, k), open |-> FALSE]
        PROVE  /\ Shaped(g) /\ ~g.open
               /\ Records(g) \subseteq Records(f) /\ Records(s) \subseteq Records(g)
    <2>1. k \in 0 .. Len(f.lines) /\ n <= k /\ n \in Nat
      BY <1>0
    <2>2. SubSeq(f.lines, 1, k) \in Seq(Seq(Int))
      BY <2>1, Prefix
    <2>3. Shaped(g) /\ ~g.open /\ g.lines = SubSeq(f.lines, 1, k)
      BY <1>4, <2>2 DEF Shaped
    <2>4. /\ Records(g) = {f.lines[i][1] : i \in {j \in 1 .. k : Parses(f.lines[j])}}
          /\ Records(g) \subseteq Records(f)
      BY <2>1, <2>3, PrefixReads
    <2>5. \A j \in 1 .. n : j \in 1 .. k
      BY <2>1
    <2>6. Records(s) \subseteq Records(g)
      BY <1>2, <2>4, <2>5
    <2>7. QED
      BY <2>3, <2>4, <2>6
  <1>5. QED
    BY <1>3, <1>4 DEF Left, s

LEMMA LeftSound ==
    ASSUME NEW f, Sound(f), NEW n \in 0 .. OnDisk(f), NEW g \in Left(f, n)
    PROVE  /\ Sound(g)
           /\ \A x \in Records(g), y \in Records(f) : y < x => y \in Records(g)
  <1>1. CASE g = f
    BY <1>1
  <1>2. ASSUME NEW k \in n .. OnDisk(f), g = [lines |-> SubSeq(f.lines, 1, k), open |-> FALSE]
        PROVE  /\ Sound(g)
               /\ \A x \in Records(g), y \in Records(f) : y < x => y \in Records(g)
    <2>1. /\ Shaped(f) /\ Len(f.lines) \in Nat /\ OnDisk(f) \in 0 .. Len(f.lines)
          /\ k \in 0 .. Len(f.lines) /\ k <= OnDisk(f)
      BY Shapes, SoundReads DEF Sound
    <2>2. g.lines = SubSeq(f.lines, 1, k) /\ g.open = FALSE /\ Shaped(g)
      BY <1>2, <2>1, Prefix DEF Shaped
    <2>3. /\ Len(g.lines) = k
          /\ \A i \in 1 .. k : i \in 1 .. Len(f.lines) /\ g.lines[i] = f.lines[i]
      BY <2>1, <2>2, Prefix
    <2>4. \A i \in 1 .. k : At(g, i) = At(f, i)
      BY <2>3, Zenon DEF At
    <2>5. \A i \in 1 .. k : ~(i = Len(f.lines) /\ f.open)
      BY <2>1 DEF OnDisk
    <2>6. Lined(g)
      BY <2>2, <2>3, <2>4, <2>5 DEF Lined, Sound
    <2>7. Ascends(g)
      BY <2>3, <2>4 DEF Ascends, Sound
    <2>8. Sound(g)
      BY <2>2, <2>6, <2>7 DEF Sound
    <2>9. /\ Records(f) = {f.lines[i][1] : i \in 1 .. OnDisk(f)}
          /\ \A i \in 1 .. OnDisk(f) : f.lines[i][1] = At(f, i) /\ At(f, i) \in Epochs
      BY SoundReads
    <2>10. Records(g) = {f.lines[i][1] : i \in 1 .. k}
      <3>1. OnDisk(g) = k
        BY <2>2, <2>3 DEF OnDisk
      <3>2. Records(g) = {g.lines[i][1] : i \in 1 .. k}
        BY <2>8, <3>1, SoundReads
      <3>3. QED
        BY <2>3, <3>2
    <2>11. ASSUME NEW x \in Records(g), NEW y \in Records(f), y < x PROVE y \in Records(g)
      <3>1. PICK i \in 1 .. k : x = f.lines[i][1]
        BY <2>10
      <3>2. PICK j \in 1 .. OnDisk(f) : y = f.lines[j][1]
        BY <2>9
      <3>3. /\ i \in 1 .. OnDisk(f) /\ i \in 1 .. Len(f.lines) /\ j \in 1 .. Len(f.lines)
            /\ i \in Nat /\ j \in Nat
        BY <2>1
      <3>4. At(f, j) < At(f, i) /\ At(f, i) \in Nat /\ At(f, j) \in Nat
        BY <2>9, <2>11, <3>1, <3>2, <3>3, EpochsFinite
      <3>5. ~(i < j)
        <4>1. i < j => At(f, i) < At(f, j)
          BY <3>3 DEF Sound, Ascends
        <4>2. QED
          BY <3>4, <4>1
      <3>6. i = j \/ j < i
        BY <3>3, <3>5
      <3>7. j \in 1 .. k
        BY <2>1, <3>3, <3>6
      <3>8. QED
        BY <2>10, <3>2, <3>7
    <2>12. QED
      BY <2>8, <2>11
  <1>3. QED
    BY <1>1, <1>2 DEF Left

\* The first and the last line of a whole store are its least and its greatest epoch.
LEMMA Ends ==
    ASSUME NEW f, Sound(f), ~f.open
    PROVE  /\ Records(f) = {} <=> f.lines = <<>>
           /\ Records(f) # {} =>
                 /\ Earliest(f) \in Records(f) /\ \A x \in Records(f) : Earliest(f) <= x
                 /\ Latest(f) \in Records(f) /\ \A x \in Records(f) : x <= Latest(f)
  <1> DEFINE n == Len(f.lines)
  <1>1. n \in Nat /\ (f.lines # <<>> => n > 0) /\ (f.lines = <<>> => n = 0)
    BY Shapes DEF Sound
  <1>2. /\ OnDisk(f) = n /\ Epochs \subseteq Nat
        /\ \A i \in 1 .. n : f.lines[i][1] \in Epochs /\ f.lines[i][1] = At(f, i)
        /\ Records(f) = {f.lines[i][1] : i \in 1 .. n}
    <2>1. OnDisk(f) = n
      BY DEF OnDisk
    <2>2. QED
      BY <2>1, SoundReads, EpochsFinite
  <1>3. Records(f) # {} => n > 0
    BY <1>1, <1>2
  <1>4. n > 0 => f.lines[1][1] \in Records(f) /\ f.lines[n][1] \in Records(f)
    BY <1>1, <1>2
  <1>5. ASSUME NEW x \in Records(f) PROVE f.lines[1][1] <= x /\ x <= f.lines[n][1]
    <2>1. PICK i \in 1 .. n : x = f.lines[i][1]
      BY <1>2, <1>5
    <2>2. 1 \in 1 .. n /\ n \in 1 .. n /\ i <= n /\ 1 <= i /\ i \in Nat
      BY <1>1
    <2>3. 1 < i => At(f, 1) < At(f, i)
      BY <2>2 DEF Sound, Ascends
    <2>4. i < n => At(f, i) < At(f, n)
      BY <2>2 DEF Sound, Ascends
    <2>5. f.lines[1][1] = At(f, 1) /\ f.lines[n][1] = At(f, n) /\ x = At(f, i)
      BY <1>2, <2>1, <2>2
    <2>6. At(f, 1) \in Nat /\ At(f, n) \in Nat /\ At(f, i) \in Nat
      BY <1>2, <2>2
    <2>7. CASE i = 1 /\ i = n
      BY <2>5, <2>6, <2>7
    <2>8. CASE i = 1 /\ i < n
      BY <2>4, <2>5, <2>6, <2>8
    <2>9. CASE 1 < i /\ i = n
      BY <2>3, <2>5, <2>6, <2>9
    <2>10. CASE 1 < i /\ i < n
      BY <2>3, <2>4, <2>5, <2>6, <2>10
    <2>11. QED
      BY <1>1, <2>2, <2>7, <2>8, <2>9, <2>10
  <1>6. QED
    BY <1>1, <1>3, <1>4, <1>5 DEF Earliest, Latest

\* The scan takes a torn last line for a record. It is the last, so what is missing
\* inside the scanned span still lies after a complete record.
LEMMA HolesLieAfter ==
    ASSUME NEW f, Sound(f)
    PROVE  /\ Scanned(f) \subseteq Epochs
           /\ \A e \in Holes(Scanned(f)) : e \in Epochs /\ \E x \in Records(f) : x < e
  <1> DEFINE n == Len(f.lines)
  <1>1. n \in Nat /\ Epochs \subseteq Nat /\ f.open \in BOOLEAN
    BY Shapes, EpochsFinite DEF Sound
  <1>2. Scanned(f) = {At(f, i) : i \in 1 .. n} /\ \A i \in 1 .. n : At(f, i) \in Epochs
    BY SoundScan DEF Sound, Lined
  <1>3. Scanned(f) \subseteq Epochs
    BY <1>2
  <1>4. ASSUME NEW e \in Holes(Scanned(f)) PROVE e \in Epochs /\ \E x \in Records(f) : x < e
    <2>1. /\ e \in Nat
          /\ \E x \in Scanned(f) : x < e
          /\ \E y \in Scanned(f) : e < y
      BY <1>3, HolesAre
    <2>2. PICK i \in 1 .. n, j \in 1 .. n : At(f, i) < e /\ e < At(f, j)
      BY <1>2, <2>1
    <2>3. /\ At(f, i) \in Nat /\ At(f, j) \in Nat
          /\ At(f, i) \in 1 .. LastDay /\ At(f, j) \in 1 .. LastDay
      BY <1>1, <1>2 DEF Epochs
    <2>4. At(f, i) < At(f, j)
      BY <2>1, <2>2, <2>3
    <2>5. ~(j < i) /\ i # j
      <3>1. j < i => At(f, j) < At(f, i)
        BY DEF Sound, Ascends
      <3>2. QED
        BY <2>3, <2>4, <3>1
    <2>6. i \in 1 .. OnDisk(f)
      BY <1>1, <2>5 DEF OnDisk
    <2>7. At(f, i) \in Records(f)
      BY <2>6, SoundReads
    <2>8. e \in Epochs
      BY <2>1, <2>2, <2>3, LastIsNat DEF Epochs
    <2>9. QED
      BY <2>2, <2>7, <2>8
  <1>5. QED
    BY <1>3, <1>4

\* rewrite: every epoch of the set has a line, which is the number of those before it.
LEMMA RanksAre ==
    ASSUME NEW S \in SUBSET Epochs
    PROVE  LET Rank(x) == Cardinality({y \in S : y < x})
           IN  /\ \A x \in S : Rank(x) \in 0 .. Cardinality(S) - 1
               /\ \A x, y \in S : x < y => Rank(x) < Rank(y)
               /\ \A i \in 1 .. Cardinality(S) : \E x \in S : Rank(x) = i - 1
  <1> DEFINE n == Cardinality(S)
             Rank(x) == Cardinality({y \in S : y < x})
             f == [x \in S |-> Rank(x) + 1]
  <1>1. IsFiniteSet(S) /\ n \in Nat /\ S \subseteq Nat
    BY EpochsFinite
  <1>2. \A x \in S : IsFiniteSet({y \in S : y < x}) /\ Rank(x) \in Nat
    BY EpochsFinite
  <1>3. ASSUME NEW x \in S PROVE Rank(x) \in 0 .. n - 1
    <2>1. \A y \in S : y < x => y \in S \ {x}
      BY <1>1
    <2>2. {y \in S : y < x} \subseteq S \ {x}
      BY <2>1
    <2>3. IsFiniteSet(S \ {x}) /\ Cardinality(S \ {x}) = n - 1
      BY <1>1, FS_RemoveElement
    <2>4. Rank(x) <= n - 1
      BY <2>2, <2>3, FS_Subset
    <2>5. QED
      BY <1>1, <1>2, <2>4
  <1>4. ASSUME NEW x \in S, NEW y \in S, x < y PROVE Rank(x) < Rank(y)
    <2> DEFINE A == {z \in S : z < x}
    <2>1. x \notin A
      BY <1>1
    <2>2. IsFiniteSet(A) /\ Cardinality(A) \in Nat
      BY <1>2
    <2>3. Cardinality(A \union {x}) = Cardinality(A) + 1
      BY <2>1, <2>2, FS_AddElement
    <2>4. A \union {x} \subseteq {z \in S : z < y}
      <3>1. \A z \in S : z < x => z < y
        BY <1>1, <1>4
      <3>2. QED
        BY <1>4, <3>1
    <2>5. Cardinality(A \union {x}) <= Rank(y)
      <3>1. IsFiniteSet({z \in S : z < y})
        BY <1>2
      <3>2. QED
        BY <2>4, <3>1, FS_Subset
    <2>6. Cardinality(A) + 1 <= Rank(y) /\ Rank(y) \in Nat
      BY <1>2, <2>3, <2>5
    <2> HIDE DEF A
    <2>7. Cardinality(A) < Rank(y)
      BY <2>2, <2>6
    <2>8. QED
      BY <2>7 DEF A
  <1> HIDE DEF Rank
  <1>5. f \in [S -> 1 .. n]
    <2>1. \A x \in S : Rank(x) + 1 \in 1 .. n
      BY <1>1, <1>3
    <2>2. QED
      BY <2>1
  <1>6. f \in Injection(S, 1 .. n)
    <2>1. ASSUME NEW x \in S, NEW y \in S, f[x] = f[y] PROVE x = y
      <3>1. Rank(x) = Rank(y) /\ Rank(x) \in Nat /\ Rank(y) \in Nat
        <4>1. f[x] = Rank(x) + 1 /\ f[y] = Rank(y) + 1
          OBVIOUS
        <4>2. Rank(x) \in Nat /\ Rank(y) \in Nat
          BY <1>1, <1>3
        <4>3. QED
          BY <2>1, <4>1, <4>2
      <3>2. ~(x < y) /\ ~(y < x)
        BY <1>4, <3>1
      <3>3. QED
        BY <1>1, <3>2
    <2>2. QED
      BY <1>5, <2>1 DEF Injection, IsInjective
  <1>7. IsFiniteSet(1 .. n) /\ Cardinality(1 .. n) = n
    BY <1>1, FS_Interval
  <1>8. f \in Surjection(S, 1 .. n)
    BY <1>1, <1>6, <1>7, FS_Injection
  <1>9. ASSUME NEW i \in 1 .. n PROVE \E x \in S : Rank(x) = i - 1
    <2>1. PICK x \in S : f[x] = i
      BY <1>8 DEF Surjection
    <2>2. Rank(x) + 1 = i /\ Rank(x) \in Nat
      BY <1>1, <1>3, <2>1
    <2>3. QED
      BY <2>2
  <1>10. QED
    BY <1>3, <1>4, <1>9 DEF Rank

Ranked(S, n, a, r) ==
    /\ \A i \in 1 .. n : a[i] \in S /\ r[a[i]] = i - 1
    /\ \A x \in S : r[x] \in 0 .. n - 1
    /\ \A x, y \in S : x < y => r[x] < r[y]

Holds(f, n, a) == Len(f.lines) = n /\ \A i \in 1 .. n : f.lines[i] = <<a[i]>>

LEMMA LinesSound ==
    ASSUME NEW S \in SUBSET Epochs, NEW n \in Nat, NEW a, NEW r, Ranked(S, n, a, r),
           NEW f, Shaped(f), ~f.open, Holds(f, n, a)
    PROVE  Sound(f) /\ Records(f) = S
  <1>1. /\ \A i \in 1 .. n : a[i] \in S /\ r[a[i]] = i - 1
        /\ \A x \in S : r[x] \in 0 .. n - 1
        /\ \A x, y \in S : x < y => r[x] < r[y]
    BY Zenon DEF Ranked
  <1>2. Len(f.lines) = n /\ \A i \in 1 .. n : f.lines[i] = <<a[i]>>
    BY Zenon DEF Holds
  <1>3. S \subseteq Nat /\ \A y, z \in S : ~(y < z) /\ ~(z < y) => y = z
    BY EpochsFinite
  <1>4. \A i \in 1 .. n : a[i] \in Nat
    BY <1>1, <1>3, Zenon
  <1>5. ASSUME NEW i \in 1 .. n
        PROVE  /\ Len(f.lines[i]) = 1 /\ f.lines[i][1] = a[i] /\ At(f, i) = a[i]
               /\ f.lines[i][1] \in S /\ ~(f.lines[i][1] < 0)
    <2>1. f.lines[i] = <<a[i]>>
      BY <1>2
    <2>2. a[i] \in S /\ a[i] \in Nat
      BY <1>1, <1>4
    <2>3. Len(f.lines[i]) = 1 /\ f.lines[i][1] = a[i]
      BY <2>1
    <2>4. QED
      BY <2>2, <2>3 DEF At, Magnitude
  <1>6. Lined(f)
    BY <1>2, <1>5 DEF Lined
  <1>7. ASSUME NEW i \in 1 .. n, NEW j \in 1 .. n, i < j PROVE a[i] < a[j]
    <2>1. a[i] \in S /\ a[j] \in S /\ r[a[i]] = i - 1 /\ r[a[j]] = j - 1
      BY <1>1
    <2>2. i \in Nat /\ j \in Nat /\ a[i] \in Nat /\ a[j] \in Nat
      BY <1>4
    <2>3. ~(a[j] < a[i])
      <3>1. a[j] < a[i] => j - 1 < i - 1
        BY <1>1, <2>1
      <3>2. QED
        BY <1>7, <2>2, <3>1
    <2>4. a[i] # a[j]
      <3>1. i - 1 # j - 1
        BY <1>7, <2>2
      <3>2. QED
        BY <2>1, <3>1
    <2>5. QED
      BY <2>2, <2>3, <2>4
  <1>8. Ascends(f)
    <2>1. \A i, j \in 1 .. n : i < j => At(f, i) < At(f, j)
      BY <1>5, <1>7
    <2>2. QED
      BY <1>2, <2>1, Zenon DEF Ascends
  <1>9. Sound(f)
    <2>1. ~f.open
      OBVIOUS
    <2>2. QED
      BY <1>6, <1>8, <2>1, Zenon DEF Sound
  <1>10. Records(f) = {f.lines[i][1] : i \in 1 .. n}
    <2>1. OnDisk(f) = n
      BY <1>2 DEF OnDisk
    <2>2. Records(f) = {f.lines[i][1] : i \in 1 .. OnDisk(f)}
      BY ONLY <1>9, SoundReads
    <2>3. QED
      BY <2>1, <2>2, Zenon
  <1>11. ASSUME NEW x \in S PROVE x \in Records(f)
    <2>1. r[x] + 1 \in 1 .. n /\ r[x] \in Nat /\ (r[x] + 1) - 1 = r[x]
      <3>1. r[x] \in 0 .. n - 1
        BY <1>1
      <3>2. QED
        BY <3>1
    <2>2. PICK i \in 1 .. n : i = r[x] + 1
      BY <2>1, Zenon
    <2>3. a[i] \in S /\ r[a[i]] = r[x]
      BY <1>1, <2>1, <2>2
    <2>4. ~(a[i] < x) /\ ~(x < a[i])
      <3>1. a[i] < x => r[a[i]] < r[x]
        BY <1>1, <2>3
      <3>2. x < a[i] => r[x] < r[a[i]]
        BY <1>1, <2>3
      <3>3. QED
        BY <2>1, <2>3, <3>1, <3>2
    <2>5. a[i] = x
      BY <1>3, <2>3, <2>4, Zenon
    <2>6. f.lines[i][1] = x
      BY <1>5, <2>5
    <2>7. QED
      BY <1>10, <2>6
  <1>12. Records(f) = S
    <2>1. ASSUME NEW x \in Records(f) PROVE x \in S
      <3>1. PICK i \in 1 .. n : x = f.lines[i][1]
        BY <1>10, <2>1, Zenon
      <3>2. QED
        BY <1>5, <3>1, Zenon
    <2>2. QED
      BY <1>11, <2>1, Zenon
  <1>13. QED
    BY <1>9, <1>12

LEMMA FromEpochsSound ==
    ASSUME NEW S \in SUBSET Epochs
    PROVE  Sound(FromEpochs(S)) /\ ~FromEpochs(S).open /\ Records(FromEpochs(S)) = S
  <1> DEFINE n == Cardinality(S)
             Rank(x) == Cardinality({y \in S : y < x})
             a == Ascending(S)
             r == [x \in S |-> Rank(x)]
             f == FromEpochs(S)
  <1>1. n \in Nat
    BY EpochsFinite
  <1>2. /\ \A x \in S : Rank(x) \in 0 .. n - 1
        /\ \A x, y \in S : x < y => Rank(x) < Rank(y)
        /\ \A i \in 1 .. n : \E x \in S : Rank(x) = i - 1
    BY RanksAre, Zenon
  <1>3. ASSUME NEW i \in 1 .. n PROVE a[i] \in S /\ Rank(a[i]) = i - 1
    <2>1. a[i] = CHOOSE x \in S : Rank(x) = i - 1
      BY Zenon DEF Ascending
    <2>2. PICK x \in S : Rank(x) = i - 1
      BY <1>2, Zenon
    <2>3. QED
      BY <2>1, <2>2, Zenon
  <1>4. f = [lines |-> [i \in 1 .. n |-> <<a[i]>>], open |-> FALSE]
    BY Zenon DEF FromEpochs
  <1> HIDE DEF Rank, a, f
  <1>5. \A x \in S : r[x] = Rank(x)
    BY Zenon
  <1> HIDE DEF r, n
  <1>6. \A x \in S : r[x] \in 0 .. n - 1
    BY <1>2, <1>5, Zenon
  <1>7. \A x, y \in S : x < y => r[x] < r[y]
    BY <1>2, <1>5, Zenon
  <1>8. \A i \in 1 .. n : a[i] \in S /\ r[a[i]] = i - 1
    BY <1>3, <1>5, Zenon
  <1>9. Ranked(S, n, a, r)
    BY <1>6, <1>7, <1>8, Zenon DEF Ranked
  <1> DEFINE ls == [i \in 1 .. n |-> <<a[i]>>]
  <1>10. \A i \in 1 .. n : <<a[i]>> \in Seq(Int)
    <2>1. \A x \in S : <<x>> \in Seq(Int)
      BY EpochsFinite
    <2>2. QED
      BY <1>8, <2>1, Zenon
  <1>11. ls \in Seq(Seq(Int)) /\ Len(ls) = n /\ \A i \in 1 .. n : ls[i] = <<a[i]>>
    BY <1>1, <1>10, IsASeq
  <1>12. f.lines = ls /\ f.open = FALSE /\ f = [lines |-> ls, open |-> FALSE]
    BY <1>4
  <1> HIDE DEF ls
  <1>13. Shaped(f)
    BY <1>11, <1>12 DEF Shaped
  <1>14. ~f.open /\ Holds(f, n, a)
    BY <1>11, <1>12, Zenon DEF Holds
  <1>15. Sound(f) /\ Records(f) = S
    BY <1>1, <1>9, <1>13, <1>14, LinesSound
  <1>16. QED
    BY <1>14, <1>15 DEF f

-----------------------------------------------------------------------------
(* The two files nothing repairs: a torn end makes what is written next     *)
(* unreadable, but takes nothing away.                                      *)

Tailed(f) ==
    /\ Shaped(f)
    /\ f.open => /\ f.lines # <<>>
                 /\ f.lines[Len(f.lines)] # <<>>
                 /\ ~Parses(f.lines[Len(f.lines)])

LEMMA EmptyFile == Tailed(NoFile) /\ Records(NoFile) = {} /\ ~NoFile.open
  <1>1. NoFile.lines = <<>> /\ NoFile.open = FALSE /\ DOMAIN NoFile.lines = {}
    BY DEF NoFile
  <1>2. Shaped(NoFile)
    BY EmptySeq DEF NoFile, Shaped
  <1>3. DOMAIN NoFile.lines \ BadLines(NoFile) = {}
    BY <1>1
  <1>4. QED
    BY <1>1, <1>2, <1>3 DEF Tailed, Records

LEMMA PutTailed ==
    ASSUME NEW f, Tailed(f), NEW e \in Epochs, NEW t \in Int, NEW ended \in BOOLEAN,
           Magnitude(t) = e, t < 0 <=> ~ended
    PROVE  LET g == Put(f, t, ended)
           IN  /\ Tailed(g) /\ g.open = ~ended
               /\ Records(f) \subseteq Records(g)
               /\ Records(g) \subseteq Records(f) \union {e}
               /\ ~f.open => Records(g) = IF ended THEN Records(f) \union {e} ELSE Records(f)
  <1> DEFINE g == Put(f, t, ended)
             n == Len(f.lines)
  <1>1. /\ f.lines \in Seq(Seq(Int)) /\ n \in Nat /\ DOMAIN f.lines = 1 .. n
        /\ \A i \in 1 .. n : f.lines[i] \in Seq(Int) /\ Len(f.lines[i]) \in Nat
        /\ f.lines # <<>> => n > 0
    BY Shapes DEF Tailed
  <1>2. Shaped(f)
    BY DEF Tailed
  <1>3. Records(f) = {f.lines[i][1] : i \in {j \in 1 .. n : Parses(f.lines[j])}}
    <2>1. DOMAIN f.lines \ BadLines(f) = {j \in 1 .. n : Parses(f.lines[j])}
      BY <1>1 DEF BadLines
    <2>2. QED
      BY <2>1, Zenon DEF Records
  <1>4. CASE ~f.open
    <2>1. /\ Shaped(g) /\ g.open = ~ended /\ Len(g.lines) = n + 1
          /\ \A i \in 1 .. n : g.lines[i] = f.lines[i]
          /\ g.lines[n + 1] = <<t>>
      BY <1>2, <1>4, PutClosed
    <2> HIDE DEF g
    <2>2. DOMAIN g.lines = 1 .. n + 1 /\ (g.lines # <<>>)
      <3>1. DOMAIN g.lines = 1 .. n + 1
        BY <2>1, Shapes
      <3>2. n + 1 > 0
        BY <1>1
      <3>3. QED
        BY <2>1, <3>1, <3>2
    <2>3. Parses(g.lines[n + 1]) <=> ended
      <3>1. Len(<<t>>) = 1 /\ <<t>>[1] = t
        OBVIOUS
      <3>2. t > 0 <=> ended
        BY LastIsNat DEF Epochs, Magnitude
      <3>3. QED
        BY <2>1, <3>1, <3>2 DEF Parses
    <2>4. Tailed(g)
      <3>1. g.open => ~Parses(g.lines[n + 1])
        BY <2>1, <2>3
      <3>2. g.lines[n + 1] # <<>>
        BY <2>1
      <3>3. QED
        BY <2>1, <2>2, <3>1, <3>2, Zenon DEF Tailed
    <2>5. Records(g) = {g.lines[i][1] : i \in {j \in 1 .. n + 1 : Parses(g.lines[j])}}
      <3>1. DOMAIN g.lines \ BadLines(g) = {j \in 1 .. n + 1 : Parses(g.lines[j])}
        BY <2>2 DEF BadLines
      <3>2. QED
        BY <3>1, Zenon DEF Records
    <2>6. \A i \in 1 .. n + 1 : i \in 1 .. n \/ i = n + 1
      BY <1>1
    <2>7. 1 .. n \subseteq 1 .. n + 1 /\ n + 1 \in 1 .. n + 1
      BY <1>1
    <2>8. Records(f) \subseteq Records(g)
      <3>1. ASSUME NEW x \in Records(f) PROVE x \in Records(g)
        <4>1. PICK i \in 1 .. n : Parses(f.lines[i]) /\ x = f.lines[i][1]
          BY <1>3
        <4>2. Parses(g.lines[i]) /\ x = g.lines[i][1] /\ i \in 1 .. n + 1
          BY <2>1, <2>7, <4>1
        <4>3. QED
          BY <2>5, <4>2
      <3>2. QED
        BY <3>1
    <2>9. ASSUME NEW x \in Records(g) PROVE x \in Records(f) \/ (ended /\ x = e)
      <3>1. PICK i \in 1 .. n + 1 : Parses(g.lines[i]) /\ x = g.lines[i][1]
        BY <2>5
      <3>2. CASE i = n + 1
        <4>1. ended
          BY <2>3, <3>1, <3>2
        <4>2. x = t
          BY <2>1, <3>1, <3>2
        <4>3. t = e
          BY <4>1 DEF Magnitude
        <4>4. QED
          BY <4>1, <4>2, <4>3
      <3>3. CASE i \in 1 .. n
        BY <1>3, <2>1, <3>1, <3>3
      <3>4. QED
        BY <2>6, <3>2, <3>3
    <2>10. ended => e \in Records(g)
      <3>1. ASSUME ended PROVE e \in Records(g)
        <4>1. Parses(g.lines[n + 1]) /\ g.lines[n + 1][1] = t /\ t = e
          BY <2>1, <2>3, <3>1 DEF Magnitude
        <4>2. QED
          BY <2>5, <2>7, <4>1
      <3>2. QED
        BY <3>1
    <2>11. Records(g) = IF ended THEN Records(f) \union {e} ELSE Records(f)
      BY <2>8, <2>9, <2>10
    <2>12. QED
      BY <2>1, <2>4, <2>8, <2>9, <2>11, <1>4 DEF g
  <1>5. CASE f.open
    <2> DEFINE last == f.lines[n]
               long == Append(last, t)
    <2>1. n > 0 /\ last # <<>> /\ ~Parses(last) /\ last \in Seq(Int) /\ n \in 1 .. n
      BY <1>1, <1>5 DEF Tailed
    <2>2. long \in Seq(Int) /\ Len(long) = Len(last) + 1 /\ Len(last) \in Nat /\ Len(last) > 0
      BY <2>1, AppendProperties, LenProperties, EmptySeq
    <2> HIDE DEF last, long
    <2>3. ~Parses(long) /\ long # <<>>
      <3>1. Len(long) > 1 /\ Len(long) # 1 /\ Len(long) # 0
        BY <2>2
      <3>2. long # <<>>
        BY <3>1
      <3>3. QED
        BY <3>1, <3>2, Zenon DEF Parses
    <2>4. g = [lines |-> [f.lines EXCEPT ![n] = long], open |-> ~ended]
      BY <1>5 DEF Put, last, long
    <2>5. /\ [f.lines EXCEPT ![n] = long] \in Seq(Seq(Int))
          /\ Len([f.lines EXCEPT ![n] = long]) = n
          /\ \A j \in 1 .. n : [f.lines EXCEPT ![n] = long][j] = IF j = n THEN long ELSE f.lines[j]
      BY <1>1, <2>1, <2>2, ExceptSeq
    <2>6. /\ Shaped(g) /\ g.open = ~ended /\ Len(g.lines) = n
          /\ \A j \in 1 .. n : g.lines[j] = IF j = n THEN long ELSE f.lines[j]
      BY <2>4, <2>5 DEF Shaped
    <2> HIDE DEF g
    <2>7. DOMAIN g.lines = 1 .. n /\ g.lines # <<>> /\ g.lines[n] = long
      <3>1. DOMAIN g.lines = 1 .. n
        BY <2>6, Shapes
      <3>2. QED
        BY <2>1, <2>6, <3>1
    <2>8. Tailed(g)
      BY <2>3, <2>6, <2>7 DEF Tailed
    <2>9. \A j \in 1 .. n : /\ Parses(g.lines[j]) <=> Parses(f.lines[j])
                            /\ Parses(f.lines[j]) => g.lines[j] = f.lines[j]
      BY <2>1, <2>3, <2>6 DEF last
    <2>10. Records(g) = {g.lines[i][1] : i \in {j \in 1 .. n : Parses(g.lines[j])}}
      <3>1. DOMAIN g.lines \ BadLines(g) = {j \in 1 .. n : Parses(g.lines[j])}
        BY <2>7 DEF BadLines
      <3>2. QED
        BY <3>1, Zenon DEF Records
    <2>11. Records(g) = Records(f)
      BY <1>3, <2>9, <2>10
    <2>12. QED
      BY <1>5, <2>6, <2>8, <2>11 DEF g
  <1>6. QED
    BY <1>4, <1>5, <1>2 DEF Shaped

LEMMA CutTailed ==
    ASSUME NEW f, Tailed(f), NEW e \in Epochs,
           ~MayCutNewline, NEW g \in CutRecord(f, e, MayCutNewline)
    PROVE  /\ Tailed(g)
           /\ Records(f) \subseteq Records(g) /\ Records(g) \subseteq Records(f) \union {e}
  <1>1. e \in Nat /\ e > 0
    BY LastIsNat DEF Epochs
  <1>2. g \in {f, WriteRecord(f, e), Put(f, -e, FALSE)}
    BY Zenon DEF CutRecord
  <1>3. Magnitude(e) = e /\ Magnitude(-e) = e /\ ~(e < 0) /\ -e < 0 /\ e \in Int /\ -e \in Int
    BY <1>1 DEF Magnitude
  <1>4. CASE g = f
    BY <1>4
  <1>5. CASE g = WriteRecord(f, e)
    BY <1>3, <1>5, PutTailed DEF WriteRecord
  <1>6. CASE g = Put(f, -e, FALSE)
    BY <1>3, <1>6, PutTailed
  <1>7. QED
    BY <1>2, <1>4, <1>5, <1>6

LEMMA WriteTailed ==
    ASSUME NEW f, Tailed(f), NEW e \in Epochs
    PROVE  /\ Tailed(WriteRecord(f, e)) /\ ~WriteRecord(f, e).open
           /\ Records(f) \subseteq Records(WriteRecord(f, e))
           /\ Records(WriteRecord(f, e)) \subseteq Records(f) \union {e}
           /\ ~f.open => Records(WriteRecord(f, e)) = Records(f) \union {e}
  <1>1. Magnitude(e) = e /\ ~(e < 0) /\ e \in Int
    BY LastIsNat DEF Epochs, Magnitude
  <1>2. ASSUME NEW ended \in BOOLEAN, ended
        PROVE  /\ Tailed(Put(f, e, ended)) /\ ~Put(f, e, ended).open
               /\ Records(f) \subseteq Records(Put(f, e, ended))
               /\ Records(Put(f, e, ended)) \subseteq Records(f) \union {e}
               /\ ~f.open => Records(Put(f, e, ended)) = Records(f) \union {e}
    <2>1. e < 0 <=> ~ended
      BY <1>1, <1>2
    <2> DEFINE g == Put(f, e, ended)
    <2>2. /\ Tailed(g) /\ g.open = ~ended
          /\ Records(f) \subseteq Records(g)
          /\ Records(g) \subseteq Records(f) \union {e}
          /\ ~f.open => Records(g) = IF ended THEN Records(f) \union {e} ELSE Records(f)
      BY <1>1, <2>1, PutTailed
    <2> HIDE DEF g
    <2>3. ~g.open /\ (~f.open => Records(g) = Records(f) \union {e})
      BY <1>2, <2>2
    <2>4. QED
      BY <2>2, <2>3 DEF g
  <1>3. /\ Tailed(Put(f, e, TRUE)) /\ ~Put(f, e, TRUE).open
        /\ Records(f) \subseteq Records(Put(f, e, TRUE))
        /\ Records(Put(f, e, TRUE)) \subseteq Records(f) \union {e}
        /\ ~f.open => Records(Put(f, e, TRUE)) = Records(f) \union {e}
    BY <1>2, Zenon
  <1>4. QED
    BY <1>3, Zenon DEF WriteRecord

-----------------------------------------------------------------------------
(* The four files under every step.  A sync that is at work has repaired    *)
(* the two stores; what it is about to write lies after what they hold; a   *)
(* merge that is about to replace a store has read all of it.               *)

SyncPcs == {"idle", "rounds", "plan", "fetch", "write", "prepend", "unlink", "check", "done",
            "over"}
Excuses == {"none", "fault", "aged", "staging", "older", "interior", "killed", "damaged", "empty",
            "short"}
DogPcs  == {"idle", "look", "capture", "stage", "mark"}
Tags    == {"EMPTY", "GAP", "DISORDER", "NOBASELINE", "SHRANK", "REWOUND", "STALE", "CAPTURED",
            "CAPTUREFAILED"}

SyncType ==
    [pc : SyncPcs, allow : BOOLEAN, into : {"klines", "staging"}, tail : SUBSET Epochs,
     todo : SUBSET Epochs, batch : SUBSET Epochs, older : SUBSET Epochs, excuse : Excuses]
DogType == [pc : DogPcs, fails : SUBSET Tags, batch : SUBSET Epochs, holes : SUBSET Epochs]
MergeType == [pc : {"idle", "ready"}, result : SUBSET Epochs]

Typed ==
    /\ day \in 1 .. LastDay
    /\ sync \in SyncType /\ dog \in DogType /\ merge \in MergeType

Working == sync.pc \notin {"idle", "over"}
Below(S, T) == \A x \in S, y \in T : x < y

Fetching == sync.pc \in {"fetch", "write"} /\ sync.into = "klines"
Staging  == sync.pc \in {"fetch", "write"} /\ sync.into = "staging"

Filed ==
    /\ Sound(rounds) /\ Sound(klines) /\ Tailed(staging) /\ Tailed(held)
    /\ Working \/ ~MayLoseUnsynced => Records(rounds) # {}
    /\ Records(staging) \subseteq Epochs /\ Records(held) \subseteq Epochs
    /\ Working => ~rounds.open /\ ~klines.open
    /\ Staging => ~staging.open

Ordered ==
    /\ sync.pc = "rounds" => Below(Records(rounds), sync.todo)
    /\ sync.pc \in {"rounds", "plan", "fetch"} => sync.batch = {}
    /\ sync.pc = "write" => sync.batch # {} /\ Below(sync.batch, sync.todo)
    /\ Fetching => Below(Records(klines), sync.todo) /\ Below(Records(klines), sync.batch)

Merging ==
    merge.pc = "ready" => sync.pc = "idle" /\ Records(klines) \subseteq merge.result

Kept1 == Typed /\ Filed /\ Ordered /\ Merging

Grows ==
    /\ Records(rounds) \subseteq Records(rounds')
    /\ Records(klines) \subseteq Records(klines')
    /\ Records(held) \subseteq Records(held')

Calm == ~MayCutNewline /\ ~MayOverlap

\* What is on the disk for good is no more than what is there.
Secured ==
    MayLoseUnsynced =>
        /\ safe \in [rounds : Nat, klines : Nat, held : Nat]
        /\ safe.rounds <= OnDisk(rounds) /\ safe.klines <= OnDisk(klines)
        /\ safe.held <= OnDisk(held)

\* A power loss that takes more than the record that was being written.
Taken ==
    /\ MayLoseUnsynced /\ PowerLoss
    /\ rounds' \in Left(rounds, safe.rounds) /\ klines' \in Left(klines, safe.klines)
    /\ held' \in Left(held, safe.held) /\ staging' \in Left(staging, 0)

LEMMA RestTyped == Idle \in SyncType /\ NoDog \in DogType /\ NoMerge \in MergeType
  <1> DEFINE E == SUBSET Epochs
  <1>1. {} \in E
    BY Zenon
  <1> HIDE DEF E
  <1>0. "idle" \in SyncPcs /\ "idle" \in DogPcs /\ "none" \in Excuses
    BY DEF SyncPcs, DogPcs, Excuses
  <1>2. Idle \in [pc : SyncPcs, allow : BOOLEAN, into : {"klines", "staging"}, tail : E,
                   todo : E, batch : E, older : E, excuse : Excuses]
    <2>1. \A x \in E :
             [pc |-> "idle", allow |-> FALSE, into |-> "klines", tail |-> x, todo |-> x,
              batch |-> x, older |-> x, excuse |-> "none"] \in
             [pc : SyncPcs, allow : BOOLEAN, into : {"klines", "staging"}, tail : E,
              todo : E, batch : E, older : E, excuse : Excuses]
      BY <1>0
    <2>2. QED
      BY <1>1, <2>1, Zenon DEF Idle
  <1>3. NoDog \in [pc : DogPcs, fails : SUBSET Tags, batch : E, holes : E]
    <2>1. {} \in SUBSET Tags
      BY Zenon
    <2>2. \A y \in SUBSET Tags, x \in E :
             [pc |-> "idle", fails |-> y, batch |-> x, holes |-> x] \in
             [pc : DogPcs, fails : SUBSET Tags, batch : E, holes : E]
      BY <1>0
    <2>3. QED
      BY <1>1, <2>1, <2>2, Zenon DEF NoDog
  <1>4. NoMerge \in [pc : {"idle", "ready"}, result : E]
    <2>1. \A x \in E : [pc |-> "idle", result |-> x] \in [pc : {"idle", "ready"}, result : E]
      BY <1>0
    <2>2. QED
      BY <1>1, <2>1, Zenon DEF NoMerge
  <1>5. QED
    BY <1>2, <1>3, <1>4, Zenon DEF E, SyncType, DogType, MergeType

\* The parts of a sync that is at work.
LEMMA SyncParts ==
    ASSUME Typed
    PROVE  /\ sync.pc \in SyncPcs /\ sync.allow \in BOOLEAN /\ sync.into \in {"klines", "staging"}
           /\ sync.tail \subseteq Epochs /\ sync.todo \subseteq Epochs
           /\ sync.batch \subseteq Epochs /\ sync.older \subseteq Epochs /\ sync.excuse \in Excuses
           /\ dog.batch \subseteq Epochs /\ dog.holes \subseteq Epochs
           /\ merge.result \subseteq Epochs
           /\ 1 .. day \subseteq Epochs
           /\ Idle \in SyncType /\ NoDog \in DogType /\ NoMerge \in MergeType
  <1>1. sync \in SyncType /\ dog \in DogType /\ merge \in MergeType /\ 1 .. day \subseteq Epochs
    BY LastIsNat DEF Typed, Epochs
  <1>2. Idle \in SyncType /\ NoDog \in DogType /\ NoMerge \in MergeType
    BY RestTyped
  <1>3. /\ sync.pc \in SyncPcs /\ sync.allow \in BOOLEAN /\ sync.into \in {"klines", "staging"}
        /\ sync.tail \subseteq Epochs /\ sync.todo \subseteq Epochs
        /\ sync.batch \subseteq Epochs /\ sync.older \subseteq Epochs /\ sync.excuse \in Excuses
    BY <1>1 DEF SyncType
  <1>4. dog.batch \subseteq Epochs /\ dog.holes \subseteq Epochs /\ merge.result \subseteq Epochs
    BY <1>1 DEF DogType, MergeType
  <1>5. QED
    BY <1>1, <1>2, <1>3, <1>4

LEMMA InitKept == Init => Kept1
  <1> SUFFICES ASSUME Init PROVE Kept1
    OBVIOUS
  <1>0. /\ FirstDay \in Nat \ {0} /\ LastDay \in Nat /\ FirstDay <= LastDay
        /\ day = FirstDay /\ sync = Idle /\ dog = NoDog /\ merge = NoMerge
        /\ staging = NoFile /\ held = NoFile
    BY StoreAssumption DEF Init
  <1>1. Typed
    <2>1. day \in 1 .. LastDay
      BY <1>0
    <2>2. QED
      BY <1>0, <2>1, RestTyped DEF Typed
  <1>2. PICK first \in 1 .. FirstDay : rounds = FromEpochs(first .. FirstDay)
    BY DEF Init
  <1>3. first .. FirstDay \subseteq Epochs /\ FirstDay \in first .. FirstDay
    BY <1>0 DEF Epochs
  <1>4. Sound(rounds) /\ ~rounds.open /\ Records(rounds) = first .. FirstDay
    BY <1>2, <1>3, FromEpochsSound
  <1>5. PICK first2 \in Records(rounds), lack \in SUBSET Records(rounds) :
               klines = FromEpochs((first2 .. FirstDay) \ lack)
    BY DEF Init
  <1>6. (first2 .. FirstDay) \ lack \subseteq Epochs
    BY <1>0, <1>3, <1>4 DEF Epochs
  <1>7. Sound(klines) /\ ~klines.open
    BY <1>5, <1>6, FromEpochsSound
  <1>8. Tailed(NoFile) /\ Records(NoFile) = {}
    BY EmptyFile
  <1>9. sync.pc = "idle" /\ merge.pc = "idle"
    BY <1>0 DEF Idle, NoMerge
  <1>10. Filed
    BY <1>0, <1>3, <1>4, <1>7, <1>8, <1>9 DEF Filed, Staging, Working
  <1>11. Ordered /\ Merging
    BY <1>9 DEF Ordered, Merging, Fetching
  <1>12. QED
    BY <1>1, <1>10, <1>11 DEF Kept1

\* Steps that touch no file and leave the sync alone, or out of its work.
LEMMA FilesAlone ==
    ASSUME Kept1, Typed', UNCHANGED <<rounds, klines, staging, held>>,
           \/ UNCHANGED sync
           \/ sync'.pc \in {"idle", "over"}
           \/ Working /\ sync'.pc \in {"check", "done", "prepend"},
           UNCHANGED merge \/ merge'.pc # "ready",
           sync.pc # "idle" \/ UNCHANGED sync \/ merge'.pc # "ready"
    PROVE  Kept1' /\ Grows
  <1>1. Filed'
    <2>1. Working' => Working
      BY DEF Working
    <2>2. Staging' => Staging
      BY DEF Staging
    <2>3. QED
      BY <2>1, <2>2 DEF Kept1, Filed
  <1>2. Ordered'
    BY DEF Kept1, Ordered, Fetching
  <1>3. Merging'
    BY DEF Kept1, Merging, Working
  <1>4. QED
    BY <1>1, <1>2, <1>3 DEF Kept1, Grows

LEMMA SyncStartKeeps ==
    ASSUME Calm, Kept1, NEW allow \in BOOLEAN, SyncStart(allow)
    PROVE  /\ Kept1' /\ Grows
           /\ Records(rounds') = Records(rounds) /\ Records(klines') = Records(klines)
           /\ Scanned(klines') \subseteq Epochs
           /\ rounds' = RepairTornTail(rounds) /\ klines' = RepairTornTail(klines)
           /\ \/ /\ sync'.pc = "rounds" /\ sync'.excuse = "none" /\ sync'.todo = Due(rounds')
                 /\ Records(rounds) # {}
              \/ /\ sync'.pc = "over" /\ sync'.excuse = "empty" /\ sync'.todo = {}
                 /\ MayLoseUnsynced /\ rounds'.lines = <<>>
           /\ ~rounds'.open /\ sync'.tail = {} /\ sync'.older = {}
  <1>1. Sound(rounds) /\ Sound(klines) /\ Repairable(rounds) /\ Repairable(klines)
    BY SoundFile DEF Kept1, Filed
  <1>2. rounds' = RepairTornTail(rounds) /\ klines' = RepairTornTail(klines)
    BY <1>1 DEF SyncStart
  <1>3. /\ sync' = IF rounds'.lines = <<>>
                   THEN [Idle EXCEPT !.allow = allow, !.pc = "over", !.excuse = "empty"]
                   ELSE [Idle EXCEPT !.allow = allow, !.pc = "rounds", !.todo = Due(rounds')]
        /\ merge.pc = "idle" /\ UNCHANGED <<day, staging, held, dog, merge>>
    BY <1>1 DEF SyncStart, Calm
  <1>4. /\ Sound(rounds') /\ ~rounds'.open /\ Records(rounds') = Records(rounds)
        /\ Sound(klines') /\ ~klines'.open /\ Records(klines') = Records(klines)
    BY <1>1, <1>2, RepairSound
  <1>5. Typed /\ Due(rounds') \subseteq Epochs
    BY SyncParts DEF Kept1, Due
  <1>6. rounds'.lines = <<>> <=> Records(rounds) = {}
    BY <1>4, Ends
  <1>7. Records(rounds) = {} => MayLoseUnsynced
    BY DEF Kept1, Filed
  <1>8. Scanned(klines') \subseteq Epochs
    BY <1>4, HolesLieAfter
  <1>9. Grows /\ Merging'
    BY <1>3, <1>4 DEF Grows, Merging
  <1>10. CASE rounds'.lines = <<>>
    <2>1. /\ sync'.pc = "over" /\ sync'.into = "klines" /\ sync'.batch = {}
          /\ sync'.excuse = "empty" /\ sync'.todo = {} /\ sync'.tail = {} /\ sync'.older = {}
      BY <1>3, <1>10 DEF Idle
    <2>2. sync' \in SyncType
      BY <1>3, <1>10, SyncParts, <1>5 DEF SyncType, SyncPcs, Excuses
    <2>3. Typed'
      BY <1>3, <1>5, <2>2 DEF Typed
    <2>4. Filed'
      BY <1>3, <1>4, <1>6, <1>7, <2>1 DEF Kept1, Filed, Staging, Working
    <2>5. Ordered'
      BY <2>1 DEF Ordered, Fetching
    <2>6. QED
      BY <1>2, <1>4, <1>6, <1>7, <1>8, <1>9, <1>10, <2>1, <2>3, <2>4, <2>5 DEF Kept1
  <1>11. CASE rounds'.lines # <<>>
    <2>1. /\ sync'.pc = "rounds" /\ sync'.into = "klines" /\ sync'.batch = {}
          /\ sync'.excuse = "none" /\ sync'.todo = Due(rounds') /\ sync'.tail = {}
          /\ sync'.older = {}
      BY <1>3, <1>11 DEF Idle
    <2>2. sync' \in SyncType
      BY <1>3, <1>5, <1>11, SyncParts DEF SyncType, SyncPcs
    <2>3. Typed'
      BY <1>3, <1>5, <2>2 DEF Typed
    <2>4. Records(rounds') # {} /\ Records(rounds') \subseteq Epochs
      BY <1>4, <1>6, <1>11, SoundFile
    <2>5. Filed'
      BY <1>3, <1>4, <2>1, <2>4 DEF Kept1, Filed, Staging
    <2>6. Below(Records(rounds'), sync'.todo)
      <3>1. Latest(rounds') \in Records(rounds') /\ \A x \in Records(rounds') : x <= Latest(rounds')
        BY <1>4, <2>4, Ends
      <3>2. ASSUME NEW x \in Records(rounds'), NEW y \in sync'.todo PROVE x < y
        <4>1. y \in Nat /\ y > Latest(rounds') /\ x <= Latest(rounds') /\ x \in Nat
              /\ Latest(rounds') \in Nat
          BY <1>5, <2>1, <2>4, <3>1, <3>2, EpochsFinite DEF Due
        <4>2. QED
          BY <4>1
      <3>3. QED
        BY <3>2 DEF Below
    <2>7. Ordered'
      BY <2>1, <2>6 DEF Ordered, Fetching
    <2>8. QED
      BY <1>2, <1>4, <1>6, <1>8, <1>9, <1>11, <2>1, <2>3, <2>5, <2>7 DEF Kept1
  <1>12. QED
    BY <1>10, <1>11

LEMMA RoundsWriteKeeps ==
    ASSUME Kept1, RoundsWrite
    PROVE  /\ Kept1' /\ Grows
           /\ Least(sync.todo) \in sync.todo /\ \A y \in sync.todo : Least(sync.todo) <= y
           /\ Records(rounds') = Records(rounds) \union {Least(sync.todo)}
           /\ sync' = [sync EXCEPT !.todo = @ \ {Least(@)}]
  <1> DEFINE e == Least(sync.todo)
  <1>1. /\ sync.pc = "rounds" /\ sync.todo # {} /\ sync.todo \subseteq Epochs
        /\ Typed /\ Filed /\ Ordered /\ Merging
    BY SyncParts DEF Kept1, RoundsWrite
  <1>2. e \in sync.todo /\ \A y \in sync.todo : e <= y
    BY <1>1, LeastIs, EpochsFinite
  <1>3. Sound(rounds) /\ ~rounds.open /\ e \in Epochs /\ \A x \in Records(rounds) : x < e
    BY <1>1, <1>2 DEF Filed, Ordered, Below, Working
  <1>4. /\ rounds' = WriteRecord(rounds, e) /\ sync' = [sync EXCEPT !.todo = sync.todo \ {e}]
        /\ UNCHANGED <<day, klines, staging, held, dog, merge>>
    BY DEF RoundsWrite
  <1>5. Sound(rounds') /\ ~rounds'.open /\ Records(rounds') = Records(rounds) \union {e}
    BY <1>3, <1>4, WriteSound
  <1>6. /\ sync'.pc = "rounds" /\ sync'.batch = sync.batch /\ sync'.todo = sync.todo \ {e}
    BY <1>1, <1>4 DEF Typed, SyncType
  <1> HIDE DEF e
  <1>7. Typed'
    <2>1. sync' \in SyncType
      BY <1>1, <1>4 DEF Typed, SyncType
    <2>2. QED
      BY <1>1, <1>4, <2>1 DEF Typed
  <1>8. Filed'
    BY <1>1, <1>4, <1>5, <1>6 DEF Filed, Staging, Working
  <1>9. Below(Records(rounds'), sync'.todo)
    <2>1. ASSUME NEW x \in Records(rounds'), NEW y \in sync'.todo PROVE x < y
      <3>1. y \in sync.todo /\ y # e /\ e <= y /\ y \in Nat /\ e \in Nat
        BY <1>1, <1>2, <1>3, <1>6, <2>1, EpochsFinite
      <3>2. CASE x = e
        BY <3>1, <3>2
      <3>3. CASE x \in Records(rounds)
        BY <1>1, <3>1, <3>3 DEF Ordered, Below
      <3>4. QED
        BY <1>5, <2>1, <3>2, <3>3
    <2>2. QED
      BY <2>1 DEF Below
  <1>10. Ordered'
    BY <1>1, <1>6, <1>9 DEF Ordered, Fetching
  <1>11. Merging'
    BY <1>1, <1>4 DEF Merging
  <1>12. Grows
    BY <1>4, <1>5 DEF Grows
  <1>13. QED
    BY <1>2, <1>4, <1>5, <1>7, <1>8, <1>10, <1>11, <1>12 DEF Kept1, e

\* The backfill replaces the file by all it held and what comes right before it.
LEMMA BackfillIs ==
    ASSUME NEW f, Sound(f), ~f.open, Records(f) # {}, Earliest(f) > 1
    PROVE  LET g == Backfill(f)
           IN  /\ Sound(g) /\ ~g.open /\ Records(f) \subseteq Records(g)
               /\ \A x \in Records(g) \ Records(f) : x < Earliest(f) /\ x \in Epochs
               /\ \A x \in Records(g), y \in Epochs : x < y /\ y < Earliest(f) => y \in Records(g)
  <1> DEFINE have  == Records(f)
             first == Earliest(f)
             n     == CacheN - Cardinality(have)
             older == Newest(1 .. first - 1, n)
  <1>1. have \subseteq Epochs /\ first \in have /\ \A x \in have : first <= x
    BY SoundFile, Ends
  <1>2. first \in Nat /\ first <= LastDay /\ have \subseteq Nat
    BY <1>1, EpochsFinite DEF Epochs
  <1>3. n \in Int
    BY <1>1, EpochsFinite, StoreAssumption
  <1>4. 1 .. first - 1 \in SUBSET Epochs
    BY <1>2, LastIsNat DEF Epochs
  <1> HIDE DEF n
  <1>5. /\ older \subseteq 1 .. first - 1
        /\ \A e \in older, x \in 1 .. first - 1 : e < x => x \in older
    BY <1>3, <1>4, NewestIs
  <1> HIDE DEF older, first, have
  <1>6. older \union have \subseteq Epochs
    BY <1>1, <1>4, <1>5
  <1>7. Backfill(f) = FromEpochs(older \union have)
    BY DEF Backfill, older, have, first, n
  <1>8. /\ Sound(Backfill(f)) /\ ~Backfill(f).open /\ Records(Backfill(f)) = older \union have
    BY <1>6, <1>7, FromEpochsSound
  <1>9. \A x \in older : x < first /\ x \in Epochs
    BY <1>2, <1>4, <1>5
  <1>10. ASSUME NEW x \in older \union have, NEW y \in Epochs, x < y, y < first
         PROVE  y \in older
    <2>1. x \in Nat /\ y \in Nat /\ y \in 1 .. first - 1
      <3>1. x \in Epochs /\ x \in Nat
        BY <1>6, <1>10, EpochsFinite
      <3>2. y \in 1 .. LastDay
        BY DEF Epochs
      <3>3. QED
        BY <1>2, <1>10, <3>1, <3>2
    <2>2. x \notin have
      <3>1. x \in have => first <= x
        BY <1>1
      <3>2. QED
        BY <1>2, <1>10, <2>1, <3>1
    <2>3. QED
      BY <1>5, <1>10, <2>1, <2>2
  <1>11. QED
    BY <1>8, <1>9, <1>10 DEF have, first

\* The backfill that cannot find enough rounds ends the run and changes no file.
Short == Needed > 0 /\ sync.allow /\ Needed >= Earliest(rounds)

LEMMA RoundsDoneKeeps ==
    ASSUME Kept1, RoundsDone
    PROVE  /\ Kept1' /\ Grows
           /\ rounds' = rounds \/ (Earliest(rounds) > 1 /\ rounds' = Backfill(rounds))
           /\ \/ Short /\ sync' = Fail("short") /\ rounds' = rounds
              \/ sync' = [sync EXCEPT !.pc = "plan", !.tail = Newest(Records(rounds'), CacheN)]
           /\ Newest(Records(rounds'), CacheN) \subseteq Records(rounds')
  <1>1. /\ sync.pc = "rounds" /\ sync.todo = {} /\ Typed /\ Filed /\ Ordered /\ Merging
        /\ UNCHANGED <<day, klines, staging, held, dog, merge>>
    BY DEF Kept1, RoundsDone
  <1>3. Sound(rounds) /\ ~rounds.open /\ Records(rounds) # {}
    BY <1>1 DEF Filed, Working
  <1>2. rounds' = rounds \/ (Earliest(rounds) > 1 /\ rounds' = Backfill(rounds))
    <2>1. Earliest(rounds) \in Epochs /\ CacheN \in Nat /\ Cardinality(Records(rounds)) \in Nat
      BY <1>3, Ends, SoundFile, StoreAssumption, EpochsFinite, FS_Subset, FS_CardinalityType
    <2>2. Earliest(rounds) \in Nat /\ Needed \in Int
      BY <2>1, EpochsFinite DEF Needed
    <2>3. Needed > 0 /\ Needed < Earliest(rounds) => Earliest(rounds) > 1
      BY <2>2
    <2>4. QED
      BY <2>3 DEF RoundsDone
  <1>0. \/ Short /\ sync' = Fail("short") /\ rounds' = rounds
        \/ sync' = [sync EXCEPT !.pc = "plan", !.tail = Newest(Records(rounds'), CacheN)]
    <2>1. CASE Short
      <3>1. Earliest(rounds) \in Epochs /\ CacheN \in Nat /\ Cardinality(Records(rounds)) \in Nat
        BY <1>3, Ends, SoundFile, StoreAssumption, EpochsFinite, FS_Subset, FS_CardinalityType
      <3>2. Earliest(rounds) \in Nat /\ Needed \in Int
        BY <3>1, EpochsFinite DEF Needed
      <3>3. ~(Needed < Earliest(rounds))
        BY <2>1, <3>2 DEF Short
      <3>4. QED
        BY <2>1, <3>3 DEF RoundsDone, Short
    <2>2. CASE ~Short
      BY <2>2 DEF RoundsDone, Short
    <2>3. QED
      BY <2>1, <2>2
  <1>4. Sound(rounds') /\ ~rounds'.open /\ Records(rounds) \subseteq Records(rounds')
    <2>1. CASE rounds' = rounds
      BY <1>3, <2>1
    <2>2. CASE Earliest(rounds) > 1 /\ rounds' = Backfill(rounds)
      BY <1>3, <2>2, BackfillIs
    <2>3. QED
      BY <1>2, <2>1, <2>2
  <1>5. /\ Newest(Records(rounds'), CacheN) \subseteq Records(rounds')
        /\ Records(rounds') \subseteq Epochs
    BY <1>4, SoundFile, NewestIs, StoreAssumption
  <1>6. sync'.pc \in {"plan", "over"} /\ sync'.batch = sync.batch
    BY <1>0, <1>1 DEF Typed, SyncType, Fail
  <1>7. Typed'
    <2>1. sync' \in SyncType
      <3>1. CASE sync' = Fail("short")
        BY <1>1, <3>1 DEF Typed, Fail, SyncType, SyncPcs, Excuses
      <3>2. CASE sync' = [sync EXCEPT !.pc = "plan", !.tail = Newest(Records(rounds'), CacheN)]
        BY <1>1, <1>5, <3>2 DEF Typed, SyncType, SyncPcs
      <3>3. QED
        BY <1>0, <3>1, <3>2
    <2>2. QED
      BY <1>1, <2>1 DEF Typed
  <1>8. Filed'
    BY <1>1, <1>3, <1>4, <1>6 DEF Filed, Staging, Working
  <1>9. Ordered'
    BY <1>1, <1>6 DEF Ordered, Fetching
  <1>10. Merging'
    BY <1>1 DEF Merging
  <1>11. Grows
    BY <1>1, <1>4 DEF Grows
  <1>12. QED
    BY <1>0, <1>2, <1>5, <1>1, <1>7, <1>8, <1>9, <1>10, <1>11 DEF Kept1

\* What KlinesPlan appends lies after the store, what it prepends before it.
LEMMA PlanSplits ==
    ASSUME NEW f, Sound(f), ~f.open, NEW S \in SUBSET Epochs
    PROVE  /\ Below(Records(f), After(f, S)) /\ Below(Before(f, S), Records(f))
           /\ After(f, S) \subseteq S /\ Before(f, S) \subseteq S
           /\ \A e \in S : (\A x \in Records(f) : x < e) => e \in After(f, S)
           /\ \A e \in S : Records(f) # {} /\ (\A x \in Records(f) : e < x) => e \in Before(f, S)
  <1>1. /\ Records(f) = {} <=> f.lines = <<>>
        /\ Records(f) # {} =>
              /\ Earliest(f) \in Records(f) /\ \A x \in Records(f) : Earliest(f) <= x
              /\ Latest(f) \in Records(f) /\ \A x \in Records(f) : x <= Latest(f)
    BY Ends
  <1>2. Records(f) \subseteq Nat /\ S \subseteq Nat
    BY SoundFile, EpochsFinite
  <1>3. ASSUME NEW x \in Records(f), NEW e \in After(f, S) PROVE x < e
    <2>1. e \in S /\ e > Latest(f) /\ x <= Latest(f) /\ Latest(f) \in Records(f)
      BY <1>1, <1>3 DEF After
    <2>2. e \in Nat /\ x \in Nat /\ Latest(f) \in Nat
      BY <1>2, <2>1
    <2>3. QED
      BY <2>1, <2>2
  <1>4. ASSUME NEW x \in Records(f), NEW e \in Before(f, S) PROVE e < x
    <2>1. e \in S /\ e < Earliest(f) /\ Earliest(f) <= x /\ Earliest(f) \in Records(f)
      BY <1>1, <1>4 DEF Before
    <2>2. e \in Nat /\ x \in Nat /\ Earliest(f) \in Nat
      BY <1>2, <2>1
    <2>3. QED
      BY <2>1, <2>2
  <1>5. ASSUME NEW e \in S, \A x \in Records(f) : x < e PROVE e \in After(f, S)
    <2>1. CASE f.lines = <<>>
      BY <2>1 DEF After
    <2>2. CASE f.lines # <<>>
      <3>1. Latest(f) \in Records(f) /\ Latest(f) < e
        BY <1>1, <1>5, <2>2
      <3>2. e \in Nat /\ Latest(f) \in Nat
        BY <1>2, <3>1
      <3>3. QED
        BY <3>1, <3>2 DEF After
    <2>3. QED
      BY <2>1, <2>2
  <1>6. ASSUME NEW e \in S, Records(f) # {}, \A x \in Records(f) : e < x PROVE e \in Before(f, S)
    <2>1. f.lines # <<>> /\ e < Earliest(f)
      BY <1>1, <1>6
    <2>2. QED
      BY <2>1 DEF Before
  <1>7. After(f, S) \subseteq S /\ Before(f, S) \subseteq S
    BY DEF After, Before
  <1>8. QED
    BY <1>3, <1>4, <1>5, <1>6, <1>7 DEF Below

LEMMA KlinesPlanKeeps ==
    ASSUME Kept1, KlinesPlan
    PROVE  /\ Kept1' /\ Grows
           /\ LET remaining == sync.tail \ Records(klines)
                  append    == After(klines, remaining)
                  older     == Before(klines, remaining)
              IN sync' = [sync EXCEPT
                   !.pc = IF remaining = {} THEN "check" ELSE "fetch",
                   !.into = "klines", !.todo = append, !.older = older,
                   !.excuse = IF older # {} /\ ~sync.allow THEN "older"
                              ELSE IF remaining \ (append \union older) # {} THEN "interior"
                              ELSE @]
           /\ Below(Records(klines), sync'.todo) /\ Below(sync'.older, Records(klines))
  <1> DEFINE remaining == sync.tail \ Records(klines)
             append    == After(klines, remaining)
             older     == Before(klines, remaining)
             excuse    == IF older # {} /\ ~sync.allow THEN "older"
                          ELSE IF remaining \ (append \union older) # {} THEN "interior"
                          ELSE sync.excuse
             pc        == IF remaining = {} THEN "check" ELSE "fetch"
  <1>1. /\ sync.pc = "plan" /\ Typed /\ Filed /\ Ordered /\ Merging
        /\ UNCHANGED <<day, rounds, klines, staging, held, dog, merge>>
    BY DEF Kept1, KlinesPlan, files
  <1>2. sync' = [sync EXCEPT !.pc = pc, !.into = "klines", !.todo = append, !.older = older,
                             !.excuse = excuse]
    BY DEF KlinesPlan
  <1>3. remaining \subseteq Epochs /\ sync.excuse \in Excuses
    BY <1>1, SyncParts
  <1>4. Sound(klines) /\ ~klines.open
    BY <1>1 DEF Filed, Working
  <1>5. /\ Below(Records(klines), append) /\ Below(older, Records(klines))
        /\ append \subseteq remaining /\ older \subseteq remaining
    BY <1>3, <1>4, PlanSplits
  <1>6. excuse \in Excuses /\ pc \in {"check", "fetch"}
    BY <1>3 DEF Excuses
  <1> HIDE DEF remaining, append, older, excuse, pc
  <1>7. /\ sync'.pc = pc /\ sync'.into = "klines" /\ sync'.todo = append /\ sync'.older = older
        /\ sync'.batch = sync.batch
    BY <1>1, <1>2 DEF Typed, SyncType
  <1>8. Typed'
    <2>1. append \subseteq Epochs /\ older \subseteq Epochs /\ pc \in SyncPcs
      BY <1>3, <1>5, <1>6 DEF SyncPcs
    <2>2. sync' \in SyncType
      BY <1>1, <1>2, <1>6, <2>1 DEF Typed, SyncType
    <2>3. QED
      BY <1>1, <2>2 DEF Typed
  <1>9. Filed'
    BY <1>1, <1>4, <1>6, <1>7 DEF Filed, Staging, Working
  <1>10. Ordered'
    BY <1>1, <1>5, <1>6, <1>7 DEF Ordered, Fetching, Below
  <1>11. Merging'
    BY <1>1 DEF Merging
  <1>12. Grows
    BY <1>1 DEF Grows
  <1>13. QED
    BY <1>2, <1>5, <1>7, <1>8, <1>9, <1>10, <1>11, <1>12
       DEF Kept1, remaining, append, older, excuse, pc

LEMMA FetchBatchKeeps ==
    ASSUME Kept1, FetchBatch
    PROVE  /\ Kept1' /\ Grows
           /\ \/ sync'.pc = "over" /\ sync'.excuse # "none"
              \/ /\ sync'.pc = "write" /\ UNCHANGED <<sync.allow, sync.into, sync.tail, sync.older,
                                                      sync.excuse>>
                 /\ sync'.todo \union sync'.batch = sync.todo
  <1> DEFINE batch == Oldest(sync.todo, BatchSize)
  <1>1. /\ sync.pc = "fetch" /\ sync.todo # {} /\ Typed /\ Filed /\ Ordered /\ Merging
        /\ UNCHANGED <<day, rounds, klines, staging, held, dog, merge>>
    BY DEF Kept1, FetchBatch, files
  <1>2. \/ sync' = Fail("fault") \/ sync' = Fail("aged")
        \/ sync' = [sync EXCEPT !.pc = "write", !.batch = batch, !.todo = sync.todo \ batch]
    BY DEF FetchBatch
  <1>3. sync.todo \subseteq Epochs
    BY <1>1, SyncParts
  <1>4. /\ batch \subseteq sync.todo /\ batch # {}
        /\ \A e \in batch, x \in sync.todo : x < e => x \in batch
    BY <1>1, <1>3, OldestIs, StoreAssumption
  <1> HIDE DEF batch
  <1>5. CASE sync' = Fail("fault") \/ sync' = Fail("aged")
    <2>1. sync' \in SyncType /\ sync'.pc = "over" /\ sync'.excuse # "none"
      BY <1>1, <1>5 DEF Typed, Fail, SyncType, SyncPcs, Excuses
    <2>2. Typed'
      BY <1>1, <2>1 DEF Typed
    <2>3. QED
      BY <1>1, <2>1, <2>2, FilesAlone
  <1>6. CASE sync' = [sync EXCEPT !.pc = "write", !.batch = batch, !.todo = sync.todo \ batch]
    <2>1. /\ sync' \in SyncType /\ sync'.pc = "write" /\ sync'.batch = batch
          /\ sync'.todo = sync.todo \ batch
          /\ UNCHANGED <<sync.allow, sync.into, sync.tail, sync.older, sync.excuse>>
      BY <1>1, <1>3, <1>4, <1>6 DEF Typed, SyncType, SyncPcs
    <2>2. Typed'
      BY <1>1, <2>1 DEF Typed
    <2>3. Filed'
      BY <1>1, <2>1 DEF Filed, Staging, Working
    <2>4. Below(batch, sync.todo \ batch)
      <3>1. ASSUME NEW x \in batch, NEW y \in sync.todo \ batch PROVE x < y
        <4>1. ~(y < x) /\ x # y /\ x \in Nat /\ y \in Nat
          BY <1>3, <1>4, <3>1, EpochsFinite
        <4>2. QED
          BY <4>1
      <3>2. QED
        BY <3>1 DEF Below
    <2>5. Ordered'
      BY <1>1, <1>4, <2>1, <2>4 DEF Ordered, Fetching, Below
    <2>6. Merging'
      BY <1>1 DEF Merging
    <2>7. Grows
      BY <1>1 DEF Grows
    <2>8. sync'.todo \union sync'.batch = sync.todo
      BY <1>4, <2>1
    <2>9. QED
      BY <2>1, <2>2, <2>3, <2>5, <2>6, <2>7, <2>8 DEF Kept1
  <1>7. QED
    BY <1>2, <1>5, <1>6

LEMMA WriteBatchKeeps ==
    ASSUME Kept1, WriteBatch
    PROVE  /\ Kept1' /\ Grows
           /\ Least(sync.batch) \in sync.batch
           /\ sync'.batch = sync.batch \ {Least(sync.batch)}
           /\ sync'.pc \in {"fetch", "write"} /\ (sync'.pc = "fetch" => sync'.batch = {})
           /\ UNCHANGED <<sync.allow, sync.into, sync.tail, sync.older, sync.excuse, sync.todo>>
           /\ IF sync.into = "klines"
              THEN Records(klines') = Records(klines) \union {Least(sync.batch)}
                   /\ staging' = staging
              ELSE Records(staging') = Records(staging) \union {Least(sync.batch)}
                   /\ klines' = klines
  <1> DEFINE e  == Least(sync.batch)
             pc == IF sync.batch = {e} THEN "fetch" ELSE "write"
  <1>1. /\ sync.pc = "write" /\ sync.batch # {} /\ sync.batch \subseteq Epochs
        /\ Typed /\ Filed /\ Ordered /\ Merging
        /\ UNCHANGED <<day, rounds, held, dog, merge>>
    BY SyncParts DEF Kept1, WriteBatch, Ordered
  <1>2. e \in sync.batch /\ \A y \in sync.batch : e <= y
    BY <1>1, LeastIs, EpochsFinite
  <1>3. sync' = [sync EXCEPT !.batch = sync.batch \ {e}, !.pc = pc] /\ Into(WriteRecord(Target, e))
    BY <1>1 DEF WriteBatch
  <1>4. pc \in {"fetch", "write"} /\ (pc = "fetch" <=> sync.batch = {e})
    OBVIOUS
  <1> HIDE DEF e, pc
  <1>5. /\ sync'.pc = pc /\ sync'.batch = sync.batch \ {e}
        /\ UNCHANGED <<sync.allow, sync.into, sync.tail, sync.older, sync.excuse, sync.todo>>
        /\ sync.into \in {"klines", "staging"}
    BY <1>1, <1>3 DEF Typed, SyncType
  <1>6. Typed'
    <2>1. sync' \in SyncType
      BY <1>1, <1>3, <1>4 DEF Typed, SyncType, SyncPcs
    <2>2. QED
      BY <1>1, <2>1 DEF Typed
  <1>7. pc = "write" => sync.batch \ {e} # {}
    BY <1>1, <1>2, <1>4
  <1>8. Below(sync.batch, sync.todo) /\ \A y \in sync.batch \ {e} : e < y
    <2>1. \A y \in sync.batch \ {e} : e < y
      BY <1>1, <1>2, EpochsFinite
    <2>2. QED
      BY <1>1, <2>1 DEF Ordered
  <1>9. Merging'
    BY <1>1 DEF Merging
  <1>10. CASE sync.into = "klines"
    <2>1. klines' = WriteRecord(klines, e) /\ staging' = staging
      BY <1>3, <1>10 DEF Into, Target
    <2>2. Sound(klines) /\ ~klines.open /\ e \in Epochs /\ \A x \in Records(klines) : x < e
      BY <1>1, <1>2, <1>10 DEF Filed, Ordered, Below, Working, Fetching
    <2>3. Sound(klines') /\ ~klines'.open /\ Records(klines') = Records(klines) \union {e}
      BY <2>1, <2>2, WriteSound
    <2>4. Filed'
      BY <1>1, <1>4, <1>5, <1>10, <2>1, <2>3 DEF Filed, Staging, Working
    <2>5. Below(Records(klines'), sync.todo) /\ Below(Records(klines'), sync.batch \ {e})
      BY <1>1, <1>2, <1>8, <1>10, <2>3 DEF Ordered, Below, Fetching
    <2>6. Ordered'
      <3>1. pc = "fetch" => sync.batch \ {e} = {}
        BY <1>4
      <3>2. Below(sync.batch \ {e}, sync.todo)
        BY <1>8 DEF Below
      <3>3. QED
        BY <1>4, <1>5, <1>7, <2>5, <3>1, <3>2 DEF Ordered, Fetching
    <2>7. Grows
      BY <1>1, <2>3 DEF Grows
    <2>8. QED
      BY <1>2, <1>4, <1>5, <1>6, <1>9, <1>10, <2>1, <2>3, <2>4, <2>6, <2>7 DEF Kept1, e
  <1>11. CASE sync.into # "klines"
    <2>1. staging' = WriteRecord(staging, e) /\ klines' = klines /\ sync.into = "staging"
      BY <1>3, <1>5, <1>11 DEF Into, Target
    <2>2. Tailed(staging) /\ ~staging.open /\ e \in Epochs /\ Records(staging) \subseteq Epochs
      BY <1>1, <1>2, <2>1 DEF Filed, Staging
    <2>3. Tailed(staging') /\ ~staging'.open /\ Records(staging') = Records(staging) \union {e}
      BY <2>1, <2>2, WriteTailed
    <2>4. Filed'
      BY <1>1, <1>4, <1>5, <2>1, <2>2, <2>3 DEF Filed, Staging, Working
    <2>5. Ordered'
      <3>1. pc = "fetch" => sync.batch \ {e} = {}
        BY <1>4
      <3>2. Below(sync.batch \ {e}, sync.todo)
        BY <1>8 DEF Below
      <3>3. QED
        BY <1>4, <1>5, <1>7, <1>11, <3>1, <3>2 DEF Ordered, Fetching
    <2>6. Grows
      BY <1>1, <2>1 DEF Grows
    <2>7. QED
      BY <1>2, <1>4, <1>5, <1>6, <1>9, <1>11, <2>1, <2>3, <2>4, <2>5, <2>6 DEF Kept1, e
  <1>12. QED
    BY <1>10, <1>11

\* A torn staging file cannot be read; the sync then fails, so it never writes after
\* the torn line.
LEMMA NextPassKeeps ==
    ASSUME Kept1, NextPass
    PROVE  /\ Kept1' /\ Grows
           /\ sync.todo = {} /\ sync.pc = "fetch"
           /\ \/ sync.into = "staging" /\ sync' = [sync EXCEPT !.pc = "prepend"]
              \/ /\ sync.into = "klines" /\ (sync.older = {} \/ ~sync.allow)
                 /\ sync' = [sync EXCEPT !.pc = "check"]
              \/ sync' = Fail("staging")
              \/ /\ sync.into = "klines" /\ sync.older # {} /\ sync.allow
                 /\ sync' = [sync EXCEPT !.into = "staging",
                                         !.todo = sync.older \ Records(staging)]
  <1>1. /\ sync.pc = "fetch" /\ sync.todo = {} /\ Typed /\ Filed /\ Ordered /\ Merging
        /\ UNCHANGED <<day, rounds, klines, staging, held, dog, merge>>
    BY DEF Kept1, NextPass, files
  <1>2. sync.into \in {"klines", "staging"} /\ sync.older \subseteq Epochs /\ sync.allow \in BOOLEAN
    BY <1>1, SyncParts
  <1>3. \/ sync.into = "staging" /\ sync' = [sync EXCEPT !.pc = "prepend"]
        \/ /\ sync.into = "klines" /\ (sync.older = {} \/ ~sync.allow)
           /\ sync' = [sync EXCEPT !.pc = "check"]
        \/ sync' = Fail("staging")
        \/ /\ sync.into = "klines" /\ sync.older # {} /\ sync.allow /\ Readable(staging)
           /\ sync' = [sync EXCEPT !.into = "staging", !.todo = sync.older \ Records(staging)]
    BY <1>2 DEF NextPass
  <1>4. CASE \/ sync.into = "staging" /\ sync' = [sync EXCEPT !.pc = "prepend"]
             \/ /\ sync.into = "klines" /\ (sync.older = {} \/ ~sync.allow)
                /\ sync' = [sync EXCEPT !.pc = "check"]
             \/ sync' = Fail("staging")
    <2>1. sync' \in SyncType /\ sync'.pc \in {"prepend", "check", "over"}
      BY <1>1, <1>4 DEF Typed, Fail, SyncType, SyncPcs, Excuses
    <2>2. Typed'
      BY <1>1, <2>1 DEF Typed
    <2>3. Working
      BY <1>1 DEF Working
    <2>4. Kept1' /\ Grows
      BY <1>1, <2>1, <2>2, <2>3, FilesAlone
    <2>5. QED
      BY <1>1, <1>4, <2>4
  <1>5. CASE /\ sync.into = "klines" /\ sync.older # {} /\ sync.allow /\ Readable(staging)
             /\ sync' = [sync EXCEPT !.into = "staging", !.todo = sync.older \ Records(staging)]
    <2>1. /\ sync' \in SyncType /\ sync'.pc = "fetch" /\ sync'.into = "staging"
          /\ sync'.batch = sync.batch
      BY <1>1, <1>2, <1>5 DEF Typed, SyncType
    <2>2. Typed'
      BY <1>1, <2>1 DEF Typed
    <2>3. ~staging.open
      <3>1. Tailed(staging) /\ BadLines(staging) = {}
        BY <1>1, <1>5 DEF Filed, Readable
      <3>2. ASSUME staging.open PROVE FALSE
        <4>1. /\ Shaped(staging) /\ staging.lines # <<>>
              /\ ~Parses(staging.lines[Len(staging.lines)])
          BY <3>1, <3>2 DEF Tailed
        <4>2. Len(staging.lines) \in DOMAIN staging.lines
          BY <4>1, Shapes
        <4>3. QED
          BY <3>1, <4>1, <4>2 DEF BadLines
      <3>3. QED
        BY <3>2
    <2>4. Filed'
      BY <1>1, <2>1, <2>3 DEF Filed, Staging, Working
    <2>5. Ordered'
      BY <1>1, <2>1 DEF Ordered, Fetching
    <2>6. Merging' /\ Grows
      BY <1>1 DEF Merging, Grows
    <2>7. QED
      BY <1>1, <1>5, <2>2, <2>4, <2>5, <2>6 DEF Kept1
  <1>6. QED
    BY <1>3, <1>4, <1>5

LEMMA PrependKeeps ==
    ASSUME Kept1, Prepend
    PROVE  /\ Kept1' /\ Grows
           /\ Records(klines') = Records(staging) \union Records(klines)
           /\ sync' = [sync EXCEPT !.pc = "unlink"]
  <1>1. /\ sync.pc = "prepend" /\ Typed /\ Filed /\ Ordered /\ Merging
        /\ sync' = [sync EXCEPT !.pc = "unlink"]
        /\ klines' = FromEpochs(Records(staging) \union Records(klines))
        /\ UNCHANGED <<day, rounds, staging, held, dog, merge>>
    BY DEF Kept1, Prepend
  <1>2. Records(staging) \union Records(klines) \subseteq Epochs
    BY <1>1, SoundFile DEF Filed
  <1>3. /\ Sound(klines') /\ ~klines'.open
        /\ Records(klines') = Records(staging) \union Records(klines)
    BY <1>1, <1>2, FromEpochsSound
  <1>4. sync' \in SyncType /\ sync'.pc = "unlink"
    BY <1>1 DEF Typed, SyncType, SyncPcs
  <1>5. Typed'
    BY <1>1, <1>4 DEF Typed
  <1>6. Filed'
    BY <1>1, <1>3, <1>4 DEF Filed, Staging, Working
  <1>7. Ordered' /\ Merging'
    BY <1>1, <1>4 DEF Ordered, Fetching, Merging
  <1>8. Grows
    BY <1>1, <1>3 DEF Grows
  <1>9. QED
    BY <1>1, <1>3, <1>5, <1>6, <1>7, <1>8 DEF Kept1

LEMMA UnlinkKeeps ==
    ASSUME Kept1, Unlink
    PROVE  Kept1' /\ Grows
  <1>1. /\ sync.pc = "unlink" /\ Typed /\ Filed /\ Ordered /\ Merging
        /\ sync' = [sync EXCEPT !.pc = "check"]
        /\ staging' = NoFile
        /\ UNCHANGED <<day, rounds, klines, held, dog, merge>>
    BY DEF Kept1, Unlink
  <1>2. sync' \in SyncType /\ sync'.pc = "check"
    BY <1>1 DEF Typed, SyncType, SyncPcs
  <1>3. Typed'
    BY <1>1, <1>2 DEF Typed
  <1>4. Tailed(staging') /\ Records(staging') \subseteq Epochs
    BY <1>1, EmptyFile
  <1>5. Filed'
    BY <1>1, <1>2, <1>4 DEF Filed, Staging, Working
  <1>6. Ordered' /\ Merging' /\ Grows
    BY <1>1, <1>2 DEF Ordered, Fetching, Merging, Grows
  <1>7. QED
    BY <1>3, <1>5, <1>6 DEF Kept1

LEMMA DogStageKeeps ==
    ASSUME Kept1, DogStage
    PROVE  /\ Kept1' /\ Grows
           /\ Least(dog.batch) \in dog.batch
           /\ Records(held') \subseteq Records(held) \union {Least(dog.batch)}
           /\ dog' = [dog EXCEPT !.batch = @ \ {Least(@)}]
  <1> DEFINE e == Least(dog.batch)
  <1>1. /\ dog.batch # {} /\ dog.batch \subseteq Epochs /\ Typed /\ Filed /\ Ordered /\ Merging
        /\ held' = WriteRecord(held, e)
        /\ dog' = [dog EXCEPT !.batch = dog.batch \ {e}]
        /\ UNCHANGED <<day, rounds, klines, staging, sync, merge>>
    BY SyncParts DEF Kept1, DogStage
  <1>2. e \in dog.batch /\ e \in Epochs
    BY <1>1, LeastIs, EpochsFinite
  <1> HIDE DEF e
  <1>3. /\ Tailed(held') /\ Records(held) \subseteq Records(held')
        /\ Records(held') \subseteq Records(held) \union {e}
    BY <1>1, <1>2, WriteTailed DEF Filed
  <1>4. Typed'
    <2>1. dog' \in DogType
      BY <1>1 DEF Typed, DogType
    <2>2. QED
      BY <1>1, <2>1 DEF Typed
  <1>5. Records(held') \subseteq Epochs
    BY <1>1, <1>2, <1>3 DEF Filed
  <1>6. Filed'
    BY <1>1, <1>3, <1>5 DEF Filed, Staging, Working
  <1>7. Ordered' /\ Merging' /\ Grows
    BY <1>1, <1>3 DEF Ordered, Fetching, Merging, Grows
  <1>8. QED
    BY <1>1, <1>2, <1>3, <1>4, <1>6, <1>7 DEF Kept1, e

LEMMA VerdictsAreTags == Evaluate \subseteq Tags
  <1>1. Captured \subseteq Tags
    BY DEF Captured, Tags
  <1>2. QED
    BY <1>1 DEF Evaluate, Tags

\* The watchdog looks for what is missing in all of the store.
LEMMA MissingIs ==
    ASSUME Kept1
    PROVE  \A e \in Missing : e \in Epochs /\ e \notin gone /\ \E x \in Records(klines) : x < e
  <1>1. Sound(klines)
    BY DEF Kept1, Filed
  <1>2. \A e \in Holes(Scanned(klines)) : e \in Epochs /\ \E x \in Records(klines) : x < e
    BY <1>1, HolesLieAfter
  <1>3. QED
    BY <1>2 DEF Missing

LEMMA DogLookKeeps ==
    ASSUME Kept1, DogLook
    PROVE  Kept1' /\ Grows
  <1>1. /\ Typed
        /\ dog' = [dog EXCEPT !.pc = IF "GAP" \in Evaluate THEN "capture" ELSE "mark",
                              !.fails = Evaluate \union (IF Stale THEN {"STALE"} ELSE {}),
                              !.holes = Holes(Scanned(klines)) \ gone]
        /\ UNCHANGED <<day, rounds, klines, staging, held, sync, merge>>
    BY DEF Kept1, DogLook
  <1>2. Evaluate \union (IF Stale THEN {"STALE"} ELSE {}) \subseteq Tags
    BY VerdictsAreTags DEF Tags
  <1>3. Missing \subseteq Epochs /\ Missing = Holes(Scanned(klines)) \ gone
    BY MissingIs DEF Missing
  <1> DEFINE pc == IF "GAP" \in Evaluate THEN "capture" ELSE "mark"
             fails == Evaluate \union (IF Stale THEN {"STALE"} ELSE {})
  <1>4. pc \in DogPcs
    BY DEF DogPcs
  <1> HIDE DEF pc, fails
  <1>5. dog' = [dog EXCEPT !.pc = pc, !.fails = fails, !.holes = Missing]
    BY <1>1, <1>3 DEF pc, fails
  <1>6. dog' \in DogType
    <2>1. fails \in SUBSET Tags /\ Missing \in SUBSET Epochs
      BY <1>2, <1>3 DEF fails
    <2>2. QED
      BY <1>1, <1>4, <1>5, <2>1 DEF Typed, DogType
  <1>7. Typed'
    BY <1>1, <1>6 DEF Typed
  <1>8. QED
    BY <1>1, <1>7, FilesAlone

LEMMA PlannedIs ==
    ASSUME Kept1
    PROVE  /\ Planned \subseteq Epochs /\ Planned \subseteq Records(rounds)
           /\ \A e \in Planned : \E x \in Records(klines) : x < e
  <1> DEFINE P == {e \in Missing : e \notin Scanned(held) /\ e \in Records(rounds) /\ Served(e)}
  <1>1. P \subseteq Missing /\ P \subseteq Records(rounds)
    OBVIOUS
  <1>2. \A e \in Missing : e \in Epochs /\ \E x \in Records(klines) : x < e
    BY MissingIs
  <1>3. P \in SUBSET Epochs
    BY <1>1, <1>2
  <1>4. Planned = Oldest(P, CapturePerRun)
    BY DEF Planned
  <1> HIDE DEF P
  <1>5. Planned \subseteq P
    BY <1>3, <1>4, OldestIs, StoreAssumption
  <1>6. QED
    BY <1>1, <1>2, <1>5

LEMMA DogCaptureKeeps ==
    ASSUME Kept1, DogCapture
    PROVE  /\ Kept1' /\ Grows
           /\ dog'.batch \subseteq Planned
  <1>1. Typed /\ UNCHANGED <<day, rounds, klines, staging, held, sync, merge>>
    BY DEF Kept1, DogCapture
  <1>2. PICK lost \in SUBSET Planned :
           dog' = [dog EXCEPT !.pc = "stage", !.batch = Planned \ lost,
                              !.fails = @ \union (IF lost # {} THEN {"CAPTUREFAILED"} ELSE {})]
    BY DEF DogCapture
  <1>3. Planned \subseteq Epochs
    BY PlannedIs
  <1> DEFINE more == IF lost # {} THEN {"CAPTUREFAILED"} ELSE {}
  <1>4. more \subseteq Tags
    BY DEF Tags
  <1>5. dog' = [dog EXCEPT !.pc = "stage", !.batch = Planned \ lost,
                           !.fails = dog.fails \union more]
    BY <1>2
  <1> HIDE DEF more
  <1>6. dog' \in DogType /\ dog'.batch = Planned \ lost
    BY <1>1, <1>3, <1>4, <1>5 DEF Typed, DogType, DogPcs
  <1>7. Typed'
    BY <1>1, <1>6 DEF Typed
  <1>8. Kept1' /\ Grows
    BY <1>1, <1>7, FilesAlone
  <1>9. QED
    BY <1>6, <1>8

LEMMA MergeReadKeeps ==
    ASSUME Calm, Kept1, MergeRead
    PROVE  /\ Kept1' /\ Grows
           /\ sync.pc = "idle" /\ merge'.pc = "ready"
           /\ merge'.result = Records(klines) \union Records(held)
  <1>1. /\ Typed /\ Filed /\ Ordered /\ sync.pc = "idle"
        /\ merge' = [pc |-> "ready", result |-> Records(klines) \union Records(held)]
        /\ UNCHANGED <<day, rounds, klines, staging, held, sync, dog>>
    BY DEF Kept1, MergeRead, files, Calm
  <1>2. Records(klines) \union Records(held) \subseteq Epochs
    BY <1>1, SoundFile DEF Filed
  <1>3. /\ merge'.pc = "ready" /\ merge'.result = Records(klines) \union Records(held)
        /\ merge' \in MergeType
    BY <1>1, <1>2 DEF MergeType
  <1>4. Typed'
    BY <1>1, <1>3 DEF Typed
  <1>5. Filed'
    BY <1>1 DEF Filed, Staging, Working
  <1>6. Ordered' /\ Merging' /\ Grows
    BY <1>1, <1>3 DEF Ordered, Fetching, Merging, Grows
  <1>7. QED
    BY <1>1, <1>3, <1>4, <1>5, <1>6 DEF Kept1

LEMMA MergeWriteKeeps ==
    ASSUME Kept1, MergeWrite
    PROVE  /\ Kept1' /\ Grows
           /\ sync.pc = "idle" /\ Records(klines') = merge.result
  <1>1. /\ Typed /\ Filed /\ Ordered /\ sync.pc = "idle" /\ Records(klines) \subseteq merge.result
        /\ merge.pc = "ready"
        /\ merge' = NoMerge /\ klines' = FromEpochs(merge.result)
        /\ UNCHANGED <<day, rounds, staging, held, sync, dog>>
    BY DEF Kept1, MergeWrite, Merging
  <1>2. Sound(klines') /\ ~klines'.open /\ Records(klines') = merge.result
    BY <1>1, SyncParts, FromEpochsSound
  <1>3. Typed'
    BY <1>1, RestTyped DEF Typed
  <1>4. Filed'
    BY <1>1, <1>2 DEF Filed, Staging, Working
  <1>5. Ordered' /\ Merging' /\ Grows
    BY <1>1, <1>2 DEF Ordered, Fetching, Merging, Grows, NoMerge
  <1>6. QED
    BY <1>1, <1>2, <1>3, <1>4, <1>5 DEF Kept1

\* What a kill of the sync leaves: a torn record at most, after all that was there.
LEMMA CutSyncKeeps ==
    ASSUME Calm, Kept1, CutSync
    PROVE  /\ Sound(rounds') /\ Sound(klines') /\ Tailed(staging')
           /\ Records(rounds) \subseteq Records(rounds')
           /\ Records(klines) \subseteq Records(klines')
           /\ Records(staging) \subseteq Records(staging')
           /\ \A e \in Records(rounds') \ Records(rounds) :
                 sync.pc = "rounds" /\ sync.todo # {} /\ e = Least(sync.todo)
           /\ \A e \in Records(klines') \ Records(klines) :
                 sync.pc = "write" /\ sync.into = "klines" /\ e = Least(sync.batch)
           /\ \A e \in Records(staging') \ Records(staging) :
                 sync.pc = "write" /\ sync.into = "staging" /\ e = Least(sync.batch)
           /\ Least(sync.todo) \in sync.todo \/ sync.todo = {}
           /\ sync.pc = "write" => Least(sync.batch) \in sync.batch
  <1>1. /\ Typed /\ Filed /\ Ordered /\ ~MayCutNewline
        /\ sync.todo \subseteq Epochs /\ sync.batch \subseteq Epochs
        /\ sync.into \in {"klines", "staging"}
    BY SyncParts DEF Kept1, Calm
  <1>2. /\ sync.todo # {} => Least(sync.todo) \in sync.todo
        /\ sync.batch # {} => Least(sync.batch) \in sync.batch
    BY <1>1, LeastIs, EpochsFinite
  <1>3. /\ Sound(rounds') /\ Records(rounds) \subseteq Records(rounds')
        /\ \A e \in Records(rounds') \ Records(rounds) :
              sync.pc = "rounds" /\ sync.todo # {} /\ e = Least(sync.todo)
    <2>1. CASE sync.pc = "rounds" /\ sync.todo # {}
      <3> DEFINE e == Least(sync.todo)
      <3>1. Sound(rounds) /\ ~rounds.open /\ e \in Epochs /\ \A x \in Records(rounds) : x < e
        BY <1>1, <1>2, <2>1 DEF Filed, Ordered, Below, Working
      <3>2. rounds' \in CutRecord(rounds, e, MayCutNewline)
        BY <2>1 DEF CutSync
      <3> HIDE DEF e
      <3>3. Sound(rounds') /\ (Records(rounds') = Records(rounds)
                               \/ Records(rounds') = Records(rounds) \union {e})
        BY <1>1, <3>1, <3>2, CutSound
      <3>4. QED
        BY <2>1, <3>3 DEF e
    <2>2. CASE ~(sync.pc = "rounds" /\ sync.todo # {})
      <3>1. rounds' = rounds
        BY <2>2 DEF CutSync
      <3>2. QED
        BY <1>1, <3>1 DEF Filed
    <2>3. QED
      BY <2>1, <2>2
  <1>4. /\ Sound(klines') /\ Records(klines) \subseteq Records(klines')
        /\ Tailed(staging') /\ Records(staging) \subseteq Records(staging')
        /\ \A e \in Records(klines') \ Records(klines) :
              sync.pc = "write" /\ sync.into = "klines" /\ e = Least(sync.batch)
        /\ \A e \in Records(staging') \ Records(staging) :
              sync.pc = "write" /\ sync.into = "staging" /\ e = Least(sync.batch)
    <2>1. CASE sync.pc = "write"
      <3> DEFINE e == Least(sync.batch)
      <3>1. e \in sync.batch /\ e \in Epochs
        BY <1>1, <1>2, <2>1 DEF Ordered
      <3>2. PICK f \in CutRecord(Target, e, MayCutNewline) : Into(f)
        BY <2>1 DEF CutSync
      <3> HIDE DEF e
      <3>3. CASE sync.into = "klines"
        <4>1. Target = klines /\ klines' = f /\ staging' = staging
          BY <3>2, <3>3 DEF Target, Into
        <4>2. Sound(klines) /\ ~klines.open /\ \A x \in Records(klines) : x < e
          BY <1>1, <2>1, <3>1, <3>3 DEF Filed, Ordered, Below, Working, Fetching
        <4>3. Sound(f) /\ (Records(f) = Records(klines) \/ Records(f) = Records(klines) \union {e})
          BY <1>1, <3>1, <3>2, <4>1, <4>2, CutSound
        <4>4. QED
          BY <1>1, <2>1, <3>3, <4>1, <4>3 DEF Filed, e
      <3>4. CASE sync.into = "staging"
        <4>1. Target = staging /\ staging' = f /\ klines' = klines
          BY <3>2, <3>4 DEF Target, Into
        <4>2. /\ Tailed(f) /\ Records(staging) \subseteq Records(f)
              /\ Records(f) \subseteq Records(staging) \union {e}
          BY <1>1, <3>1, <3>2, <4>1, CutTailed DEF Filed
        <4>3. QED
          BY <1>1, <2>1, <3>4, <4>1, <4>2 DEF Filed, e
      <3>5. QED
        BY <1>1, <3>3, <3>4
    <2>2. CASE sync.pc # "write"
      <3>1. klines' = klines /\ staging' = staging
        BY <2>2 DEF CutSync
      <3>2. QED
        BY <1>1, <3>1 DEF Filed
    <2>3. QED
      BY <2>1, <2>2
  <1>5. QED
    BY <1>1, <1>2, <1>3, <1>4 DEF Ordered

\* And of the watchdog.
LEMMA CutDogKeeps ==
    ASSUME Calm, Kept1, CutDog
    PROVE  /\ Tailed(held') /\ Records(held) \subseteq Records(held')
           /\ Records(held') \subseteq Records(held) \union dog.batch
  <1>1. Typed /\ Tailed(held) /\ ~MayCutNewline /\ dog.batch \subseteq Epochs
    BY SyncParts DEF Kept1, Filed, Calm
  <1>2. CASE dog.pc = "stage" /\ dog.batch # {}
    <2> DEFINE e == Least(dog.batch)
    <2>1. e \in dog.batch /\ e \in Epochs
      BY <1>1, <1>2, LeastIs, EpochsFinite
    <2>2. held' \in CutRecord(held, e, MayCutNewline)
      BY <1>2 DEF CutDog
    <2> HIDE DEF e
    <2>3. /\ Tailed(held') /\ Records(held) \subseteq Records(held')
          /\ Records(held') \subseteq Records(held) \union {e}
      BY <1>1, <2>1, <2>2, CutTailed
    <2>4. QED
      BY <2>1, <2>3
  <1>3. CASE ~(dog.pc = "stage" /\ dog.batch # {})
    <2>1. held' = held
      BY <1>3 DEF CutDog
    <2>2. QED
      BY <1>1, <2>1
  <1>4. QED
    BY <1>2, <1>3

LEMMA KillSyncKeeps ==
    ASSUME Calm, Kept1, KillSync
    PROVE  Kept1' /\ Grows /\ CutSync /\ sync' = Fail("killed") /\ sync.pc # "idle"
  <1>1. /\ Typed /\ Filed /\ Ordered /\ Merging /\ CutSync /\ sync' = Fail("killed")
        /\ sync.pc # "idle"
        /\ UNCHANGED <<day, held, dog, merge>>
    BY DEF Kept1, KillSync
  <1>2. /\ Sound(rounds') /\ Sound(klines') /\ Tailed(staging')
        /\ Records(rounds) \subseteq Records(rounds')
        /\ Records(klines) \subseteq Records(klines')
        /\ \A e \in Records(staging') \ Records(staging) :
              sync.pc = "write" /\ e = Least(sync.batch)
        /\ sync.pc = "write" => Least(sync.batch) \in sync.batch
    BY <1>1, CutSyncKeeps
  <1>3. sync' \in SyncType /\ sync'.pc = "over"
    BY <1>1 DEF Typed, Fail, SyncType, SyncPcs, Excuses
  <1>4. Typed'
    BY <1>1, <1>3 DEF Typed
  <1>5. Records(staging') \subseteq Epochs
    BY <1>1, <1>2, SyncParts DEF Filed
  <1>6. Filed'
    BY <1>1, <1>2, <1>3, <1>5 DEF Filed, Staging, Working
  <1>7. Ordered' /\ Merging' /\ Grows
    BY <1>1, <1>2, <1>3 DEF Ordered, Fetching, Merging, Grows
  <1>8. QED
    BY <1>1, <1>4, <1>6, <1>7 DEF Kept1

\* A power loss stops everything; what it leaves of the files is sound.
LEMMA PowerLossKeeps ==
    ASSUME Calm, Kept1, Secured, PowerLoss
    PROVE  /\ Kept1'
           /\ (Grows /\ CutSync /\ CutDog) \/ Taken
           /\ sync' = Idle /\ dog' = NoDog /\ merge' = NoMerge
  <1>1. /\ Typed /\ Filed
        /\ sync' = Idle /\ dog' = NoDog /\ merge' = NoMerge /\ UNCHANGED day
    BY DEF Kept1, PowerLoss
  <1>2. sync'.pc = "idle" /\ merge'.pc = "idle"
    BY <1>1 DEF Idle, NoMerge
  <1>3. Typed'
    BY <1>1, RestTyped DEF Typed
  <1>4. Ordered' /\ Merging'
    BY <1>2 DEF Ordered, Fetching, Merging
  <1>5. CASE CutSync /\ CutDog
    <2>1. /\ Sound(rounds') /\ Sound(klines') /\ Tailed(staging')
          /\ Records(rounds) \subseteq Records(rounds')
          /\ Records(klines) \subseteq Records(klines')
          /\ \A e \in Records(staging') \ Records(staging) :
                sync.pc = "write" /\ e = Least(sync.batch)
          /\ sync.pc = "write" => Least(sync.batch) \in sync.batch
      BY <1>5, CutSyncKeeps
    <2>2. /\ Tailed(held') /\ Records(held) \subseteq Records(held')
          /\ Records(held') \subseteq Records(held) \union dog.batch
      BY <1>5, CutDogKeeps
    <2>3. Records(staging') \subseteq Epochs /\ Records(held') \subseteq Epochs
      BY <1>1, <2>1, <2>2, SyncParts DEF Filed
    <2>4. Filed'
      BY <1>1, <1>2, <2>1, <2>2, <2>3 DEF Filed, Staging, Working
    <2>5. Grows
      BY <2>1, <2>2 DEF Grows
    <2>6. QED
      BY <1>1, <1>3, <1>4, <1>5, <2>4, <2>5 DEF Kept1
  <1>6. CASE Taken
    <2>1. /\ MayLoseUnsynced
          /\ safe.rounds \in 0 .. OnDisk(rounds) /\ safe.klines \in 0 .. OnDisk(klines)
          /\ safe.held \in 0 .. OnDisk(held) /\ 0 \in 0 .. OnDisk(staging)
      <3>1. MayLoseUnsynced
        BY <1>6 DEF Taken
      <3>2. /\ OnDisk(rounds) \in Nat /\ OnDisk(klines) \in Nat /\ OnDisk(held) \in Nat
            /\ OnDisk(staging) \in Nat
        BY <1>1, Shapes DEF Filed, Sound, Tailed, OnDisk
      <3>3. QED
        BY <3>1, <3>2 DEF Secured
    <2>2. Sound(rounds') /\ Sound(klines')
      BY <1>1, <1>6, <2>1, LeftSound DEF Taken, Filed
    <2>3. Tailed(held') /\ Records(held') \subseteq Records(held)
      <3>1. Shaped(held') /\ Records(held') \subseteq Records(held) /\ (held' = held \/ ~held'.open)
        BY <1>1, <1>6, <2>1, LeftReads DEF Taken, Filed, Tailed
      <3>2. QED
        BY <1>1, <3>1 DEF Tailed, Filed
    <2>4. Tailed(staging') /\ Records(staging') \subseteq Records(staging)
      <3>1. /\ Shaped(staging') /\ Records(staging') \subseteq Records(staging)
            /\ staging' = staging \/ ~staging'.open
        BY <1>1, <1>6, <2>1, LeftReads DEF Taken, Filed, Tailed
      <3>2. QED
        BY <1>1, <3>1 DEF Tailed, Filed
    <2>5. Filed'
      BY <1>1, <1>2, <2>1, <2>2, <2>3, <2>4 DEF Filed, Staging, Working
    <2>6. QED
      BY <1>1, <1>3, <1>4, <1>6, <2>5 DEF Kept1
  <1>7. QED
    BY <1>5, <1>6 DEF PowerLoss, Taken

\* The steps that read the files, or do not look at them.
LEMMA QuietKeeps ==
    ASSUME Kept1,
           LockHeld \/ Check \/ SyncEnd \/ DogStart \/ DogMark \/ NewDay \/ UNCHANGED vars
    PROVE  Kept1' /\ Grows /\ UNCHANGED <<rounds, klines, staging, held, merge>>
  <1>1. Typed /\ sync \in SyncType /\ dog \in DogType
    BY DEF Kept1, Typed
  <1>2. CASE LockHeld
    <2>1. /\ dog' = [NoDog EXCEPT !.pc = "look"]
          /\ UNCHANGED <<day, rounds, klines, staging, held, sync, merge>>
      BY <1>2 DEF LockHeld, files
    <2>2. dog' \in DogType
      BY <2>1, RestTyped DEF DogType, DogPcs
    <2>3. Typed'
      BY <1>1, <2>1, <2>2 DEF Typed
    <2>4. QED
      BY <2>1, <2>3, FilesAlone
  <1>3. CASE Check
    <2>1. /\ sync.pc = "check" /\ sync' = [sync EXCEPT !.pc = IF Aligned THEN "done" ELSE "over"]
          /\ UNCHANGED <<day, rounds, klines, staging, held, dog, merge>>
      BY <1>3 DEF Check, files
    <2>2. sync' \in SyncType /\ sync'.pc \in {"done", "over"}
      BY <1>1, <2>1 DEF SyncType, SyncPcs
    <2>3. Typed' /\ Working
      BY <1>1, <2>1, <2>2 DEF Typed, Working
    <2>4. QED
      BY <2>1, <2>2, <2>3, FilesAlone
  <1>4. CASE SyncEnd
    <2>1. /\ sync.pc \in {"done", "over"} /\ sync' = Idle
          /\ dog' = dog \/ dog' = [NoDog EXCEPT !.pc = "look"]
          /\ UNCHANGED <<day, rounds, klines, staging, held, merge>>
      BY <1>4 DEF SyncEnd, files
    <2>2. sync' \in SyncType /\ dog' \in DogType /\ sync'.pc = "idle"
      BY <1>1, <2>1, RestTyped DEF DogType, DogPcs, Idle
    <2>3. Typed'
      BY <1>1, <2>1, <2>2 DEF Typed
    <2>4. QED
      BY <2>1, <2>2, <2>3, FilesAlone
  <1>5. CASE DogStart
    <2>1. /\ dog' = [NoDog EXCEPT !.pc = "look"]
          /\ UNCHANGED <<day, rounds, klines, staging, held, sync, merge>>
      BY <1>5 DEF DogStart, files
    <2>2. dog' \in DogType
      BY <2>1, RestTyped DEF DogType, DogPcs
    <2>3. Typed'
      BY <1>1, <2>1, <2>2 DEF Typed
    <2>4. QED
      BY <2>1, <2>3, FilesAlone
  <1>6. CASE DogMark
    <2>1. dog' = NoDog /\ UNCHANGED <<day, rounds, klines, staging, held, sync, merge>>
      BY <1>6 DEF DogMark, files
    <2>2. Typed'
      BY <1>1, <2>1, RestTyped DEF Typed
    <2>3. QED
      BY <2>1, <2>2, FilesAlone
  <1>7. CASE NewDay
    <2>1. /\ day' = day + 1 /\ day < LastDay
          /\ UNCHANGED <<rounds, klines, staging, held, sync, dog, merge>>
      BY <1>7 DEF NewDay, files
    <2>2. day' \in 1 .. LastDay
      BY <1>1, <2>1, LastIsNat DEF Typed
    <2>3. Typed'
      BY <1>1, <2>1, <2>2 DEF Typed
    <2>4. QED
      BY <2>1, <2>3, FilesAlone
  <1>8. CASE UNCHANGED vars
    <2>1. UNCHANGED <<day, rounds, klines, staging, held, sync, dog, merge>>
      BY <1>8 DEF vars, files
    <2>2. Typed'
      BY <1>1, <2>1 DEF Typed
    <2>3. QED
      BY <2>1, <2>2, FilesAlone
  <1>9. QED
    BY <1>2, <1>3, <1>4, <1>5, <1>6, <1>7, <1>8

LEMMA StepKeeps == Calm /\ Kept1 /\ Secured /\ [Next]_vars => Kept1' /\ (Grows \/ Taken)
  <1> SUFFICES ASSUME Calm, Kept1, Secured, [Next]_vars PROVE Kept1' /\ (Grows \/ Taken)
    OBVIOUS
  <1>1. ASSUME NEW allow \in BOOLEAN, SyncStart(allow) PROVE Kept1' /\ Grows
    BY <1>1, SyncStartKeeps
  <1>2. CASE RoundsWrite
    BY <1>2, RoundsWriteKeeps
  <1>3. CASE RoundsDone
    BY <1>3, RoundsDoneKeeps
  <1>4. CASE KlinesPlan
    BY <1>4, KlinesPlanKeeps
  <1>5. CASE FetchBatch
    BY <1>5, FetchBatchKeeps
  <1>6. CASE WriteBatch
    BY <1>6, WriteBatchKeeps
  <1>7. CASE NextPass
    BY <1>7, NextPassKeeps
  <1>8. CASE Prepend
    BY <1>8, PrependKeeps
  <1>9. CASE Unlink
    BY <1>9, UnlinkKeeps
  <1>10. CASE DogLook
    BY <1>10, DogLookKeeps
  <1>11. CASE DogCapture
    BY <1>11, DogCaptureKeeps
  <1>12. CASE DogStage
    BY <1>12, DogStageKeeps
  <1>13. CASE MergeRead
    BY <1>13, MergeReadKeeps
  <1>14. CASE MergeWrite
    BY <1>14, MergeWriteKeeps
  <1>15. CASE KillSync
    BY <1>15, KillSyncKeeps
  <1>16. CASE PowerLoss
    BY <1>16, PowerLossKeeps
  <1>17. CASE LockHeld \/ Check \/ SyncEnd \/ DogStart \/ DogMark \/ NewDay \/ UNCHANGED vars
    BY <1>17, QuietKeeps
  <1>18. QED
    BY <1>1, <1>2, <1>3, <1>4, <1>5, <1>6, <1>7, <1>8, <1>9, <1>10, <1>11, <1>12, <1>13,
       <1>14, <1>15, <1>16, <1>17 DEF Next

\* An append only adds to the lines that are complete.
LEMMA PutDisk ==
    ASSUME NEW f, Shaped(f), f.open => f.lines # <<>>, NEW t, NEW ended \in BOOLEAN
    PROVE  /\ OnDisk(f) \in Nat /\ OnDisk(f) <= OnDisk(Put(f, t, ended))
           /\ OnDisk(Put(f, t, ended)) \in Nat
           /\ ended => OnDisk(Put(f, t, ended)) = Len(Put(f, t, ended).lines)
  <1> DEFINE n == Len(f.lines)
             m == Len(Put(f, t, ended).lines)
  <1>1. /\ n \in Nat /\ (f.lines # <<>> => n > 0) /\ f.open \in BOOLEAN
        /\ DOMAIN f.lines = 1 .. n /\ f.lines \in Seq(Seq(Int))
    BY Shapes
  <1>2. m = IF f.open THEN n ELSE n + 1
    <2>1. CASE f.open
      <3>1. Put(f, t, ended).lines = [f.lines EXCEPT ![n] = Append(@, t)]
        BY <2>1 DEF Put
      <3>2. QED
        BY <1>1, <2>1, <3>1
    <2>2. CASE ~f.open
      <3>1. Put(f, t, ended).lines = Append(f.lines, <<t>>)
        BY <2>2 DEF Put
      <3>2. QED
        BY <1>1, <2>2, <3>1
    <2>3. QED
      BY <1>1, <2>1, <2>2
  <1>3. /\ f.open => OnDisk(f) = n - 1
        /\ ~f.open => OnDisk(f) = n
    BY DEF OnDisk
  <1>4. /\ ended => OnDisk(Put(f, t, ended)) = m
        /\ ~ended => OnDisk(Put(f, t, ended)) = m - 1
    BY Zenon DEF OnDisk, Put
  <1>5. f.open => n > 0
    BY <1>1
  <1> DEFINE a == OnDisk(f)
             b == OnDisk(Put(f, t, ended))
  <1>6. a \in Nat /\ b \in Nat /\ a <= b /\ (ended => b = m)
    <2>1. /\ n \in Nat /\ f.open \in BOOLEAN /\ m = IF f.open THEN n ELSE n + 1
          /\ (f.open => a = n - 1) /\ (~f.open => a = n) /\ (f.open => n > 0)
          /\ (ended => b = m) /\ (~ended => b = m - 1)
      BY <1>1, <1>2, <1>3, <1>4, <1>5
    <2> HIDE DEF n, m, a, b
    <2>2. QED
      BY <2>1
  <1>7. QED
    BY <1>6

\* A file that was only written to has no fewer complete lines.
Longer(f, g) == OnDisk(f) \in Nat /\ OnDisk(g) \in Nat /\ OnDisk(f) <= OnDisk(g)

LEMMA Lengths ==
    ASSUME NEW f, Shaped(f), f.open => f.lines # <<>>, NEW e
    PROVE  /\ Longer(f, f) /\ Longer(f, WriteRecord(f, e))
           /\ OnDisk(WriteRecord(f, e)) = Len(WriteRecord(f, e).lines)
           /\ ~MayCutNewline => \A g \in CutRecord(f, e, MayCutNewline) : Longer(f, g)
  <1>0. ASSUME NEW t, NEW ended \in BOOLEAN PROVE Longer(f, Put(f, t, ended)) /\ OnDisk(f) \in Nat
    BY PutDisk DEF Longer
  <1>1. Longer(f, f) /\ Longer(f, Put(f, e, TRUE)) /\ Longer(f, Put(f, -e, FALSE))
    <2>1. OnDisk(f) \in Nat
      BY <1>0
    <2>2. Longer(f, f)
      BY <2>1 DEF Longer
    <2>3. QED
      BY <1>0, <2>2
  <1>2. OnDisk(Put(f, e, TRUE)) = Len(Put(f, e, TRUE).lines)
    BY PutDisk
  <1>3. QED
    BY <1>1, <1>2, Zenon DEF WriteRecord, CutRecord

\* The three ways the files and what is safe of them change together.
LEMMA SecuredAlone ==
    ASSUME Secured, UNCHANGED safe, Longer(rounds, rounds'), Longer(klines, klines'),
           Longer(held, held')
    PROVE  Secured'
  <1>1. CASE ~MayLoseUnsynced
    BY <1>1 DEF Secured
  <1>2. CASE MayLoseUnsynced
    <2>1. safe.rounds \in Nat /\ safe.klines \in Nat /\ safe.held \in Nat
      BY <1>2 DEF Secured
    <2>2. QED
      BY <1>2, <2>1 DEF Secured, Longer
  <1>3. QED
    BY <1>1, <1>2

LEMMA SecuredSync ==
    ASSUME Secured, NEW file \in {"rounds", "klines", "held"}, NEW n \in Nat, Synced(file, n),
           file = "rounds" => n <= OnDisk(rounds') /\ UNCHANGED <<klines, held>>,
           file = "klines" => n <= OnDisk(klines') /\ UNCHANGED <<rounds, held>>,
           file = "held" => n <= OnDisk(held') /\ UNCHANGED <<rounds, klines>>
    PROVE  Secured'
  <1>1. CASE ~MayLoseUnsynced
    BY <1>1 DEF Secured
  <1>2. CASE MayLoseUnsynced
    <2>1. safe \in [rounds : Nat, klines : Nat, held : Nat] /\ safe' = [safe EXCEPT ![file] = n]
      BY <1>2 DEF Secured, Synced
    <2>2. CASE file = "rounds"
      BY <1>2, <2>1, <2>2 DEF Secured
    <2>3. CASE file = "klines"
      BY <1>2, <2>1, <2>3 DEF Secured
    <2>4. CASE file = "held"
      BY <1>2, <2>1, <2>4 DEF Secured
    <2>5. QED
      BY <2>2, <2>3, <2>4
  <1>3. QED
    BY <1>1, <1>2

\* The appends: safe as a whole after the last record, and as before until then.
LEMMA SecuredAppend ==
    ASSUME Secured, NEW file \in {"rounds", "klines", "held"}, NEW last \in BOOLEAN,
           NEW g, OnDisk(g) = Len(g.lines), OnDisk(g) \in Nat, SyncedAfter(last, file, g),
           Longer(rounds, rounds'), Longer(klines, klines'), Longer(held, held'),
           file = "rounds" => rounds' = g /\ UNCHANGED <<klines, held>>,
           file = "klines" /\ last => klines' = g /\ UNCHANGED <<rounds, held>>,
           file = "held" => held' = g /\ UNCHANGED <<rounds, klines>>
    PROVE  Secured'
  <1>1. CASE last
    <2>1. Synced(file, Len(g.lines)) /\ Len(g.lines) \in Nat
      BY <1>1 DEF SyncedAfter
    <2>2. QED
      BY <1>1, <2>1, SecuredSync
  <1>2. CASE ~last
    BY <1>2, SecuredAlone DEF SyncedAfter
  <1>3. QED
    BY <1>1, <1>2

LEMMA SecuredPower ==
    ASSUME Kept1', PowerLoss, MayLoseUnsynced
    PROVE  Secured'
  <1>1. /\ OnDisk(rounds') \in Nat /\ OnDisk(klines') \in Nat /\ OnDisk(held') \in Nat
    <2>1. \A f : Shaped(f) /\ (f.open => f.lines # <<>>) => OnDisk(f) \in Nat
      BY Shapes DEF OnDisk
    <2>2. Sound(rounds') /\ Sound(klines') /\ Tailed(held')
      BY DEF Kept1, Filed
    <2>3. QED
      BY <2>1, <2>2 DEF Sound, Tailed
  <1>2. safe' = [rounds |-> OnDisk(rounds'), klines |-> OnDisk(klines'), held |-> OnDisk(held')]
    BY DEF PowerLoss
  <1>3. QED
    BY <1>1, <1>2 DEF Secured

LEMMA SecuredStart ==
    ASSUME Calm, Kept1, Secured, NEW allow \in BOOLEAN, SyncStart(allow)
    PROVE  Secured'
  <1>1. CASE ~MayLoseUnsynced
    BY <1>1 DEF Secured
  <1>2. CASE MayLoseUnsynced
    <2>1. /\ safe \in [rounds : Nat, klines : Nat, held : Nat]
          /\ safe' = [safe EXCEPT
                        !.rounds = IF rounds' = rounds THEN safe.rounds ELSE Len(rounds'.lines),
                        !.klines = IF klines' = klines THEN safe.klines ELSE Len(klines'.lines)]
          /\ held' = held
      BY <1>2 DEF Secured, SyncStart
    <2>2. /\ Sound(rounds') /\ ~rounds'.open /\ Sound(klines') /\ ~klines'.open
      BY SyncStartKeeps, RepairSound DEF Kept1, Filed
    <2>3. /\ Len(rounds'.lines) \in Nat /\ OnDisk(rounds') = Len(rounds'.lines)
          /\ Len(klines'.lines) \in Nat /\ OnDisk(klines') = Len(klines'.lines)
      BY <2>2, Shapes DEF Sound, OnDisk
    <2>4. /\ safe' \in [rounds : Nat, klines : Nat, held : Nat] /\ safe'.held = safe.held
          /\ safe'.rounds = IF rounds' = rounds THEN safe.rounds ELSE Len(rounds'.lines)
          /\ safe'.klines = IF klines' = klines THEN safe.klines ELSE Len(klines'.lines)
      BY <2>1, <2>3
    <2>5. /\ safe.rounds <= OnDisk(rounds) /\ safe.klines <= OnDisk(klines)
          /\ safe.held <= OnDisk(held)
      BY <1>2 DEF Secured
    <2>6. safe'.rounds <= OnDisk(rounds')
      BY <2>3, <2>4, <2>5
    <2>7. safe'.klines <= OnDisk(klines')
      BY <2>3, <2>4, <2>5
    <2>8. safe'.held <= OnDisk(held')
      BY <2>1, <2>4, <2>5
    <2>9. QED
      BY <2>4, <2>6, <2>7, <2>8 DEF Secured
  <1>3. QED
    BY <1>1, <1>2

LEMMA SecuredStep == Calm /\ Kept1 /\ Kept1' /\ Secured /\ [Next]_vars => Secured'
  <1> SUFFICES ASSUME Calm, Kept1, Kept1', Secured, [Next]_vars PROVE Secured'
    OBVIOUS
  <1>1. /\ Shaped(rounds) /\ (rounds.open => rounds.lines # <<>>)
        /\ Shaped(klines) /\ (klines.open => klines.lines # <<>>)
        /\ Shaped(held) /\ (held.open => held.lines # <<>>)
    BY DEF Kept1, Filed, Sound, Tailed
  <1>2. Longer(rounds, rounds) /\ Longer(klines, klines) /\ Longer(held, held)
    BY <1>1, Lengths
  <1>3. OnDisk(rounds') \in Nat /\ OnDisk(klines') \in Nat
    BY Shapes DEF Kept1, Filed, Sound, OnDisk
  <1>4. ASSUME NEW allow \in BOOLEAN, SyncStart(allow) PROVE Secured'
    BY <1>4, SecuredStart
  <1>5. CASE RoundsWrite
    <2> DEFINE e == Least(sync.todo)
    <2>1. /\ rounds' = WriteRecord(rounds, e) /\ UNCHANGED <<klines, held>>
          /\ SyncedAfter(sync.todo = {e}, "rounds", rounds')
      BY <1>5 DEF RoundsWrite
    <2>2. Longer(rounds, rounds') /\ OnDisk(rounds') = Len(rounds'.lines)
      BY <1>1, <2>1, Lengths
    <2> HIDE DEF e
    <2>3. (sync.todo = {e}) \in BOOLEAN
      OBVIOUS
    <2>4. QED
      BY <1>2, <1>3, <2>1, <2>2, <2>3, SecuredAppend
  <1>6. CASE RoundsDone
    <2>1. UNCHANGED <<klines, held>> /\ (Synced("rounds", 0) \/ UNCHANGED <<rounds, safe>>)
      BY <1>6 DEF RoundsDone
    <2>2. CASE Synced("rounds", 0)
      BY <1>3, <2>1, <2>2, SecuredSync
    <2>3. CASE UNCHANGED <<rounds, safe>>
      BY <1>2, <2>1, <2>3, SecuredAlone
    <2>4. QED
      BY <2>1, <2>2, <2>3
  <1>7. CASE WriteBatch
    <2> DEFINE e == Least(sync.batch)
    <2>1. /\ Into(WriteRecord(Target, e)) /\ UNCHANGED <<rounds, held>>
          /\ SyncedAfter(sync.into = "klines" /\ sync.batch = {e}, "klines", klines')
      BY <1>7 DEF WriteBatch
    <2> HIDE DEF e
    <2>2. CASE sync.into = "klines"
      <3>1. klines' = WriteRecord(klines, e)
        BY <2>1, <2>2 DEF Into, Target
      <3>2. Longer(klines, klines') /\ OnDisk(klines') = Len(klines'.lines)
        BY <1>1, <3>1, Lengths
      <3>3. (sync.into = "klines" /\ sync.batch = {e}) \in BOOLEAN
        OBVIOUS
      <3>4. QED
        BY <1>2, <1>3, <2>1, <3>2, <3>3, SecuredAppend
    <2>3. CASE sync.into # "klines"
      <3>1. klines' = klines /\ UNCHANGED safe
        BY <2>1, <2>3 DEF Into, SyncedAfter
      <3>2. QED
        BY <1>2, <2>1, <3>1, SecuredAlone
    <2>4. QED
      BY <2>2, <2>3
  <1>8. CASE Prepend \/ MergeWrite
    <2>1. Synced("klines", 0) /\ UNCHANGED <<rounds, held>>
      BY <1>8 DEF Prepend, MergeWrite
    <2>2. QED
      BY <1>3, <2>1, SecuredSync
  <1>9. CASE DogStage
    <2> DEFINE e == Least(dog.batch)
    <2>1. /\ held' = WriteRecord(held, e) /\ UNCHANGED <<rounds, klines>>
          /\ SyncedAfter(dog.batch = {e}, "held", held')
      BY <1>9 DEF DogStage
    <2>2. Longer(held, held') /\ OnDisk(held') = Len(held'.lines)
      BY <1>1, <2>1, Lengths
    <2> HIDE DEF e
    <2>3. (dog.batch = {e}) \in BOOLEAN /\ OnDisk(held') \in Nat
      BY <2>2 DEF Longer
    <2>4. QED
      BY <1>2, <2>1, <2>2, <2>3, SecuredAppend
  <1>10. CASE KillSync
    <2>1. CutSync /\ UNCHANGED <<held, safe>> /\ ~MayCutNewline
      BY <1>10 DEF KillSync, Calm
    <2>2. Longer(rounds, rounds')
      <3>1. \/ rounds' = rounds
            \/ rounds' \in CutRecord(rounds, Least(sync.todo), MayCutNewline)
        BY <2>1 DEF CutSync
      <3>2. QED
        BY <1>1, <1>2, <2>1, <3>1, Lengths
    <2>3. Longer(klines, klines')
      <3>1. \/ klines' = klines
            \/ klines' \in CutRecord(klines, Least(sync.batch), MayCutNewline)
        BY <2>1 DEF CutSync, Into, Target
      <3>2. QED
        BY <1>1, <1>2, <2>1, <3>1, Lengths
    <2>4. QED
      BY <1>2, <2>1, <2>2, <2>3, SecuredAlone
  <1>11. CASE PowerLoss
    <2>1. CASE MayLoseUnsynced
      BY <1>11, <2>1, SecuredPower
    <2>2. CASE ~MayLoseUnsynced
      BY <2>2 DEF Secured
    <2>3. QED
      BY <2>1, <2>2
  <1>12. CASE \/ LockHeld \/ KlinesPlan \/ FetchBatch \/ NextPass \/ Unlink \/ Check \/ SyncEnd
              \/ DogStart \/ DogLook \/ DogCapture \/ DogMark \/ MergeRead \/ NewDay
              \/ UNCHANGED vars
    <2>1. UNCHANGED <<rounds, klines, held, safe>>
      BY <1>12 DEF LockHeld, KlinesPlan, FetchBatch, NextPass, Unlink, Check, SyncEnd, DogStart,
         DogLook, DogCapture, DogMark, MergeRead, NewDay, vars, files
    <2>2. QED
      BY <1>2, <2>1, SecuredAlone
  <1>13. QED
    BY <1>4, <1>5, <1>6, <1>7, <1>8, <1>9, <1>10, <1>11, <1>12 DEF Next

LEMMA InitSecured == Init => Secured
  <1> SUFFICES ASSUME Init PROVE Secured
    OBVIOUS
  <1>1. Sound(rounds) /\ Sound(klines) /\ ~rounds.open /\ ~klines.open
    <2>1. Sound(rounds) /\ Sound(klines)
      BY InitKept DEF Kept1, Filed
    <2>2. ~rounds.open /\ ~klines.open
      BY DEF Init, FromEpochs
    <2>3. QED
      BY <2>1, <2>2
  <1>2. Len(rounds.lines) \in Nat /\ Len(klines.lines) \in Nat
    BY <1>1, Shapes DEF Sound
  <1>3. /\ OnDisk(rounds) = Len(rounds.lines) /\ OnDisk(klines) = Len(klines.lines)
        /\ OnDisk(held) = 0
    <2>1. held = NoFile
      BY DEF Init
    <2>2. QED
      BY <1>1, <2>1 DEF OnDisk, NoFile
  <1>4. safe = [rounds |-> Len(rounds.lines), klines |-> Len(klines.lines), held |-> 0]
    BY DEF Init
  <1>5. QED
    BY <1>2, <1>3, <1>4 DEF Secured

LEMMA AllKept ==
    ASSUME Calm
    PROVE  Spec => [](Kept1 /\ Secured)
  <1>1. Kept1 /\ Secured /\ [Next]_vars => Kept1' /\ Secured'
    BY StepKeeps, SecuredStep
  <1>2. Init => Kept1 /\ Secured
    BY InitKept, InitSecured
  <1>3. QED
    BY <1>1, <1>2, PTL DEF Spec

LEMMA KeptInvariant ==
    ASSUME Calm
    PROVE  Spec => []Kept1
  BY AllKept, PTL

\* What the property about lost records says of one step.
NothingLost ==
    LET Sure(f, n) == IF MayLoseUnsynced /\ PowerLoss
                      THEN Records([f EXCEPT !.lines = SubSeq(@, 1, n)]) ELSE Records(f)
    IN /\ Sure(rounds, safe.rounds) \subseteq Records(rounds')
       /\ Sure(klines, safe.klines) \subseteq Records(klines')
       /\ Sure(held, safe.held) \subseteq Records(held')

\* The safe lines of a file hold some of its records.
LEMMA SafeRecords ==
    ASSUME NEW f, Shaped(f), f.open => f.lines # <<>>, NEW n \in 0 .. OnDisk(f)
    PROVE  Records([f EXCEPT !.lines = SubSeq(@, 1, n)]) \subseteq Records(f)
  <1>1. f \in Left(f, n)
    BY DEF Left
  <1>2. QED
    BY <1>1, LeftReads

LEMMA LossIsUnsynced == Calm /\ Kept1 /\ Secured /\ [Next]_vars => [NothingLost]_vars
  <1> SUFFICES ASSUME Calm, Kept1, Secured, [Next]_vars PROVE NothingLost
    OBVIOUS
  <1>1. Grows \/ Taken
    BY StepKeeps
  <1>2. /\ Shaped(rounds) /\ (rounds.open => rounds.lines # <<>>)
        /\ Shaped(klines) /\ (klines.open => klines.lines # <<>>)
        /\ Shaped(held) /\ (held.open => held.lines # <<>>)
    BY DEF Kept1, Filed, Sound, Tailed
  <1>3. ASSUME MayLoseUnsynced
        PROVE  /\ safe.rounds \in 0 .. OnDisk(rounds) /\ safe.klines \in 0 .. OnDisk(klines)
               /\ safe.held \in 0 .. OnDisk(held)
    <2>1. OnDisk(rounds) \in Nat /\ OnDisk(klines) \in Nat /\ OnDisk(held) \in Nat
      BY <1>2, Lengths DEF Longer
    <2>2. QED
      BY <1>3, <2>1 DEF Secured
  <1>4. CASE MayLoseUnsynced /\ PowerLoss
    <2>1. /\ safe.rounds \in 0 .. OnDisk(rounds) /\ safe.klines \in 0 .. OnDisk(klines)
          /\ safe.held \in 0 .. OnDisk(held)
      BY <1>3, <1>4
    <2>2. CASE Taken
      <3>1. /\ rounds' \in Left(rounds, safe.rounds) /\ klines' \in Left(klines, safe.klines)
            /\ held' \in Left(held, safe.held)
        BY <2>2 DEF Taken
      <3>2. Records([rounds EXCEPT !.lines = SubSeq(@, 1, safe.rounds)]) \subseteq Records(rounds')
        BY <1>2, <2>1, <3>1, LeftReads
      <3>3. Records([klines EXCEPT !.lines = SubSeq(@, 1, safe.klines)]) \subseteq Records(klines')
        BY <1>2, <2>1, <3>1, LeftReads
      <3>4. Records([held EXCEPT !.lines = SubSeq(@, 1, safe.held)]) \subseteq Records(held')
        BY <1>2, <2>1, <3>1, LeftReads
      <3>5. QED
        BY <1>4, <3>2, <3>3, <3>4 DEF NothingLost
    <2>3. CASE Grows
      <3>1. Records([rounds EXCEPT !.lines = SubSeq(@, 1, safe.rounds)]) \subseteq Records(rounds)
        BY <1>2, <2>1, SafeRecords
      <3>2. Records([klines EXCEPT !.lines = SubSeq(@, 1, safe.klines)]) \subseteq Records(klines)
        BY <1>2, <2>1, SafeRecords
      <3>3. Records([held EXCEPT !.lines = SubSeq(@, 1, safe.held)]) \subseteq Records(held)
        BY <1>2, <2>1, SafeRecords
      <3>4. QED
        BY <1>4, <2>3, <3>1, <3>2, <3>3 DEF NothingLost, Grows
    <2>4. QED
      BY <1>1, <2>2, <2>3
  <1>5. CASE ~(MayLoseUnsynced /\ PowerLoss)
    <2>1. Grows
      BY <1>1, <1>5 DEF Taken
    <2>2. QED
      BY <1>5, <2>1, Zenon DEF NothingLost, Grows
  <1>6. QED
    BY <1>4, <1>5

\* Every store is strictly ascending, whatever was killed and resumed, as long as no kill
\* cuts a newline off and no merge runs while a sync does (ClosedRoundsStore and
\* KlineStore, "epochs are strictly increasing").
THEOREM StoresSound ==
    ASSUME ~MayCutNewline, ~MayOverlap
    PROVE  Spec => []StoresAscend
  <1>1. Kept1 => StoresAscend
    BY SoundScan DEF Kept1, Filed, StoresAscend
  <1>2. Spec => []Kept1
    BY KeptInvariant DEF Calm
  <1>3. QED
    BY <1>1, <1>2, PTL

\* No kill, restart, repair, backfill, merge or continued append ever loses a record that
\* could be read (round_store.py:194, sync.py:514), and a power loss none that an fsync had
\* made safe (round_store.py:150), under the same two conditions.
THEOREM NoRecordLost ==
    ASSUME ~MayCutNewline, ~MayOverlap
    PROVE  Spec => NothingReadableIsLost
  <1>1. Kept1 /\ Secured /\ [Next]_vars => [NothingLost]_vars
    BY LossIsUnsynced DEF Calm
  <1>2. Spec => [](Kept1 /\ Secured)
    BY AllKept DEF Calm
  <1>3. QED
    BY <1>1, <1>2, PTL DEF Spec, NothingReadableIsLost, NothingLost

-----------------------------------------------------------------------------
(* The marker.  Between its look and its last write the watchdog carries   *)
(* the verdict GAP for the holes it saw; capturing them only replaces the  *)
(* verdict CAPTURED.                                                       *)

Warned ==
    /\ seen # {} => marker # {}
    /\ dog.pc \in {"capture", "stage", "mark"} /\ dog.holes # {} => dog.fails \ {"CAPTURED"} # {}

\* A hole of the scanned store is a reason for a verdict of its own.
LEMMA HolesAreToldOf ==
    Missing # {} => Evaluate \ {"CAPTURED"} # {}
  <1> SUFFICES ASSUME Missing # {} PROVE Evaluate \ {"CAPTURED"} # {}
    OBVIOUS
  <1>1. CASE Scan(rounds) = {} \/ Scan(klines) = {}
    <2>1. "EMPTY" \in Evaluate
      BY <1>1 DEF Evaluate
    <2>2. QED
      BY <2>1
  <1>2. CASE ~(Scan(rounds) = {} \/ Scan(klines) = {})
    <2>1. Missing \union Holes(Scanned(rounds)) # {}
      OBVIOUS
    <2>2. "GAP" \in Evaluate
      BY <1>2, <2>1 DEF Evaluate
    <2>3. QED
      BY <2>2
  <1>3. QED
    BY <1>1, <1>2

Whole(d) == d = [pc |-> d.pc, fails |-> d.fails, batch |-> d.batch, holes |-> d.holes]

Marked == Whole(dog) /\ Warned

LEMMA InitMarked == Init => Marked
  BY DEF Init, Marked, Whole, Warned, NoDog

LEMMA MarkedStep == Marked /\ [Next]_vars => Marked'
  <1> SUFFICES ASSUME Marked, [Next]_vars PROVE Marked'
    OBVIOUS
  <1>1. Whole(dog) /\ Warned
    BY DEF Marked
  <1>2. ASSUME dog' = NoDog \/ dog' = [NoDog EXCEPT !.pc = "look"],
               UNCHANGED <<marker, seen>> \/ (seen' # {} => marker' # {})
        PROVE  Marked'
    <2>1. Whole(dog') /\ dog'.pc \in {"idle", "look"}
      BY <1>2 DEF Whole, NoDog
    <2>2. QED
      BY <1>1, <1>2, <2>1 DEF Marked, Warned
  <1>3. ASSUME UNCHANGED <<dog, marker, seen>> PROVE Marked'
    BY <1>1, <1>3 DEF Marked, Warned
  <1>4. ASSUME NEW allow \in BOOLEAN, SyncStart(allow) PROVE Marked'
    BY <1>3, <1>4 DEF SyncStart
  <1>5. CASE \/ RoundsWrite \/ RoundsDone \/ KlinesPlan \/ FetchBatch \/ WriteBatch
             \/ NextPass \/ Prepend \/ Unlink \/ Check \/ MergeRead \/ MergeWrite
             \/ NewDay \/ KillSync \/ UNCHANGED vars
    BY <1>3, <1>5 DEF RoundsWrite, RoundsDone, KlinesPlan, FetchBatch, WriteBatch, NextPass,
       Prepend, Unlink, Check, MergeRead, MergeWrite, NewDay, KillSync, vars, health
  <1>6. CASE LockHeld \/ DogStart \/ PowerLoss
    BY <1>2, <1>6 DEF LockHeld, DogStart, PowerLoss, health
  <1>7. CASE SyncEnd
    <2>1. UNCHANGED <<marker, seen>> /\ (dog' = dog \/ dog' = [NoDog EXCEPT !.pc = "look"])
      BY <1>7 DEF SyncEnd
    <2>2. QED
      BY <1>2, <1>3, <2>1
  <1>8. CASE DogLook
    <2> DEFINE pc    == IF "GAP" \in Evaluate THEN "capture" ELSE "mark"
               fails == Evaluate \union (IF Stale THEN {"STALE"} ELSE {})
    <2>1. UNCHANGED <<marker, seen>>
          /\ dog' = [dog EXCEPT !.pc = pc, !.fails = fails, !.holes = Missing]
      BY <1>8 DEF DogLook, health, Missing
    <2>2. Missing # {} => fails \ {"CAPTURED"} # {}
      BY HolesAreToldOf
    <2> HIDE DEF pc, fails
    <2>3. Whole(dog') /\ dog'.fails = fails /\ dog'.holes = Missing
      BY <1>1, <2>1 DEF Whole
    <2>4. QED
      BY <1>1, <2>1, <2>2, <2>3 DEF Marked, Warned
  <1>9. CASE DogCapture
    <2>1. PICK lost \in SUBSET Planned :
             dog' = [dog EXCEPT !.pc = "stage", !.batch = Planned \ lost,
                                !.fails = @ \union (IF lost # {} THEN {"CAPTUREFAILED"} ELSE {})]
      BY <1>9 DEF DogCapture
    <2> DEFINE more == IF lost # {} THEN {"CAPTUREFAILED"} ELSE {}
    <2>2. dog' = [dog EXCEPT !.pc = "stage", !.batch = Planned \ lost,
                             !.fails = dog.fails \union more]
      BY <2>1
    <2> HIDE DEF more
    <2>3. Whole(dog') /\ dog'.fails = dog.fails \union more /\ dog'.holes = dog.holes
      BY <1>1, <2>2 DEF Whole
    <2>4. dog.pc = "capture" /\ UNCHANGED <<marker, seen>>
      BY <1>9 DEF DogCapture, health
    <2>5. QED
      BY <1>1, <2>3, <2>4 DEF Marked, Warned
  <1>10. CASE DogStage
    <2>1. /\ dog.pc = "stage" /\ UNCHANGED <<marker, seen>>
          /\ dog' = [dog EXCEPT !.batch = dog.batch \ {Least(dog.batch)}]
      BY <1>10 DEF DogStage, health
    <2>2. Whole(dog') /\ dog'.fails = dog.fails /\ dog'.holes = dog.holes /\ dog'.pc = dog.pc
      BY <1>1, <2>1 DEF Whole
    <2>3. QED
      BY <1>1, <2>1, <2>2 DEF Marked, Warned
  <1>11. CASE DogMark
    <2>1. /\ dog.pc \in {"mark", "stage"} /\ dog' = NoDog /\ seen' = dog.holes
          /\ marker' = dog.fails \/ marker' = (dog.fails \ {"CAPTURED"}) \union Captured
      BY <1>11 DEF DogMark
    <2>2. seen' # {} => marker' # {}
      BY <1>1, <2>1 DEF Warned
    <2>3. QED
      BY <1>2, <2>1, <2>2
  <1>12. QED
    BY <1>4, <1>5, <1>6, <1>7, <1>8, <1>9, <1>10, <1>11 DEF Next

\* As long as a hole the watchdog has seen is neither filled nor given up there is a
\* marker, whatever is captured, killed or late (store_guard.py:247).
THEOREM MarkerSound == Spec => []HoleKeepsMarker
  <1>1. Marked => HoleKeepsMarker
    BY DEF Marked, Warned, HoleKeepsMarker
  <1>2. QED
    BY <1>1, InitMarked, MarkedStep, PTL DEF Spec

-----------------------------------------------------------------------------
(* The rounds on file are an interval that never reaches past today, so the *)
(* window a sync looks at is never longer than the days OKX still serves.   *)

Interval(S) == \A a, b \in S : a .. b \subseteq S

Unbroken ==
    /\ Interval(Records(rounds)) /\ Records(rounds) \subseteq 1 .. day
    /\ sync.pc = "rounds" => /\ Interval(Records(rounds) \union sync.todo)
                             /\ sync.todo \subseteq 1 .. day
                             /\ day \in Records(rounds) \union sync.todo
    /\ sync.pc = "plan" => \A e \in sync.tail : Served(e)
    /\ sync.pc \in {"fetch", "write"} => \A e \in sync.todo \union sync.older : Served(e)

LEMMA DueIs ==
    ASSUME NEW f, Sound(f), ~f.open, Records(f) # {}, Interval(Records(f)), Typed,
           Records(f) \subseteq 1 .. day
    PROVE  /\ Interval(Records(f) \union Due(f))
           /\ Due(f) \subseteq 1 .. day /\ day \in Records(f) \union Due(f)
  <1> DEFINE last == Latest(f)
  <1>1. last \in Records(f) /\ \A x \in Records(f) : x <= last
    BY Ends
  <1>2. Records(f) \subseteq Epochs /\ Epochs \subseteq Nat /\ Due(f) \subseteq Epochs
    BY SoundFile, EpochsFinite, SyncParts DEF Due
  <1>3. \A e : e \in Due(f) <=> e \in 1 .. day /\ e > last
    BY DEF Due
  <1> HIDE DEF last
  <1>4. ASSUME NEW a \in Records(f) \union Due(f), NEW b \in Records(f) \union Due(f),
               NEW e \in a .. b
        PROVE  e \in Records(f) \union Due(f)
    <2>1. a \in Nat /\ b \in Nat /\ e \in Nat /\ a <= e /\ e <= b /\ last \in Nat /\ a \in Epochs
      <3>1. a \in Nat /\ b \in Nat /\ last \in Nat /\ a \in Epochs
        BY <1>1, <1>2, <1>4
      <3>2. QED
        BY <1>4, <3>1
    <2>2. CASE e <= last
      <3>1. a \in Records(f)
        <4>1. ~(a > last)
          BY <2>1, <2>2
        <4>2. QED
          BY <1>3, <1>4, <4>1
      <3>2. e \in a .. last
        BY <2>1, <2>2
      <3>3. QED
        BY <1>1, <3>1, <3>2 DEF Interval
    <2>3. CASE e > last
      <3>1. b > last
        BY <2>1, <2>3
      <3>2. b \notin Records(f)
        <4>1. b \in Records(f) => b <= last
          BY <1>1
        <4>2. QED
          BY <2>1, <3>1, <4>1
      <3>3. b \in 1 .. day
        BY <1>3, <1>4, <3>2
      <3>4. e \in 1 .. day
        <4>1. a \in 1 .. LastDay
          BY <2>1 DEF Epochs
        <4>2. b <= day /\ a >= 1 /\ day \in Int
          BY <3>3, <4>1 DEF Typed
        <4>3. QED
          BY <2>1, <4>2
      <3>5. QED
        BY <1>3, <2>3, <3>4
    <2>4. QED
      BY <2>1, <2>2, <2>3
  <1>5. Interval(Records(f) \union Due(f))
    BY <1>4 DEF Interval
  <1>6. Due(f) \subseteq 1 .. day
    BY DEF Due
  <1>7. day \in Records(f) \union Due(f)
    <2>1. day \in 1 .. day /\ day \in Nat
      BY DEF Typed
    <2>2. last \in 1 .. day
      BY <1>1
    <2>3. CASE day > last
      BY <1>3, <2>1, <2>3
    <2>4. CASE ~(day > last)
      <3>1. last = day
        BY <2>1, <2>2, <2>4
      <3>2. QED
        BY <1>1, <3>1
    <2>5. QED
      BY <2>3, <2>4
  <1>8. QED
    BY <1>5, <1>6, <1>7

\* An interval whose next epoch is added, of one that is still to be written.
LEMMA NextOfInterval ==
    ASSUME NEW S \in SUBSET Epochs, NEW T \in SUBSET Epochs, NEW e \in T,
           \A y \in T : e <= y, Interval(S), Interval(S \union T), Below(S, T)
    PROVE  Interval(S \union {e})
  <1> SUFFICES ASSUME NEW a \in S \union {e}, NEW b \in S \union {e}, NEW z \in a .. b
               PROVE  z \in S \union {e}
    BY DEF Interval
  <1>1. S \subseteq Nat /\ T \subseteq Nat
    BY EpochsFinite
  <1>2. a \in Nat /\ b \in Nat /\ e \in Nat /\ z \in Nat /\ a <= z /\ z <= b
    <2>1. a \in Nat /\ b \in Nat /\ e \in Nat
      BY <1>1
    <2>2. QED
      BY <2>1
  <1>3. z \in S \union T
    BY DEF Interval
  <1>4. b <= e
    <2>1. b \in S => b < e
      BY DEF Below
    <2>2. QED
      BY <1>2, <2>1
  <1>5. CASE z \in S
    BY <1>5
  <1>6. CASE z \in T
    <2>1. e <= z
      BY <1>6
    <2>2. z = e
      BY <1>2, <1>4, <2>1
    <2>3. QED
      BY <2>2
  <1>7. QED
    BY <1>3, <1>5, <1>6

LEMMA BackfillSpan ==
    ASSUME NEW f, Sound(f), ~f.open, Records(f) # {}, Earliest(f) > 1, Interval(Records(f))
    PROVE  Interval(Records(Backfill(f)))
  <1> DEFINE g == Backfill(f)
             first == Earliest(f)
  <1>1. /\ Sound(g) /\ Records(f) \subseteq Records(g)
        /\ \A x \in Records(g) \ Records(f) : x < first
        /\ \A x \in Records(g), y \in Epochs : x < y /\ y < first => y \in Records(g)
    BY BackfillIs
  <1>2. first \in Records(f)
    BY Ends
  <1>3. Records(g) \subseteq Epochs /\ Epochs \subseteq Nat
    BY <1>1, SoundFile, EpochsFinite
  <1> HIDE DEF g, first
  <1>4. ASSUME NEW a \in Records(g), NEW b \in Records(g), NEW z \in a .. b
        PROVE  z \in Records(g)
    <2>1. a \in Epochs /\ b \in Epochs /\ a \in Nat /\ b \in Nat /\ first \in Nat
      BY <1>1, <1>2, <1>3
    <2>2. z \in Nat /\ a <= z /\ z <= b /\ z \in Epochs
      BY <2>1, <1>4, LastIsNat DEF Epochs
    <2>3. CASE z < first
      <3>1. CASE a = z
        BY <3>1
      <3>2. CASE a < z
        BY <1>1, <2>2, <2>3, <3>2
      <3>3. QED
        BY <2>1, <2>2, <3>1, <3>2
    <2>4. CASE first <= z
      <3>1. ~(b < first)
        BY <2>1, <2>2, <2>4
      <3>2. b \in Records(f)
        BY <1>1, <3>1
      <3>3. z \in first .. b
        BY <2>1, <2>2, <2>4
      <3>4. z \in Records(f)
        BY <1>2, <3>2, <3>3 DEF Interval
      <3>5. QED
        BY <1>1, <3>4
    <2>5. QED
      BY <2>1, <2>2, <2>3, <2>4
  <1>5. QED
    BY <1>4 DEF Interval, g

\* All the rounds after a round of the window are in the window with it.
LEMMA WindowServed ==
    ASSUME NEW S \in SUBSET Epochs, Interval(S), day \in S, Typed
    PROVE  \A e \in Newest(S, CacheN) : Served(e)
  <1> SUFFICES ASSUME NEW e \in Newest(S, CacheN) PROVE Served(e)
    OBVIOUS
  <1> DEFINE later == {x \in S : x > e}
  <1>1. e \in S /\ Cardinality(later) < CacheN
    BY DEF Newest
  <1>2. /\ e \in Nat /\ day \in Nat /\ CacheN \in Nat /\ Horizon \in Nat /\ CacheN <= Horizon
    <2>1. S \subseteq Nat
      BY EpochsFinite
    <2>2. QED
      BY <1>1, <2>1, StoreAssumption
  <1>3. e + 1 .. day \subseteq later
    <2>1. ASSUME NEW z \in e + 1 .. day PROVE z \in S /\ z > e
      <3>1. z \in e .. day /\ z > e
        BY <1>2
      <3>2. QED
        BY <1>1, <3>1 DEF Interval
    <2>2. QED
      BY <2>1
  <1>4. IsFiniteSet(later) /\ Cardinality(later) \in Nat
    BY EpochsFinite
  <1> HIDE DEF later
  <1>5. Cardinality(e + 1 .. day) <= Cardinality(later)
    BY <1>3, <1>4, FS_Subset
  <1>6. Cardinality(e + 1 .. day) = IF e + 1 > day THEN 0 ELSE day - (e + 1) + 1
    <2>1. e + 1 \in Int /\ day \in Int
      BY <1>2
    <2>2. QED
      BY <2>1, FS_Interval
  <1>7. Cardinality(later) < CacheN
    BY <1>1 DEF later
  <1>8. day - e <= Horizon
    BY <1>2, <1>4, <1>5, <1>6, <1>7
  <1>9. QED
    BY <1>8 DEF Served

LEMMA InitUnbroken == Init => Unbroken
  <1> SUFFICES ASSUME Init PROVE Unbroken
    OBVIOUS
  <1>1. /\ FirstDay \in Nat \ {0} /\ LastDay \in Nat /\ FirstDay <= LastDay
        /\ sync = Idle /\ day = FirstDay
    BY StoreAssumption DEF Init
  <1>2. PICK first \in 1 .. FirstDay : rounds = FromEpochs(first .. FirstDay)
    BY DEF Init
  <1>3. first .. FirstDay \subseteq Epochs
    BY <1>1 DEF Epochs
  <1>4. Records(rounds) = first .. FirstDay
    BY <1>2, <1>3, FromEpochsSound
  <1>5. Interval(Records(rounds)) /\ Records(rounds) \subseteq 1 .. day
    BY <1>1, <1>4 DEF Interval
  <1>6. QED
    BY <1>1, <1>5 DEF Unbroken, Idle

\* Steps that leave the rounds alone and plan nothing new.
LEMMA UnbrokenAlone ==
    ASSUME Unbroken, UNCHANGED <<day, rounds>>,
           \/ UNCHANGED sync
           \/ sync'.pc \notin {"rounds", "plan", "fetch", "write"}
           \/ /\ sync.pc \in {"fetch", "write"} /\ sync'.pc \in {"fetch", "write"}
              /\ sync'.todo \union sync'.older \subseteq sync.todo \union sync.older
    PROVE  Unbroken'
  <1>1. \A e : Served(e)' <=> Served(e)
    BY DEF Served
  <1>2. CASE UNCHANGED sync
    BY <1>1, <1>2 DEF Unbroken
  <1>3. CASE sync'.pc \notin {"rounds", "plan", "fetch", "write"}
    BY <1>3 DEF Unbroken
  <1>4. CASE /\ sync.pc \in {"fetch", "write"} /\ sync'.pc \in {"fetch", "write"}
             /\ sync'.todo \union sync'.older \subseteq sync.todo \union sync.older
    BY <1>1, <1>4 DEF Unbroken
  <1>5. QED
    BY <1>2, <1>3, <1>4

\* What a kill may add to the rounds is the next one.
LEMMA CutUnbroken ==
    ASSUME Calm, Kept1, Unbroken, CutSync
    PROVE  Interval(Records(rounds')) /\ Records(rounds') \subseteq 1 .. day
  <1>1. Ordered /\ Filed /\ sync.todo \subseteq Epochs
    BY SyncParts DEF Kept1
  <1>2. /\ Records(rounds) \subseteq Records(rounds')
        /\ \A e \in Records(rounds') \ Records(rounds) :
              sync.pc = "rounds" /\ sync.todo # {} /\ e = Least(sync.todo)
    BY CutSyncKeeps
  <1>3. CASE Records(rounds') = Records(rounds)
    BY <1>3 DEF Unbroken
  <1>4. CASE Records(rounds') # Records(rounds)
    <2>1. PICK e \in Records(rounds') : e \notin Records(rounds)
      BY <1>2, <1>4
    <2>2. sync.pc = "rounds" /\ sync.todo # {} /\ e = Least(sync.todo)
      BY <1>2, <2>1
    <2>3. e \in sync.todo /\ \A y \in sync.todo : e <= y
      BY <1>1, <2>2, LeastIs, EpochsFinite
    <2>4. Records(rounds') = Records(rounds) \union {e}
      BY <1>2, <2>1, <2>2
    <2>5. /\ Interval(Records(rounds)) /\ Interval(Records(rounds) \union sync.todo)
          /\ Below(Records(rounds), sync.todo) /\ Records(rounds) \subseteq Epochs
      BY <1>1, <2>2, SoundFile DEF Unbroken, Ordered, Filed
    <2>6. Interval(Records(rounds) \union {e})
      BY <1>1, <2>3, <2>5, NextOfInterval
    <2>7. Records(rounds') \subseteq 1 .. day
      BY <2>2, <2>3, <2>4 DEF Unbroken
    <2>8. QED
      BY <2>4, <2>6, <2>7
  <1>5. QED
    BY <1>3, <1>4

LEMMA RoundsUnbroken ==
    ASSUME Kept1, Unbroken, RoundsWrite \/ RoundsDone
    PROVE  Unbroken'
  <1>1. /\ Typed /\ Filed /\ Ordered /\ sync.pc = "rounds" /\ day' = day
        /\ sync.todo \subseteq Epochs /\ Records(rounds) \subseteq Epochs
    BY SyncParts, SoundFile DEF Kept1, Filed, RoundsWrite, RoundsDone
  <1>2. CASE RoundsWrite
    <2> DEFINE e == Least(sync.todo)
    <2>1. /\ e \in sync.todo /\ \A y \in sync.todo : e <= y
          /\ Records(rounds') = Records(rounds) \union {e}
          /\ sync' = [sync EXCEPT !.todo = sync.todo \ {e}]
      BY <1>2, RoundsWriteKeeps
    <2>2. sync'.pc = "rounds" /\ sync'.todo = sync.todo \ {e}
      BY <1>1, <2>1 DEF Typed, SyncType
    <2>3. /\ Interval(Records(rounds)) /\ Interval(Records(rounds) \union sync.todo)
          /\ Below(Records(rounds), sync.todo)
      BY <1>1 DEF Unbroken, Ordered
    <2> HIDE DEF e
    <2>4. Interval(Records(rounds) \union {e})
      BY <1>1, <2>1, <2>3, NextOfInterval
    <2>5. Records(rounds') \union sync'.todo = Records(rounds) \union sync.todo
      BY <2>1, <2>2
    <2>6. Records(rounds') \subseteq 1 .. day /\ sync'.todo \subseteq 1 .. day
      BY <1>1, <2>1, <2>2 DEF Unbroken
    <2>7. QED
      BY <1>1, <2>1, <2>2, <2>3, <2>4, <2>5, <2>6 DEF Unbroken
  <1>3. CASE RoundsDone
    <2> DEFINE tail == Newest(Records(rounds'), CacheN)
    <2>1. /\ rounds' = rounds \/ (Earliest(rounds) > 1 /\ rounds' = Backfill(rounds))
          /\ \/ Short /\ sync' = Fail("short") /\ rounds' = rounds
             \/ sync' = [sync EXCEPT !.pc = "plan", !.tail = tail]
          /\ Kept1' /\ Grows
      BY <1>3, RoundsDoneKeeps
    <2>2. Sound(rounds) /\ ~rounds.open /\ Records(rounds) # {} /\ sync.todo = {}
      BY <1>1, <1>3 DEF RoundsDone, Filed, Working
    <2>3. Interval(Records(rounds')) /\ Records(rounds') \subseteq Epochs
      <3>1. Interval(Records(rounds))
        BY DEF Unbroken
      <3>2. QED
        BY <2>1, <2>2, <3>1, BackfillSpan, SoundFile DEF Kept1, Filed
    <2>4. Records(rounds') \subseteq 1 .. day
      <3>1. CASE rounds' = rounds
        BY <3>1 DEF Unbroken
      <3>2. CASE Earliest(rounds) > 1 /\ rounds' = Backfill(rounds)
        <4>1. \A x \in Records(rounds') \ Records(rounds) : x < Earliest(rounds) /\ x \in Epochs
          BY <2>2, <3>2, BackfillIs
        <4>2. Earliest(rounds) \in 1 .. day
          BY <2>2, Ends DEF Unbroken
        <4>3. ASSUME NEW x \in Records(rounds'), x \notin Records(rounds) PROVE x \in 1 .. day
          <5>1. x < Earliest(rounds) /\ x \in 1 .. LastDay /\ day \in Nat
            BY <1>1, <4>1, <4>3 DEF Epochs, Typed
          <5>2. QED
            BY <4>2, <5>1
        <4>4. QED
          BY <4>3 DEF Unbroken
      <3>3. QED
        BY <2>1, <3>1, <3>2
    <2>5. day \in Records(rounds')
      BY <1>1, <2>1, <2>2 DEF Unbroken, Grows
    <2>6. \A e \in tail : Served(e)
      BY <1>1, <2>3, <2>5, WindowServed
    <2> HIDE DEF tail
    <2>7. CASE sync' = Fail("short")
      <3>1. sync'.pc = "over"
        BY <1>1, <2>7 DEF Typed, SyncType, Fail
      <3>2. QED
        BY <1>1, <2>3, <2>4, <3>1 DEF Unbroken
    <2>8. CASE sync' = [sync EXCEPT !.pc = "plan", !.tail = tail]
      <3>1. sync'.pc = "plan" /\ sync'.tail = tail
        BY <1>1, <2>8 DEF Typed, SyncType
      <3>2. \A e : Served(e)' <=> Served(e)
        BY <1>1 DEF Served
      <3>3. QED
        BY <1>1, <2>3, <2>4, <2>6, <3>1, <3>2 DEF Unbroken
    <2>9. QED
      BY <2>1, <2>7, <2>8
  <1>4. QED
    BY <1>2, <1>3

LEMMA PowerUnbroken ==
    ASSUME Calm, Kept1, Secured, Unbroken, PowerLoss
    PROVE  Unbroken'
  <1>1. (CutSync \/ Taken) /\ sync'.pc = "idle" /\ day' = day
    BY PowerLossKeeps DEF PowerLoss, Idle
  <1>2. CASE CutSync
    BY <1>1, <1>2, CutUnbroken DEF Unbroken
  <1>3. CASE Taken
    <2>1. /\ Sound(rounds) /\ safe.rounds \in 0 .. OnDisk(rounds)
          /\ rounds' \in Left(rounds, safe.rounds)
      <3>1. Sound(rounds) /\ OnDisk(rounds) \in Nat
        BY Lengths DEF Kept1, Filed, Longer, Sound
      <3>2. QED
        BY <1>3, <3>1 DEF Taken, Secured
    <2>2. /\ Records(rounds') \subseteq Records(rounds)
          /\ \A x \in Records(rounds'), y \in Records(rounds) : y < x => y \in Records(rounds')
      BY <2>1, LeftReads, LeftSound DEF Sound
    <2>3. Records(rounds) \subseteq Nat
      BY <2>1, SoundFile, EpochsFinite
    <2>4. ASSUME NEW a \in Records(rounds'), NEW b \in Records(rounds'), NEW z \in a .. b
          PROVE  z \in Records(rounds')
      <3>1. a \in Nat /\ b \in Nat /\ z \in Nat /\ z <= b
        <4>1. a \in Nat /\ b \in Nat
          BY <2>2, <2>3
        <4>2. QED
          BY <2>4, <4>1
      <3>2. z \in Records(rounds)
        BY <2>2, <2>4 DEF Unbroken, Interval
      <3>3. CASE z = b
        BY <3>3
      <3>4. CASE z < b
        BY <2>2, <3>2, <3>4
      <3>5. QED
        BY <3>1, <3>3, <3>4
    <2>5. Interval(Records(rounds'))
      BY <2>4 DEF Interval
    <2>6. QED
      BY <1>1, <2>2, <2>5 DEF Unbroken
  <1>4. QED
    BY <1>1, <1>2, <1>3

LEMMA UnbrokenStep == Calm /\ Kept1 /\ Secured /\ Unbroken /\ [Next]_vars => Unbroken'
  <1> SUFFICES ASSUME Calm, Kept1, Secured, Unbroken, [Next]_vars PROVE Unbroken'
    OBVIOUS
  <1>0. Typed /\ Ordered /\ sync \in SyncType
    BY DEF Kept1, Typed
  <1>1. ASSUME NEW allow \in BOOLEAN, SyncStart(allow) PROVE Unbroken'
    <2>1. /\ Kept1' /\ Records(rounds') = Records(rounds) /\ ~rounds'.open
          /\ \/ sync'.pc = "rounds" /\ sync'.todo = Due(rounds') /\ Records(rounds) # {}
             \/ sync'.pc = "over"
      BY <1>1, SyncStartKeeps
    <2>2. Sound(rounds') /\ UNCHANGED day
      BY <1>1, <2>1 DEF Kept1, Filed, SyncStart
    <2>3. CASE sync'.pc = "rounds" /\ sync'.todo = Due(rounds') /\ Records(rounds) # {}
      <3>1. /\ Interval(Records(rounds') \union Due(rounds'))
            /\ Due(rounds') \subseteq 1 .. day /\ day \in Records(rounds') \union Due(rounds')
        BY <1>0, <2>1, <2>2, <2>3, DueIs DEF Unbroken
      <3>2. QED
        BY <2>1, <2>2, <2>3, <3>1 DEF Unbroken
    <2>4. CASE sync'.pc = "over"
      BY <2>1, <2>2, <2>4 DEF Unbroken
    <2>5. QED
      BY <2>1, <2>3, <2>4
  <1>2. CASE RoundsWrite \/ RoundsDone
    BY <1>2, RoundsUnbroken
  <1>3. CASE KlinesPlan
    <2> DEFINE remaining == sync.tail \ Records(klines)
    <2>1. /\ sync.pc = "plan" /\ UNCHANGED <<day, rounds>>
          /\ sync'.pc \in {"check", "fetch"}
          /\ sync'.todo = After(klines, remaining) /\ sync'.older = Before(klines, remaining)
      BY <1>0, <1>3, Zenon DEF KlinesPlan, files, SyncType
    <2>2. sync'.todo \union sync'.older \subseteq sync.tail
      BY <2>1 DEF After, Before
    <2>3. \A e : Served(e)' <=> Served(e)
      BY <2>1 DEF Served
    <2>4. QED
      BY <2>1, <2>2, <2>3 DEF Unbroken
  <1>4. CASE FetchBatch
    <2>1. /\ sync.pc = "fetch" /\ UNCHANGED <<day, rounds>>
          /\ \/ sync'.pc = "over"
             \/ sync'.pc = "write" /\ sync'.older = sync.older
                /\ sync'.todo \union sync'.batch = sync.todo
      BY <1>4, FetchBatchKeeps DEF FetchBatch, files
    <2>2. QED
      BY <2>1, UnbrokenAlone
  <1>5. CASE WriteBatch
    <2>1. /\ sync.pc = "write" /\ UNCHANGED <<day, rounds, sync.older, sync.todo>>
          /\ sync'.pc \in {"fetch", "write"}
      BY <1>5, WriteBatchKeeps DEF WriteBatch
    <2>2. QED
      BY <2>1, UnbrokenAlone
  <1>6. CASE NextPass
    <2>1. /\ sync.pc = "fetch" /\ UNCHANGED <<day, rounds>>
          /\ \/ sync'.pc \in {"prepend", "check", "over"}
             \/ sync'.pc = "fetch" /\ sync'.older = sync.older /\ sync'.todo \subseteq sync.older
      BY <1>0, <1>6, NextPassKeeps DEF NextPass, files, Fail, SyncType
    <2>2. QED
      BY <2>1, UnbrokenAlone
  <1>7. CASE Prepend \/ Unlink \/ Check \/ SyncEnd
    <2>1. UNCHANGED <<day, rounds>> /\ sync'.pc \in {"unlink", "check", "done", "over", "idle"}
      BY <1>0, <1>7 DEF Prepend, Unlink, Check, SyncEnd, Idle, SyncType, files
    <2>2. QED
      BY <2>1, UnbrokenAlone
  <1>8. CASE KillSync
    <2>1. CutSync /\ sync'.pc = "over" /\ day' = day
      BY <1>0, <1>8 DEF KillSync, Fail, SyncType
    <2>2. QED
      BY <2>1, CutUnbroken DEF Unbroken
  <1>9. CASE PowerLoss
    BY <1>9, PowerUnbroken
  <1>10. CASE NewDay
    <2>1. sync.pc = "idle" /\ UNCHANGED <<sync, rounds>> /\ day' = day + 1 /\ day \in Nat
      BY <1>0, <1>10 DEF NewDay, files, Typed
    <2>2. 1 .. day \subseteq 1 .. day'
      BY <2>1
    <2>3. QED
      BY <2>1, <2>2 DEF Unbroken
  <1>11. CASE \/ LockHeld \/ DogStart \/ DogLook \/ DogCapture \/ DogStage \/ DogMark
              \/ MergeRead \/ MergeWrite \/ UNCHANGED vars
    <2>1. UNCHANGED <<day, sync, rounds>>
      BY <1>11 DEF LockHeld, DogStart, DogLook, DogCapture, DogStage, DogMark, MergeRead,
         MergeWrite, vars, files
    <2>2. QED
      BY <2>1, UnbrokenAlone
  <1>12. QED
    BY <1>1, <1>2, <1>3, <1>4, <1>5, <1>6, <1>7, <1>8, <1>9, <1>10, <1>11 DEF Next

-----------------------------------------------------------------------------
(* What a sync still owes: each epoch of its window is in the store, or     *)
(* planned, or staged, and in the end in the store, except for the two kinds *)
(* it reports and leaves alone, holes inside the store and, for the daily   *)
(* run, rounds before it.                                                   *)

Interior == IF sync.excuse = "none" THEN {} ELSE Holes(Records(klines))
Refused  == IF sync.allow THEN {} ELSE sync.older

\* The plan is made, and the run has not yet ended.
Planning == sync.pc \in {"fetch", "write", "prepend", "unlink", "check"}

Promised ==
    /\ sync.pc \in {"rounds", "plan"} => sync.excuse = "none"
    /\ Planning =>
          /\ sync.excuse \in {"none", "older", "interior"}
          /\ sync.excuse = "older" <=> Refused # {}
          /\ Refused \subseteq sync.tail /\ Below(Refused, Records(klines))
          /\ Refused # {} => Records(klines) # {}
    /\ Fetching =>
          sync.tail \subseteq Records(klines) \union sync.older \union sync.todo
                                 \union sync.batch \union Interior
    /\ Staging => sync.older \subseteq Records(staging) \union sync.todo \union sync.batch
    /\ Staging \/ sync.pc \in {"prepend", "unlink"} =>
          sync.allow /\ sync.tail \subseteq Records(klines) \union sync.older \union Interior
    /\ sync.pc = "prepend" => sync.older \subseteq Records(staging)
    /\ sync.pc = "unlink" => sync.older \subseteq Records(klines)
    /\ sync.pc = "check" => sync.tail \subseteq Records(klines) \union Refused \union Interior
    /\ SyncFailsForCause

LEMMA InitPromised == Init => Promised
  BY DEF Init, Promised, Planning, SyncFailsForCause, Idle, Fetching, Staging

\* Nothing is owed before the plan, or when there is no sync.
LEMMA NothingOwed ==
    ASSUME \/ sync'.pc \in {"idle", "done"}
           \/ sync'.pc \in {"rounds", "plan"} /\ sync'.excuse = "none"
           \/ sync'.pc = "over" /\ SyncFailsForCause'
    PROVE  Promised'
  <1>1. ~Planning' /\ ~Fetching' /\ ~Staging' /\ sync'.pc \notin {"prepend", "unlink", "check"}
    BY DEF Planning, Fetching, Staging
  <1>2. SyncFailsForCause'
    BY DEF SyncFailsForCause
  <1>3. sync'.pc \in {"rounds", "plan"} => sync'.excuse = "none"
    OBVIOUS
  <1>4. QED
    BY <1>1, <1>2, <1>3 DEF Promised

\* A hole of a store that grows is filled or stays one.
LEMMA HolesStay ==
    ASSUME NEW S \in SUBSET Epochs, NEW T \in SUBSET Epochs, S \subseteq T
    PROVE  Holes(S) \subseteq T \union Holes(T)
  <1> SUFFICES ASSUME NEW e \in Holes(S), e \notin T PROVE e \in Holes(T)
    OBVIOUS
  <1>1. e \in Nat /\ (\E x \in S : x < e) /\ (\E y \in S : e < y)
    BY HolesAre
  <1>2. QED
    BY <1>1, HolesAre

LEMMA PlanPromises ==
    ASSUME Kept1, Promised, KlinesPlan
    PROVE  Promised'
  <1> DEFINE remaining == sync.tail \ Records(klines)
             append    == After(klines, remaining)
             older     == Before(klines, remaining)
             excuse    == IF older # {} /\ ~sync.allow THEN "older"
                          ELSE IF remaining \ (append \union older) # {} THEN "interior"
                          ELSE sync.excuse
             pc        == IF remaining = {} THEN "check" ELSE "fetch"
             refused   == IF sync.allow THEN {} ELSE older
  <1>1. /\ Typed /\ Filed /\ UNCHANGED klines /\ sync.allow \in BOOLEAN /\ sync.pc = "plan"
        /\ sync' = [sync EXCEPT !.pc = pc, !.into = "klines", !.todo = append, !.older = older,
                                !.excuse = excuse]
    BY SyncParts DEF Kept1, KlinesPlan, files
  <1>2. pc \in {"check", "fetch"} /\ (pc = "check" <=> remaining = {})
    OBVIOUS
  <1>3. sync.excuse = "none"
    BY <1>1 DEF Promised
  <1>4. /\ excuse \in {"none", "older", "interior"} /\ (excuse = "older" <=> refused # {})
        /\ excuse = "none" => remaining \subseteq append \union older
    BY <1>1, <1>3
  <1>5. /\ Sound(klines) /\ ~klines.open /\ Records(klines) \in SUBSET Epochs
        /\ remaining \in SUBSET Epochs
    BY <1>1, SoundFile, SyncParts DEF Filed, Working
  <1>6. /\ Below(older, Records(klines)) /\ older \subseteq remaining /\ append \subseteq remaining
        /\ \A e \in remaining : (\A x \in Records(klines) : x < e) => e \in append
        /\ \A e \in remaining :
              Records(klines) # {} /\ (\A x \in Records(klines) : e < x) => e \in older
    BY <1>5, PlanSplits
  <1>7. older # {} => Records(klines) # {}
    BY <1>5, Ends DEF Before
  <1>8. remaining \subseteq append \union older \union Holes(Records(klines))
    <2>1. SUFFICES ASSUME NEW e \in remaining, e \notin append, e \notin older
                   PROVE  e \in Holes(Records(klines))
      OBVIOUS
    <2>2. e \in Nat /\ e \notin Records(klines) /\ Records(klines) \subseteq Nat
      BY <1>5, EpochsFinite
    <2>3. PICK x \in Records(klines) : ~(x < e)
      BY <1>6, <2>1
    <2>4. PICK y \in Records(klines) : ~(e < y)
      BY <1>6, <2>1, <2>3
    <2>5. e < x /\ y < e
      <3>1. x \in Nat /\ y \in Nat /\ x # e /\ y # e
        BY <2>2
      <3>2. QED
        BY <2>2, <2>3, <2>4, <3>1
    <2>6. QED
      BY <1>5, <2>2, <2>5, HolesAre
  <1>9. sync.tail \subseteq Records(klines) \union remaining /\ remaining \subseteq sync.tail
    OBVIOUS
  <1>10. refused \subseteq older
    OBVIOUS
  <1>11. /\ sync'.pc = pc /\ sync'.into = "klines" /\ sync'.todo = append /\ sync'.older = older
         /\ sync'.excuse = excuse /\ sync'.tail = sync.tail /\ sync'.allow = sync.allow
    BY <1>1 DEF Typed, SyncType
  <1>12. Refused' = refused
    BY <1>11 DEF Refused
  <1>13. Interior' = IF excuse = "none" THEN {} ELSE Holes(Records(klines))
    BY <1>1, <1>11 DEF Interior
  <1> HIDE DEF remaining, append, older, excuse, pc, refused
  <1>14. remaining \subseteq append \union older \union Interior'
    BY <1>4, <1>8, <1>13
  <1>15. SyncFailsForCause'
    BY <1>2, <1>11 DEF SyncFailsForCause
  <1>16. Refused' \subseteq sync'.tail /\ Below(Refused', Records(klines'))
    BY <1>1, <1>6, <1>9, <1>10, <1>11, <1>12 DEF Below
  <1>17. Fetching' => sync'.tail \subseteq Records(klines') \union sync'.older \union sync'.todo
                                            \union sync'.batch \union Interior'
    BY <1>1, <1>9, <1>11, <1>14
  <1>18. sync'.pc = "check" => sync'.tail \subseteq Records(klines')
    BY <1>1, <1>2, <1>9, <1>11
  <1>19. QED
    BY <1>1, <1>2, <1>4, <1>7, <1>10, <1>11, <1>12, <1>15, <1>16, <1>17, <1>18
       DEF Promised, Planning, Fetching, Staging

\* Steps within the plan that leave the klines alone.
LEMMA PlanKept ==
    ASSUME Promised, Planning, UNCHANGED klines, sync'.pc # "over",
           UNCHANGED <<sync.allow, sync.tail, sync.older, sync.excuse>>
    PROVE  /\ Refused' = Refused /\ Interior' = Interior /\ SyncFailsForCause'
           /\ sync'.excuse \in {"none", "older", "interior"}
           /\ sync'.excuse = "older" <=> Refused' # {}
           /\ Refused' \subseteq sync'.tail /\ Below(Refused', Records(klines'))
           /\ Refused' # {} => Records(klines') # {}
  <1>1. Refused' = Refused /\ Interior' = Interior
    BY DEF Refused, Interior
  <1>2. SyncFailsForCause'
    BY DEF SyncFailsForCause
  <1>3. QED
    BY <1>1, <1>2 DEF Promised

LEMMA FetchPromises ==
    ASSUME Kept1, Unbroken, Promised, FetchBatch
    PROVE  Promised'
  <1> DEFINE batch == Oldest(sync.todo, BatchSize)
  <1>1. /\ sync.pc = "fetch" /\ sync.batch = {} /\ Typed /\ UNCHANGED <<klines, staging>>
        /\ sync.todo \subseteq Epochs
    BY SyncParts DEF Kept1, Ordered, FetchBatch, files
  <1>2. \A e \in batch : Served(e)
    BY <1>1 DEF Unbroken, Oldest
  <1>3. \/ sync' = Fail("fault")
        \/ sync' = [sync EXCEPT !.pc = "write", !.batch = batch, !.todo = sync.todo \ batch]
    BY <1>2 DEF FetchBatch
  <1>4. batch \subseteq sync.todo
    BY DEF Oldest
  <1> HIDE DEF batch
  <1>5. CASE sync' = Fail("fault")
    <2>1. sync'.pc = "over" /\ sync'.excuse = "fault"
      BY <1>1, <1>5 DEF Fail, Typed, SyncType
    <2>2. QED
      BY <2>1, NothingOwed DEF SyncFailsForCause
  <1>6. CASE sync' = [sync EXCEPT !.pc = "write", !.batch = batch, !.todo = sync.todo \ batch]
    <2>1. /\ sync'.pc = "write" /\ sync'.todo \union sync'.batch = sync.todo
          /\ UNCHANGED <<sync.allow, sync.into, sync.tail, sync.older, sync.excuse>>
      BY <1>1, <1>4, <1>6 DEF Typed, SyncType
    <2>2. (Fetching' <=> Fetching) /\ (Staging' <=> Staging) /\ Planning /\ Planning'
      BY <1>1, <2>1 DEF Fetching, Staging, Planning
    <2>3. QED
      BY <1>1, <2>1, <2>2, PlanKept DEF Promised
  <1>7. QED
    BY <1>3, <1>5, <1>6

LEMMA WritePromises ==
    ASSUME Kept1, Promised, WriteBatch
    PROVE  Promised'
  <1> DEFINE e == Least(sync.batch)
  <1>1. /\ e \in sync.batch /\ sync'.batch = sync.batch \ {e} /\ Kept1'
        /\ sync'.pc \in {"fetch", "write"}
        /\ UNCHANGED <<sync.allow, sync.into, sync.tail, sync.older, sync.excuse, sync.todo>>
        /\ IF sync.into = "klines"
           THEN Records(klines') = Records(klines) \union {e} /\ staging' = staging
           ELSE Records(staging') = Records(staging) \union {e} /\ klines' = klines
    BY WriteBatchKeeps
  <1>2. sync.pc = "write" /\ sync.into \in {"klines", "staging"} /\ Ordered /\ Planning /\ Planning'
    BY <1>1, SyncParts DEF WriteBatch, Kept1, Planning
  <1>3. Records(klines) \in SUBSET Epochs /\ Records(klines') \in SUBSET Epochs
    BY <1>1, SoundFile DEF Kept1, Filed
  <1>4. sync.older \subseteq Nat /\ sync.batch \subseteq Nat
    BY SyncParts, EpochsFinite DEF Kept1
  <1> HIDE DEF e
  <1>5. CASE sync.into = "klines"
    <2>1. Records(klines') = Records(klines) \union {e} /\ Fetching /\ Fetching' /\ ~Staging'
      BY <1>1, <1>2, <1>5 DEF Fetching, Staging
    <2>2. Refused' = Refused /\ Refused \subseteq sync.older
      BY <1>1 DEF Refused
    <2>3. Interior \subseteq Records(klines') \union Interior'
      BY <1>1, <1>3, <2>1, HolesStay DEF Interior
    <2>4. sync.tail \subseteq Records(klines') \union sync'.older \union sync'.todo
                                \union sync'.batch \union Interior'
      BY <1>1, <2>1, <2>3 DEF Promised
    <2>5. Below(Refused', Records(klines'))
      <3>1. ASSUME NEW y \in Refused PROVE y < e
        <4>1. PICK x \in Records(klines) : y < x
          BY <1>2, <3>1 DEF Promised, Below
        <4>2. x < e /\ x \in Nat /\ e \in Nat /\ y \in Nat
          BY <1>1, <1>2, <1>3, <1>4, <2>1, <2>2, <3>1, EpochsFinite DEF Ordered, Below
        <4>3. QED
          BY <4>1, <4>2
      <3>2. QED
        BY <1>2, <2>1, <2>2, <3>1 DEF Promised, Below
    <2>6. SyncFailsForCause'
      BY <1>1 DEF SyncFailsForCause
    <2>7. QED
      BY <1>1, <1>2, <2>1, <2>2, <2>4, <2>5, <2>6 DEF Promised
  <1>6. CASE sync.into = "staging"
    <2>1. /\ Records(staging') = Records(staging) \union {e} /\ klines' = klines
          /\ Staging /\ Staging' /\ ~Fetching'
      BY <1>1, <1>2, <1>6 DEF Fetching, Staging
    <2>2. sync'.pc # "over"
      BY <1>1
    <2>3. QED
      BY <1>1, <1>2, <2>1, <2>2, PlanKept DEF Promised
  <1>7. QED
    BY <1>2, <1>5, <1>6

LEMMA PassPromises ==
    ASSUME Kept1, Promised, NextPass
    PROVE  Promised'
  <1>1. /\ sync.pc = "fetch" /\ sync.todo = {} /\ sync.batch = {} /\ Typed /\ Planning
        /\ sync.into \in {"klines", "staging"} /\ sync.allow \in BOOLEAN
        /\ UNCHANGED <<klines, staging>>
    BY SyncParts DEF Kept1, Ordered, NextPass, files, Planning
  <1>2. CASE sync.into = "staging" /\ sync' = [sync EXCEPT !.pc = "prepend"]
    <2>1. /\ sync'.pc = "prepend"
          /\ UNCHANGED <<sync.allow, sync.tail, sync.older, sync.excuse>>
      BY <1>1, <1>2 DEF Typed, SyncType
    <2>2. QED
      BY <1>1, <1>2, <2>1, PlanKept DEF Promised, Planning, Fetching, Staging
  <1>3. CASE /\ sync.into = "klines" /\ (sync.older = {} \/ ~sync.allow)
             /\ sync' = [sync EXCEPT !.pc = "check"]
    <2>1. /\ sync'.pc = "check"
          /\ UNCHANGED <<sync.allow, sync.tail, sync.older, sync.excuse>>
      BY <1>1, <1>3 DEF Typed, SyncType
    <2>2. sync.older \subseteq Refused
      BY <1>3 DEF Refused
    <2>3. sync.tail \subseteq Records(klines) \union Refused \union Interior
      BY <1>1, <1>3, <2>2 DEF Promised, Fetching
    <2>4. QED
      BY <1>1, <2>1, <2>3, PlanKept DEF Promised, Planning, Fetching, Staging
  <1>4. CASE sync' = Fail("staging")
    <2>1. sync'.pc = "over" /\ sync'.excuse = "staging" /\ sync'.allow = sync.allow
      BY <1>1, <1>4 DEF Typed, SyncType, Fail
    <2>2. sync.into # "staging"
      <3>1. sync.into = "staging" => sync'.pc = "prepend"
        BY <1>1 DEF NextPass, Typed, SyncType
      <3>2. QED
        BY <2>1, <3>1
    <2>3. sync.allow
      <3>1. ~sync.allow => sync'.pc = "check"
        BY <1>1, <2>2 DEF NextPass, Typed, SyncType
      <3>2. QED
        BY <2>1, <3>1
    <2>4. ~Readable(staging)
      <3>1. sync.older = {} => sync'.pc = "check"
        BY <1>1, <2>2 DEF NextPass, Typed, SyncType
      <3>2. Readable(staging) /\ sync.older # {} => sync'.pc = "fetch"
        BY <1>1, <2>2, <2>3 DEF NextPass, Typed, SyncType
      <3>3. QED
        BY <2>1, <3>1, <3>2
    <2>5. QED
      BY <1>1, <2>1, <2>3, <2>4, NothingOwed DEF SyncFailsForCause
  <1>5. CASE /\ sync.into = "klines" /\ sync.older # {} /\ sync.allow
             /\ sync' = [sync EXCEPT !.into = "staging", !.todo = sync.older \ Records(staging)]
    <2>1. /\ sync'.pc = "fetch" /\ sync'.into = "staging" /\ sync'.batch = {}
          /\ sync'.todo = sync.older \ Records(staging)
          /\ UNCHANGED <<sync.allow, sync.tail, sync.older, sync.excuse>>
      BY <1>1, <1>5 DEF Typed, SyncType
    <2>2. sync.tail \subseteq Records(klines) \union sync.older \union Interior
      BY <1>1, <1>5 DEF Promised, Fetching
    <2>3. QED
      BY <1>1, <1>5, <2>1, <2>2, PlanKept DEF Promised, Planning, Fetching, Staging
  <1>6. QED
    BY <1>2, <1>3, <1>4, <1>5, NextPassKeeps

LEMMA EndPromises ==
    ASSUME Kept1, Promised, Prepend \/ Unlink \/ Check
    PROVE  Promised'
  <1>1. Typed /\ Filed /\ sync.pc \in {"prepend", "unlink", "check"} /\ Planning
    BY DEF Kept1, Prepend, Unlink, Check, Planning
  <1>2. CASE Prepend
    <2>1. /\ sync.pc = "prepend" /\ Records(klines') = Records(staging) \union Records(klines)
          /\ sync' = [sync EXCEPT !.pc = "unlink"] /\ Kept1'
      BY <1>2, PrependKeeps DEF Prepend
    <2>2. sync'.pc = "unlink" /\ UNCHANGED <<sync.allow, sync.tail, sync.older, sync.excuse>>
      BY <1>1, <2>1 DEF Typed, SyncType
    <2>3. sync.allow /\ Refused = {} /\ Refused' = {}
      BY <1>1, <2>1, <2>2 DEF Promised, Refused
    <2>4. Interior \subseteq Records(klines') \union Interior'
      <3>1. Records(klines) \in SUBSET Epochs /\ Records(klines') \in SUBSET Epochs
        BY <1>1, <2>1, SoundFile DEF Kept1, Filed
      <3>2. QED
        BY <2>1, <2>2, <3>1, HolesStay DEF Interior
    <2>5. /\ sync.tail \subseteq Records(klines') \union sync.older \union Interior'
          /\ sync.older \subseteq Records(klines')
      BY <2>1, <2>4 DEF Promised
    <2>6. SyncFailsForCause' /\ Below(Refused', Records(klines'))
      BY <2>2, <2>3 DEF SyncFailsForCause, Below
    <2>7. QED
      BY <1>1, <2>2, <2>3, <2>5, <2>6 DEF Promised, Planning, Fetching, Staging
  <1>3. CASE Unlink
    <2>1. sync.pc = "unlink" /\ UNCHANGED klines /\ sync' = [sync EXCEPT !.pc = "check"]
      BY <1>3 DEF Unlink
    <2>2. sync'.pc = "check" /\ UNCHANGED <<sync.allow, sync.tail, sync.older, sync.excuse>>
      BY <1>1, <2>1 DEF Typed, SyncType
    <2>3. sync.tail \subseteq Records(klines) \union Interior
      BY <2>1 DEF Promised
    <2>4. QED
      BY <1>1, <2>1, <2>2, <2>3, PlanKept DEF Promised, Planning, Fetching, Staging
  <1>4. CASE Check
    <2>1. /\ sync.pc = "check" /\ UNCHANGED klines
          /\ sync' = [sync EXCEPT !.pc = IF Aligned THEN "done" ELSE "over"]
      BY <1>4 DEF Check, files
    <2>2. /\ sync'.pc = IF Aligned THEN "done" ELSE "over"
          /\ UNCHANGED <<sync.allow, sync.tail, sync.older, sync.excuse>>
      BY <1>1, <2>1 DEF Typed, SyncType
    <2>3. Readable(klines)
      BY <1>1, <2>1, SoundFile DEF Filed, Working
    <2>4. CASE Aligned
      <3>1. sync'.pc = "done"
        BY <2>2, <2>4
      <3>2. QED
        BY <3>1, NothingOwed
    <2>5. CASE ~Aligned
      <3>1. sync'.pc = "over"
        BY <2>2, <2>5
      <3>2. /\ sync.tail \subseteq Records(klines) \union Refused \union Interior
            /\ sync.excuse \in {"none", "older", "interior"}
            /\ sync.excuse = "older" <=> Refused # {}
            /\ Refused \subseteq sync.tail /\ Below(Refused, Records(klines))
        BY <1>1, <2>1 DEF Promised
      <3>3. PICK e \in sync.tail : e \notin Records(klines)
        BY <2>3, <2>5 DEF Aligned
      <3>4. CASE sync.excuse = "older"
        <4>1. PICK y \in Refused : TRUE
          BY <3>2, <3>4
        <4>2. ~sync.allow /\ y \in sync.tail /\ \A x \in Records(klines) : y < x
          BY <3>2, <4>1 DEF Refused, Below
        <4>3. SyncFailsForCause'
          BY <2>1, <2>2, <3>4, <4>2 DEF SyncFailsForCause
        <4>4. QED
          BY <3>1, <4>3, NothingOwed
      <3>5. CASE sync.excuse = "interior"
        <4>1. e \in Interior
          BY <3>2, <3>3, <3>5
        <4>2. e \in Holes(Records(klines))
          BY <3>5, <4>1 DEF Interior
        <4>3. SyncFailsForCause'
          BY <2>1, <2>2, <3>3, <3>5, <4>2 DEF SyncFailsForCause
        <4>4. QED
          BY <3>1, <4>3, NothingOwed
      <3>6. sync.excuse # "none"
        BY <3>2, <3>3 DEF Interior
      <3>7. QED
        BY <3>2, <3>4, <3>5, <3>6
    <2>6. QED
      BY <2>4, <2>5
  <1>5. QED
    BY <1>2, <1>3, <1>4

\* Steps that change neither the sync nor the files that a verdict speaks of.
LEMMA PromisesAlone ==
    ASSUME Promised, UNCHANGED <<sync, rounds, klines, staging>>
    PROVE  Promised'
  <1>1. Refused' = Refused /\ Interior' = Interior /\ (Planning' <=> Planning)
    BY DEF Refused, Interior, Planning
  <1>2. (Fetching' <=> Fetching) /\ (Staging' <=> Staging) /\ Needed' = Needed
    BY DEF Fetching, Staging, Needed
  <1>3. SyncFailsForCause'
    BY <1>2 DEF Promised, SyncFailsForCause
  <1>4. QED
    BY <1>1, <1>2, <1>3 DEF Promised

LEMMA PromisedStep == Calm /\ Kept1 /\ Unbroken /\ Promised /\ [Next]_vars => Promised'
  <1> SUFFICES ASSUME Calm, Kept1, Unbroken, Promised, [Next]_vars PROVE Promised'
    OBVIOUS
  <1>1. Typed
    BY DEF Kept1
  <1>2. ASSUME NEW allow \in BOOLEAN, SyncStart(allow) PROVE Promised'
    <2>1. \/ sync'.pc = "rounds" /\ sync'.excuse = "none"
          \/ /\ sync'.pc = "over" /\ sync'.excuse = "empty" /\ MayLoseUnsynced
             /\ rounds'.lines = <<>>
      BY <1>2, SyncStartKeeps
    <2>2. QED
      BY <2>1, NothingOwed DEF SyncFailsForCause
  <1>3. CASE RoundsWrite
    <2>1. sync.pc = "rounds" /\ sync' = [sync EXCEPT !.todo = sync.todo \ {Least(sync.todo)}]
      BY <1>3 DEF RoundsWrite
    <2>2. sync'.pc = "rounds" /\ sync'.excuse = "none"
      BY <1>1, <2>1 DEF Typed, SyncType, Promised
    <2>3. QED
      BY <2>2, NothingOwed
  <1>4. CASE RoundsDone
    <2> DEFINE tail == Newest(Records(rounds'), CacheN)
    <2>1. /\ sync.pc = "rounds" /\ sync.excuse = "none"
          /\ \/ Short /\ sync' = Fail("short") /\ rounds' = rounds
             \/ sync' = [sync EXCEPT !.pc = "plan", !.tail = tail]
      BY <1>4, RoundsDoneKeeps DEF RoundsDone, Promised
    <2> HIDE DEF tail
    <2>2. CASE Short /\ sync' = Fail("short") /\ rounds' = rounds
      <3>1. sync'.pc = "over" /\ sync'.excuse = "short" /\ sync'.allow = sync.allow
        BY <1>1, <2>2 DEF Fail, Typed, SyncType
      <3>2. sync'.allow /\ Needed' >= Earliest(rounds')
        BY <2>2, <3>1 DEF Short, Needed
      <3>3. QED
        BY <3>1, <3>2, NothingOwed DEF SyncFailsForCause
    <2>3. CASE sync' = [sync EXCEPT !.pc = "plan", !.tail = tail]
      <3>1. sync'.pc = "plan" /\ sync'.excuse = "none"
        BY <1>1, <2>1, <2>3 DEF Typed, SyncType
      <3>2. QED
        BY <3>1, NothingOwed
    <2>4. QED
      BY <2>1, <2>2, <2>3
  <1>5. CASE KlinesPlan
    BY <1>5, PlanPromises
  <1>6. CASE FetchBatch
    BY <1>6, FetchPromises
  <1>7. CASE WriteBatch
    BY <1>7, WritePromises
  <1>8. CASE NextPass
    BY <1>8, PassPromises
  <1>9. CASE Prepend \/ Unlink \/ Check
    BY <1>9, EndPromises
  <1>10. CASE SyncEnd \/ PowerLoss
    <2>1. sync'.pc = "idle"
      BY <1>10 DEF SyncEnd, PowerLoss, Idle
    <2>2. QED
      BY <2>1, NothingOwed
  <1>11. CASE KillSync
    <2>1. sync'.pc = "over" /\ sync'.excuse = "killed"
      BY <1>1, <1>11 DEF KillSync, Fail, Typed, SyncType
    <2>2. QED
      BY <2>1, NothingOwed DEF SyncFailsForCause
  <1>12. CASE MergeWrite
    <2>1. sync'.pc = "idle"
      BY <1>12, MergeWriteKeeps DEF MergeWrite
    <2>2. QED
      BY <2>1, NothingOwed
  <1>13. CASE \/ LockHeld \/ DogStart \/ DogLook \/ DogCapture \/ DogStage \/ DogMark
              \/ MergeRead \/ NewDay \/ UNCHANGED vars
    BY <1>13, PromisesAlone DEF LockHeld, DogStart, DogLook, DogCapture, DogStage, DogMark,
       MergeRead, NewDay, vars, files
  <1>14. QED
    BY <1>2, <1>3, <1>4, <1>5, <1>6, <1>7, <1>8, <1>9, <1>10, <1>11, <1>12, <1>13 DEF Next

\* What an inductive argument carries of a sync: its files, its rounds and its promises.
LEMMA PromisedInvariant ==
    ASSUME Calm
    PROVE  Spec => [](Kept1 /\ Unbroken /\ Promised)
  <1>1. Spec => [](Kept1 /\ Secured)
    BY AllKept
  <1>2. Kept1 /\ Secured /\ Unbroken /\ [Next]_vars => Unbroken'
    BY UnbrokenStep
  <1>3. Kept1 /\ Unbroken /\ Promised /\ [Next]_vars => Promised'
    BY PromisedStep
  <1>4. QED
    BY <1>1, <1>2, <1>3, InitUnbroken, InitPromised, PTL DEF Spec

\* A sync fails only for a cause it names: missed days, kills and torn tails of earlier runs
\* are none (daily_sync.ps1:53), and no round of its window is ever too old to be fetched,
\* as long as no kill cuts a newline off and no merge runs while a sync does.
THEOREM FailuresExplained ==
    ASSUME ~MayCutNewline, ~MayOverlap
    PROVE  Spec => []SyncFailsForCause
  <1>1. Promised => SyncFailsForCause
    BY DEF Promised
  <1>2. Spec => [](Kept1 /\ Unbroken /\ Promised)
    BY PromisedInvariant DEF Calm
  <1>3. QED
    BY <1>1, <1>2, PTL

-----------------------------------------------------------------------------
(* Holes.  The rounds are without one, the window is an end of the rounds,  *)
(* and all that any process will put into the kline store is a round that   *)
(* lies after a record the store already has, or is in the window.  This    *)
(* needs that no power loss takes a part of one file and not of another.    *)

Within(S, T) == \A e \in S : \E x \in T : x < e

Prepending == Staging \/ sync.pc = "prepend"
Windowing  == sync.pc \in {"plan", "fetch", "write", "prepend"}

\* No run of the operator begins over a staging file that an earlier one left.
NoStale == sync.allow /\ sync.into = "klines" => Records(staging) = {}

Spanned ==
    /\ Records(klines) # {} /\ Records(klines) \subseteq Records(rounds)
    /\ Records(held) \subseteq Records(rounds) /\ dog.batch \subseteq Records(rounds)
    /\ Within(Records(held), Records(klines)) /\ Within(dog.batch, Records(klines))
    /\ merge.pc = "ready" => merge.result \subseteq Records(klines) \union Records(held)

InWindow ==
    Windowing => /\ sync.tail \subseteq Records(rounds)
                 /\ \A t \in sync.tail, r \in Records(rounds) : t < r => r \in sync.tail

PlannedInside ==
    /\ Fetching \/ Prepending => sync.older \subseteq sync.tail
    /\ Fetching => sync.todo \subseteq sync.tail /\ sync.batch \subseteq sync.tail
    /\ Staging => sync.todo \subseteq sync.older /\ sync.batch \subseteq sync.older
    /\ Prepending => Records(staging) \subseteq sync.older

PlannedAll ==
    /\ Fetching => \A t \in sync.tail :
                      Below(Records(klines), {t}) => t \in sync.todo \union sync.batch
    /\ Fetching \/ Prepending =>
          /\ Below(sync.older, Records(klines))
          /\ \A t \in sync.tail : Below({t}, Records(klines)) => t \in sync.older

Kept2 == Spanned /\ InWindow /\ PlannedInside /\ PlannedAll

Lasting == Calm /\ ~MayLoseUnsynced

LEMMA InitKept2 == Init => Kept2
  <1> SUFFICES ASSUME Init PROVE Kept2
    OBVIOUS
  <1>0. /\ FirstDay \in Nat \ {0} /\ LastDay \in Nat /\ FirstDay <= LastDay
        /\ sync = Idle /\ dog = NoDog /\ merge = NoMerge /\ held = NoFile
    BY StoreAssumption DEF Init
  <1>1. PICK first \in 1 .. FirstDay : rounds = FromEpochs(first .. FirstDay)
    BY DEF Init
  <1>2. first .. FirstDay \subseteq Epochs
    BY <1>0 DEF Epochs
  <1>3. Records(rounds) = first .. FirstDay
    BY <1>1, <1>2, FromEpochsSound
  <1>4. PICK first2 \in Records(rounds), lack \in SUBSET Records(rounds) :
               /\ (first2 .. FirstDay) \ lack # {}
               /\ klines = FromEpochs((first2 .. FirstDay) \ lack)
    BY DEF Init
  <1>5. (first2 .. FirstDay) \ lack \subseteq Records(rounds)
    BY <1>0, <1>3
  <1>6. Records(klines) = (first2 .. FirstDay) \ lack
    BY <1>2, <1>3, <1>4, <1>5, FromEpochsSound
  <1>8. Records(held) = {} /\ dog.batch = {} /\ sync.pc = "idle" /\ merge.pc = "idle"
    BY <1>0, EmptyFile DEF NoDog, Idle, NoMerge
  <1>9. Spanned
    BY <1>4, <1>5, <1>6, <1>8 DEF Spanned, Within
  <1>10. QED
    BY <1>8, <1>9 DEF Kept2, InWindow, PlannedInside, PlannedAll, Windowing, Fetching, Staging,
       Prepending

LEMMA WithinGrows ==
    ASSUME NEW S, NEW T, NEW U, Within(S, T), T \subseteq U
    PROVE  Within(S, U)
  BY DEF Within

\* Steps after which no sync is at work on the klines: only the span matters.
LEMMA NoPlan ==
    ASSUME sync'.pc \in {"idle", "rounds", "unlink", "check", "done", "over"}, Spanned'
    PROVE  Kept2'
  BY DEF Kept2, InWindow, PlannedInside, PlannedAll, Windowing, Fetching, Staging, Prepending

\* Steps that change neither the sync nor the three files it works on.
LEMMA PlanAlone ==
    ASSUME Kept2, UNCHANGED <<sync, rounds, klines, staging>>, Spanned'
    PROVE  Kept2'
  BY DEF Kept2, InWindow, PlannedInside, PlannedAll, Windowing, Fetching, Staging, Prepending

LEMMA SpanAlone ==
    ASSUME Spanned, UNCHANGED <<rounds, klines, held>>,
           UNCHANGED dog \/ dog'.batch = {},
           UNCHANGED merge \/ merge'.pc # "ready"
    PROVE  Spanned'
  BY DEF Spanned, Within

LEMMA SpanSyncStart ==
    ASSUME Lasting, Kept1, Kept2, NEW allow \in BOOLEAN, SyncStart(allow)
    PROVE  Kept2'
  <1>1. /\ Records(rounds') = Records(rounds) /\ Records(klines') = Records(klines)
        /\ sync'.pc \in {"rounds", "over"}
    BY SyncStartKeeps DEF Lasting
  <1>2. Spanned /\ UNCHANGED <<held, dog, merge>>
    BY DEF Kept2, SyncStart
  <1>3. Spanned'
    BY <1>1, <1>2 DEF Spanned
  <1>4. QED
    BY <1>1, <1>3, NoPlan

LEMMA SpanRounds ==
    ASSUME Kept1, Kept2, RoundsWrite \/ RoundsDone
    PROVE  Kept2'
  <1>1. Typed /\ Spanned /\ sync.pc = "rounds" /\ UNCHANGED <<klines, held, dog, merge>>
    BY DEF Kept1, Kept2, RoundsWrite, RoundsDone
  <1>2. Records(rounds) \subseteq Records(rounds')
    BY RoundsWriteKeeps, RoundsDoneKeeps DEF Grows
  <1>3. Spanned'
    BY <1>1, <1>2 DEF Spanned
  <1>4. CASE RoundsWrite
    <2>1. sync' = [sync EXCEPT !.todo = sync.todo \ {Least(sync.todo)}]
      BY <1>4 DEF RoundsWrite
    <2>2. sync'.pc = "rounds"
      BY <1>1, <2>1 DEF Typed, SyncType
    <2>3. QED
      BY <1>3, <2>2, NoPlan
  <1>5. CASE RoundsDone
    <2> DEFINE tail == Newest(Records(rounds'), CacheN)
    <2>1. /\ \/ sync' = Fail("short")
             \/ sync' = [sync EXCEPT !.pc = "plan", !.tail = tail]
          /\ tail \subseteq Records(rounds') /\ Kept1'
      BY <1>5, RoundsDoneKeeps
    <2>2. \A t \in tail, r \in Records(rounds') : t < r => r \in tail
      BY <2>1, NewestIs, SoundFile, StoreAssumption DEF Kept1, Filed
    <2> HIDE DEF tail
    <2>3. CASE sync' = Fail("short")
      <3>1. sync'.pc = "over"
        BY <1>1, <2>3 DEF Typed, SyncType, Fail
      <3>2. QED
        BY <1>3, <3>1, NoPlan
    <2>4. CASE sync' = [sync EXCEPT !.pc = "plan", !.tail = tail]
      <3>1. sync'.pc = "plan" /\ sync'.tail = tail
        BY <1>1, <2>4 DEF Typed, SyncType
      <3>2. QED
        BY <1>3, <2>1, <2>2, <3>1
           DEF Kept2, InWindow, PlannedInside, PlannedAll, Fetching, Staging, Prepending
    <2>5. QED
      BY <2>1, <2>3, <2>4
  <1>6. QED
    BY <1>4, <1>5

LEMMA SpanPlan ==
    ASSUME Kept1, Kept2, KlinesPlan
    PROVE  Kept2'
  <1> DEFINE remaining == sync.tail \ Records(klines)
             append    == After(klines, remaining)
             older     == Before(klines, remaining)
             excuse    == IF older # {} /\ ~sync.allow THEN "older"
                          ELSE IF remaining \ (append \union older) # {} THEN "interior"
                          ELSE sync.excuse
             pc        == IF remaining = {} THEN "check" ELSE "fetch"
  <1>1. /\ Typed /\ Filed /\ Spanned /\ InWindow /\ sync.pc = "plan"
        /\ sync.batch = {} /\ UNCHANGED <<rounds, klines, held, dog, merge>>
        /\ sync' = [sync EXCEPT !.pc = pc, !.into = "klines", !.todo = append, !.older = older,
                                !.excuse = excuse]
    BY DEF Kept1, Kept2, Ordered, KlinesPlan, files
  <1>2. remaining \subseteq sync.tail /\ remaining \subseteq Epochs /\ sync.tail \subseteq Epochs
    BY <1>1, SyncParts
  <1>3. pc \in {"check", "fetch"}
    OBVIOUS
  <1>4. Sound(klines) /\ ~klines.open /\ Records(klines) # {} /\ Records(klines) \subseteq Nat
    BY <1>1, SoundFile, EpochsFinite DEF Filed, Working, Spanned
  <1>5. /\ Below(older, Records(klines)) /\ append \subseteq remaining /\ older \subseteq remaining
        /\ \A e \in remaining : (\A x \in Records(klines) : x < e) => e \in append
        /\ \A e \in remaining : (\A x \in Records(klines) : e < x) => e \in older
    BY <1>2, <1>4, PlanSplits
  <1>6. ASSUME NEW t \in sync.tail, Below(Records(klines), {t}) PROVE t \in append
    <2>1. \A x \in Records(klines) : x < t
      BY <1>6 DEF Below
    <2>2. t \notin Records(klines)
      BY <1>4, <2>1
    <2>3. QED
      BY <1>5, <2>1, <2>2
  <1>7. ASSUME NEW t \in sync.tail, Below({t}, Records(klines)) PROVE t \in older
    <2>1. \A x \in Records(klines) : t < x
      BY <1>7 DEF Below
    <2>2. t \notin Records(klines)
      BY <1>4, <2>1
    <2>3. QED
      BY <1>5, <2>1, <2>2
  <1> HIDE DEF remaining, append, older, excuse, pc
  <1>8. /\ sync'.pc = pc /\ sync'.into = "klines" /\ sync'.todo = append /\ sync'.older = older
        /\ sync'.batch = {} /\ sync'.tail = sync.tail
    BY <1>1 DEF Typed, SyncType
  <1>9. Spanned'
    BY <1>1, <1>3, <1>8, SpanAlone
  <1>10. InWindow'
    BY <1>1, <1>8 DEF InWindow, Windowing
  <1>11. PlannedInside'
    BY <1>2, <1>3, <1>5, <1>8 DEF PlannedInside, Fetching, Staging, Prepending
  <1>12. PlannedAll'
    BY <1>1, <1>3, <1>5, <1>6, <1>7, <1>8 DEF PlannedAll, Fetching, Staging, Prepending
  <1>13. QED
    BY <1>9, <1>10, <1>11, <1>12 DEF Kept2

LEMMA SpanFetch ==
    ASSUME Kept1, Kept2, FetchBatch
    PROVE  Kept2'
  <1>1. /\ sync.pc = "fetch" /\ sync.batch = {}
        /\ UNCHANGED <<rounds, klines, staging, held, dog, merge>>
        /\ Spanned /\ InWindow /\ PlannedInside /\ PlannedAll
    BY DEF Kept1, Kept2, Ordered, FetchBatch, files
  <1>2. CASE sync'.pc = "over" /\ sync'.excuse # "none"
    <2>1. Spanned'
      BY <1>1, <1>2, SpanAlone
    <2>2. QED
      BY <1>2, <2>1, NoPlan
  <1>3. CASE /\ sync'.pc = "write"
             /\ UNCHANGED <<sync.allow, sync.into, sync.tail, sync.older, sync.excuse>>
             /\ sync'.todo \union sync'.batch = sync.todo
    <2>1. (Fetching' <=> Fetching) /\ (Staging' <=> Staging) /\ (Prepending' <=> Prepending)
      BY <1>1, <1>3 DEF Fetching, Staging, Prepending
    <2>2. Spanned'
      BY <1>1, <1>3, SpanAlone
    <2>3. InWindow'
      BY <1>1, <1>3 DEF InWindow, Windowing
    <2>4. PlannedInside'
      BY <1>1, <1>3, <2>1 DEF PlannedInside
    <2>5. PlannedAll'
      BY <1>1, <1>3, <2>1 DEF PlannedAll
    <2>6. QED
      BY <2>2, <2>3, <2>4, <2>5 DEF Kept2
  <1>4. QED
    BY <1>2, <1>3, FetchBatchKeeps

LEMMA SpanWrite ==
    ASSUME Kept1, Kept2, WriteBatch
    PROVE  Kept2'
  <1> DEFINE e == Least(sync.batch)
  <1>1. /\ e \in sync.batch /\ sync'.batch = sync.batch \ {e}
        /\ sync'.pc \in {"fetch", "write"} /\ Grows
        /\ UNCHANGED <<sync.allow, sync.into, sync.tail, sync.older, sync.excuse, sync.todo>>
        /\ IF sync.into = "klines"
           THEN Records(klines') = Records(klines) \union {e} /\ staging' = staging
           ELSE Records(staging') = Records(staging) \union {e} /\ klines' = klines
    BY WriteBatchKeeps
  <1>2. /\ sync.pc = "write" /\ sync.into \in {"klines", "staging"}
        /\ Spanned /\ InWindow /\ PlannedInside /\ PlannedAll /\ Ordered /\ Filed /\ Typed
        /\ UNCHANGED <<rounds, held, dog, merge>>
    BY SyncParts DEF WriteBatch, Kept1, Kept2
  <1>3. /\ (Fetching' <=> Fetching) /\ (Staging' <=> Staging) /\ (Prepending' <=> Prepending)
        /\ Fetching <=> sync.into = "klines"
        /\ Staging <=> sync.into = "staging"
        /\ Prepending <=> sync.into = "staging"
    BY <1>1, <1>2 DEF Fetching, Staging, Prepending
  <1>4. InWindow'
    BY <1>1, <1>2 DEF InWindow, Windowing
  <1> HIDE DEF e
  <1>5. CASE sync.into = "klines"
    <2>1. e \in sync.tail /\ e \in Records(rounds)
      BY <1>1, <1>2, <1>3, <1>5 DEF PlannedInside, InWindow, Windowing
    <2>2. Records(klines') = Records(klines) \union {e} /\ staging' = staging
      BY <1>1, <1>5
    <2>3. /\ Records(klines) # {} /\ \A x \in Records(klines) : x < e
          /\ Records(klines) \subseteq Nat /\ e \in Nat /\ sync.older \subseteq Nat
      <3>1. Records(klines) # {} /\ \A x \in Records(klines) : x < e
        BY <1>1, <1>2, <1>3, <1>5 DEF Ordered, Below, Spanned
      <3>2. Records(klines) \subseteq Nat /\ sync.batch \subseteq Nat /\ sync.older \subseteq Nat
        BY <1>2, SoundFile, SyncParts, EpochsFinite DEF Filed
      <3>3. QED
        BY <1>1, <3>1, <3>2
    <2>4. Spanned'
      <3>1. Within(Records(held), Records(klines')) /\ Within(dog.batch, Records(klines'))
        BY <1>2, <2>2 DEF Spanned, Within
      <3>2. merge.pc = "ready" => merge.result \subseteq Records(klines') \union Records(held)
        BY <1>2, <2>2 DEF Spanned
      <3>3. QED
        BY <1>2, <2>1, <2>2, <3>1, <3>2 DEF Spanned
    <2>5. PlannedInside'
      BY <1>1, <1>2, <1>3, <1>5 DEF PlannedInside
    <2>6. Below(sync.older, Records(klines'))
      <3>1. ASSUME NEW y \in sync.older PROVE y < e
        <4>1. PICK x \in Records(klines) : TRUE
          BY <2>3
        <4>2. y < x /\ x < e
          BY <1>2, <1>3, <1>5, <2>3, <3>1 DEF PlannedAll, Below
        <4>3. QED
          BY <2>3, <3>1, <4>2
      <3>2. QED
        BY <1>2, <1>3, <1>5, <2>2, <3>1 DEF PlannedAll, Below
    <2>7. \A t \in sync.tail :
             Below(Records(klines'), {t}) => t \in sync.todo \union (sync.batch \ {e})
      <3>1. ASSUME NEW t \in sync.tail, Below(Records(klines'), {t})
            PROVE  t \in sync.todo \union (sync.batch \ {e})
        <4>1. Below(Records(klines), {t}) /\ e < t
          BY <2>2, <3>1 DEF Below
        <4>2. t # e
          BY <2>3, <4>1
        <4>3. t \in sync.todo \union sync.batch
          BY <1>2, <1>3, <1>5, <4>1 DEF PlannedAll
        <4>4. QED
          BY <4>2, <4>3
      <3>2. QED
        BY <3>1
    <2>8. \A t \in sync.tail : Below({t}, Records(klines')) => t \in sync.older
      <3>1. ASSUME NEW t \in sync.tail, Below({t}, Records(klines')) PROVE t \in sync.older
        <4>1. Below({t}, Records(klines))
          BY <2>2, <3>1 DEF Below
        <4>2. QED
          BY <1>2, <1>3, <1>5, <4>1 DEF PlannedAll
      <3>2. QED
        BY <3>1
    <2>9. PlannedAll'
      BY <1>1, <1>3, <1>5, <2>6, <2>7, <2>8 DEF PlannedAll
    <2>10. QED
      BY <1>4, <2>4, <2>5, <2>9 DEF Kept2
  <1>6. CASE sync.into = "staging"
    <2>1. Records(staging') = Records(staging) \union {e} /\ klines' = klines
      BY <1>1, <1>6
    <2>2. e \in sync.older
      BY <1>1, <1>2, <1>3, <1>6 DEF PlannedInside
    <2>3. Spanned'
      BY <1>2, <2>1, SpanAlone
    <2>4. PlannedInside'
      BY <1>1, <1>2, <1>3, <1>6, <2>1, <2>2 DEF PlannedInside
    <2>5. PlannedAll'
      BY <1>1, <1>2, <1>3, <1>6, <2>1 DEF PlannedAll
    <2>6. QED
      BY <1>4, <2>3, <2>4, <2>5 DEF Kept2
  <1>7. QED
    BY <1>2, <1>5, <1>6

LEMMA SpanPass ==
    ASSUME Kept1, Kept2, NoStale, NextPass
    PROVE  Kept2'
  <1>1. /\ sync.pc = "fetch" /\ sync.todo = {} /\ sync.batch = {} /\ Typed
        /\ UNCHANGED <<rounds, klines, staging, held, dog, merge>>
        /\ Spanned /\ InWindow /\ PlannedInside /\ PlannedAll
    BY DEF Kept1, Kept2, Ordered, NextPass, files
  <1>2. Spanned'
    BY <1>1, SpanAlone
  <1>3. CASE sync.into = "staging" /\ sync' = [sync EXCEPT !.pc = "prepend"]
    <2>1. sync'.pc = "prepend" /\ UNCHANGED <<sync.tail, sync.older>>
      BY <1>1, <1>3 DEF Typed, SyncType
    <2>2. InWindow' /\ PlannedInside' /\ PlannedAll'
      BY <1>1, <1>3, <2>1
         DEF InWindow, Windowing, PlannedInside, PlannedAll, Fetching, Staging, Prepending
    <2>3. QED
      BY <1>2, <2>1, <2>2 DEF Kept2
  <1>4. CASE \/ sync.into = "klines" /\ sync' = [sync EXCEPT !.pc = "check"]
             \/ sync' = Fail("staging")
    <2>1. sync'.pc \in {"check", "over"}
      BY <1>1, <1>4 DEF Typed, SyncType, Fail
    <2>2. QED
      BY <1>2, <2>1, NoPlan
  <1>5. CASE /\ sync.into = "klines" /\ sync.older # {} /\ sync.allow
             /\ sync' = [sync EXCEPT !.into = "staging", !.todo = sync.older \ Records(staging)]
    <2>1. /\ sync'.pc = "fetch" /\ sync'.into = "staging" /\ sync'.batch = {}
          /\ sync'.todo = sync.older \ Records(staging)
          /\ UNCHANGED <<sync.tail, sync.older>>
      BY <1>1, <1>5 DEF Typed, SyncType
    <2>2. Records(staging) = {} /\ Fetching
      BY <1>1, <1>5 DEF NoStale, Fetching
    <2>3. InWindow'
      BY <1>1, <2>1 DEF InWindow, Windowing
    <2>4. PlannedInside'
      BY <1>1, <2>1, <2>2 DEF PlannedInside, Fetching, Staging, Prepending
    <2>5. PlannedAll'
      BY <1>1, <2>1, <2>2 DEF PlannedAll, Fetching, Staging, Prepending
    <2>6. QED
      BY <1>2, <2>1, <2>3, <2>4, <2>5 DEF Kept2
  <1>6. QED
    BY <1>3, <1>4, <1>5, NextPassKeeps

LEMMA SpanEnd ==
    ASSUME Kept1, Kept2, Prepend \/ Unlink
    PROVE  Kept2'
  <1>1. Typed /\ Spanned /\ InWindow /\ PlannedInside /\ UNCHANGED <<rounds, held, dog, merge>>
    BY DEF Kept1, Kept2, Prepend, Unlink
  <1>2. CASE Prepend
    <2>1. /\ sync.pc = "prepend" /\ Records(klines') = Records(staging) \union Records(klines)
          /\ sync' = [sync EXCEPT !.pc = "unlink"]
      BY <1>2, PrependKeeps DEF Prepend
    <2>2. sync'.pc = "unlink"
      BY <1>1, <2>1 DEF Typed, SyncType
    <2>3. Records(staging) \subseteq Records(rounds)
      BY <1>1, <2>1 DEF InWindow, PlannedInside, Windowing, Prepending
    <2>4. Within(Records(held), Records(klines')) /\ Within(dog.batch, Records(klines'))
      BY <1>1, <2>1, WithinGrows DEF Spanned
    <2>5. Spanned'
      BY <1>1, <2>1, <2>2, <2>3, <2>4 DEF Spanned
    <2>6. QED
      BY <2>2, <2>5, NoPlan
  <1>3. CASE Unlink
    <2>1. UNCHANGED klines /\ sync' = [sync EXCEPT !.pc = "check"]
      BY <1>3 DEF Unlink
    <2>2. sync'.pc = "check"
      BY <1>1, <2>1 DEF Typed, SyncType
    <2>3. Spanned'
      BY <1>1, <2>1, <2>2, SpanAlone
    <2>4. QED
      BY <2>2, <2>3, NoPlan
  <1>4. QED
    BY <1>2, <1>3

\* What a kill may add to the klines is one of the window.
LEMMA CutSpans ==
    ASSUME Calm, Kept1, Kept2, CutSync
    PROVE  /\ Records(klines) \subseteq Records(klines')
           /\ Records(rounds) \subseteq Records(rounds')
           /\ Records(klines') \subseteq Records(rounds')
  <1>1. Spanned /\ InWindow /\ PlannedInside
    BY DEF Kept2
  <1>2. /\ Records(rounds) \subseteq Records(rounds')
        /\ Records(klines) \subseteq Records(klines')
        /\ \A e \in Records(klines') \ Records(klines) :
              sync.pc = "write" /\ sync.into = "klines" /\ e = Least(sync.batch)
        /\ sync.pc = "write" => Least(sync.batch) \in sync.batch
    BY CutSyncKeeps
  <1>3. ASSUME NEW e \in Records(klines'), e \notin Records(klines) PROVE e \in Records(rounds)
    <2>1. sync.pc = "write" /\ sync.into = "klines" /\ e \in sync.batch
      BY <1>2, <1>3
    <2>2. e \in sync.tail
      BY <1>1, <2>1 DEF PlannedInside, Fetching
    <2>3. QED
      BY <1>1, <2>1, <2>2 DEF InWindow, Windowing
  <1>4. Records(klines') \subseteq Records(rounds')
    BY <1>1, <1>2, <1>3 DEF Spanned
  <1>5. QED
    BY <1>2, <1>4

LEMMA SpanKill ==
    ASSUME Calm, Kept1, Kept2, KillSync
    PROVE  Kept2'
  <1>1. /\ CutSync /\ sync' = Fail("killed") /\ sync.pc # "idle" /\ Typed /\ Merging /\ Spanned
        /\ UNCHANGED <<held, dog, merge>>
    BY DEF Kept1, Kept2, KillSync
  <1>2. /\ Records(rounds) \subseteq Records(rounds')
        /\ Records(klines) \subseteq Records(klines') /\ Records(klines') \subseteq Records(rounds')
    BY <1>1, CutSpans
  <1>3. sync'.pc = "over" /\ merge'.pc # "ready"
    BY <1>1 DEF Typed, SyncType, Fail, Merging
  <1>4. Within(Records(held), Records(klines')) /\ Within(dog.batch, Records(klines'))
    BY <1>1, <1>2, WithinGrows DEF Spanned
  <1>5. Spanned'
    BY <1>1, <1>2, <1>3, <1>4 DEF Spanned
  <1>6. QED
    BY <1>3, <1>5, NoPlan

LEMMA SpanPower ==
    ASSUME Lasting, Kept1, Kept2, PowerLoss
    PROVE  Kept2'
  <1>1. /\ CutSync /\ CutDog /\ sync' = Idle /\ dog' = NoDog /\ merge' = NoMerge /\ Spanned
        /\ Calm
    BY DEF Kept2, PowerLoss, Lasting
  <1>2. /\ Records(rounds) \subseteq Records(rounds')
        /\ Records(klines) \subseteq Records(klines') /\ Records(klines') \subseteq Records(rounds')
    BY <1>1, CutSpans
  <1>3. sync'.pc = "idle" /\ merge'.pc # "ready" /\ dog'.batch = {}
    BY <1>1 DEF Idle, NoDog, NoMerge
  <1>4. Records(held') \subseteq Records(held) \union dog.batch
    BY <1>1, CutDogKeeps
  <1>5. Within(Records(held'), Records(klines')) /\ Records(held') \subseteq Records(rounds')
    BY <1>1, <1>2, <1>4 DEF Spanned, Within
  <1>6. Spanned'
    BY <1>1, <1>2, <1>3, <1>5 DEF Spanned, Within
  <1>7. QED
    BY <1>3, <1>6, NoPlan

LEMMA SpanDog ==
    ASSUME Kept1, Kept2, DogLook \/ DogCapture \/ DogStage
    PROVE  Kept2'
  <1>1. Typed /\ Spanned /\ UNCHANGED <<sync, rounds, klines, staging, merge>>
    BY DEF Kept1, Kept2, DogLook, DogCapture, DogStage
  <1>2. CASE DogLook
    <2> DEFINE pc    == IF "GAP" \in Evaluate THEN "capture" ELSE "mark"
               fails == Evaluate \union (IF Stale THEN {"STALE"} ELSE {})
               holes == Holes(Scanned(klines)) \ gone
    <2>1. UNCHANGED held /\ dog' = [dog EXCEPT !.pc = pc, !.fails = fails, !.holes = holes]
      BY <1>2 DEF DogLook
    <2> HIDE DEF pc, fails, holes
    <2>2. dog'.batch = dog.batch
      BY <1>1, <2>1 DEF Typed, DogType
    <2>3. Spanned'
      BY <1>1, <2>1, <2>2 DEF Spanned
    <2>4. QED
      BY <1>1, <2>3, PlanAlone
  <1>3. CASE DogCapture
    <2>1. UNCHANGED held /\ dog'.batch \subseteq Planned
      BY <1>3, DogCaptureKeeps DEF DogCapture
    <2>2. dog'.batch \subseteq Records(rounds) /\ Within(dog'.batch, Records(klines))
      BY <2>1, PlannedIs DEF Within
    <2>3. Spanned'
      BY <1>1, <2>1, <2>2 DEF Spanned
    <2>4. QED
      BY <1>1, <2>3, PlanAlone
  <1>4. CASE DogStage
    <2> DEFINE e == Least(dog.batch)
    <2>1. /\ e \in dog.batch /\ Records(held) \subseteq Records(held')
          /\ Records(held') \subseteq Records(held) \union {e}
          /\ dog' = [dog EXCEPT !.batch = dog.batch \ {e}]
      BY <1>4, DogStageKeeps DEF Grows
    <2> HIDE DEF e
    <2>2. dog'.batch = dog.batch \ {e}
      BY <1>1, <2>1 DEF Typed, DogType
    <2>3. Within(Records(held'), Records(klines)) /\ Within(dog'.batch, Records(klines))
      BY <1>1, <2>1, <2>2 DEF Spanned, Within
    <2>4. Records(held') \subseteq Records(rounds) /\ dog'.batch \subseteq Records(rounds)
      BY <1>1, <2>1, <2>2 DEF Spanned
    <2>5. Spanned'
      BY <1>1, <2>1, <2>3, <2>4 DEF Spanned
    <2>6. QED
      BY <1>1, <2>5, PlanAlone
  <1>5. QED
    BY <1>2, <1>3, <1>4

LEMMA SpanMerge ==
    ASSUME Calm, Kept1, Kept2, MergeRead \/ MergeWrite
    PROVE  Kept2'
  <1>1. Typed /\ Spanned /\ UNCHANGED <<sync, rounds, staging, held, dog>>
    BY DEF Kept1, Kept2, MergeRead, MergeWrite, files
  <1>2. CASE MergeRead
    <2>1. UNCHANGED klines /\ merge'.result = Records(klines) \union Records(held)
      BY <1>2, MergeReadKeeps DEF MergeRead, files
    <2>2. Spanned'
      BY <1>1, <2>1 DEF Spanned
    <2>3. QED
      BY <1>1, <2>1, <2>2, PlanAlone
  <1>3. CASE MergeWrite
    <2>1. /\ sync.pc = "idle" /\ Records(klines') = merge.result /\ Grows /\ merge.pc = "ready"
          /\ merge'.pc # "ready"
      BY <1>3, MergeWriteKeeps DEF MergeWrite, NoMerge
    <2>2. Within(Records(held), Records(klines')) /\ Within(dog.batch, Records(klines'))
      BY <1>1, <2>1, WithinGrows DEF Spanned, Grows
    <2>3. Records(klines') \subseteq Records(rounds) /\ Records(klines') # {}
      BY <1>1, <2>1 DEF Spanned, Grows
    <2>4. Spanned'
      BY <1>1, <2>1, <2>2, <2>3 DEF Spanned
    <2>5. sync'.pc = "idle"
      BY <1>1, <2>1
    <2>6. QED
      BY <2>4, <2>5, NoPlan
  <1>4. QED
    BY <1>2, <1>3

LEMMA SpanQuiet ==
    ASSUME Kept1, Kept2,
           LockHeld \/ Check \/ SyncEnd \/ DogStart \/ DogMark \/ NewDay \/ UNCHANGED vars
    PROVE  Kept2'
  <1>1. Spanned /\ Typed /\ UNCHANGED <<rounds, klines, staging, held, merge>>
    BY QuietKeeps DEF Kept1, Kept2
  <1>2. CASE LockHeld \/ DogStart \/ DogMark \/ NewDay \/ UNCHANGED vars
    <2>1. UNCHANGED sync /\ (UNCHANGED dog \/ dog'.batch = {})
      BY <1>2 DEF LockHeld, DogStart, DogMark, NewDay, vars, NoDog
    <2>2. Spanned'
      BY <1>1, <2>1, SpanAlone
    <2>3. QED
      BY <1>1, <2>1, <2>2, PlanAlone
  <1>3. CASE Check \/ SyncEnd
    <2>1. UNCHANGED dog \/ dog'.batch = {}
      BY <1>3 DEF Check, SyncEnd, NoDog
    <2>2. sync'.pc \in {"done", "over", "idle"}
      BY <1>1, <1>3 DEF Check, SyncEnd, Idle, Typed, SyncType
    <2>3. Spanned'
      BY <1>1, <2>1, <2>2, SpanAlone
    <2>4. QED
      BY <2>2, <2>3, NoPlan
  <1>4. QED
    BY <1>2, <1>3

LEMMA SpanStep == Lasting /\ Kept1 /\ Kept2 /\ NoStale /\ [Next]_vars => Kept2'
  <1> SUFFICES ASSUME Lasting, Kept1, Kept2, NoStale, [Next]_vars PROVE Kept2'
    OBVIOUS
  <1>0. Calm
    BY DEF Lasting
  <1>1. ASSUME NEW allow \in BOOLEAN, SyncStart(allow) PROVE Kept2'
    BY <1>1, SpanSyncStart
  <1>2. CASE RoundsWrite \/ RoundsDone
    BY <1>2, SpanRounds
  <1>3. CASE KlinesPlan
    BY <1>3, SpanPlan
  <1>4. CASE FetchBatch
    BY <1>4, SpanFetch
  <1>5. CASE WriteBatch
    BY <1>5, SpanWrite
  <1>6. CASE NextPass
    BY <1>6, SpanPass
  <1>7. CASE Prepend \/ Unlink
    BY <1>7, SpanEnd
  <1>8. CASE DogLook \/ DogCapture \/ DogStage
    BY <1>8, SpanDog
  <1>9. CASE MergeRead \/ MergeWrite
    BY <1>0, <1>9, SpanMerge
  <1>10. CASE KillSync
    BY <1>0, <1>10, SpanKill
  <1>11. CASE PowerLoss
    BY <1>11, SpanPower
  <1>12. CASE LockHeld \/ Check \/ SyncEnd \/ DogStart \/ DogMark \/ NewDay \/ UNCHANGED vars
    BY <1>12, SpanQuiet
  <1>13. QED
    BY <1>1, <1>2, <1>3, <1>4, <1>5, <1>6, <1>7, <1>8, <1>9, <1>10, <1>11, <1>12 DEF Next

\* A hole that a step makes lies beyond all that the store held, or before all of it.
LEMMA NewHole ==
    ASSUME Records(klines) \subseteq Epochs, Records(klines') \subseteq Epochs,
           Records(klines) \subseteq Records(klines'),
           NEW e, e \in Holes(Records(klines')), e \notin Holes(Records(klines))
    PROVE  /\ e \in Nat /\ e \notin Records(klines')
           /\ \E x \in Records(klines') : x < e
           /\ \E y \in Records(klines') : e < y
           /\ (\A x \in Records(klines) : x < e) \/ (\A x \in Records(klines) : e < x)
  <1> DEFINE K == Records(klines)
             L == Records(klines')
  <1>1. /\ e \in Nat /\ e \notin L /\ \E x \in L : x < e
        /\ \E y \in L : e < y
    BY HolesAre
  <1>2. e \notin K /\ K \subseteq Nat
    BY <1>1, EpochsFinite
  <1>3. ~(\E x \in K : x < e) \/ ~(\E y \in K : e < y)
    BY <1>1, <1>2, HolesAre
  <1> HIDE DEF K, L
  <1>4. (\A x \in K : x < e) \/ (\A x \in K : e < x)
    BY <1>1, <1>2, <1>3
  <1>5. QED
    BY <1>1, <1>4 DEF K, L

\* The next record of the append pass leaves out only what is not in the window.
LEMMA AppendHoles ==
    ASSUME Kept1, Kept2, sync.pc = "write", sync.into = "klines", Records(klines') \subseteq Epochs,
           Records(klines') = Records(klines) \union {Least(sync.batch)},
           NEW e, e \in Holes(Records(klines')), e \notin Holes(Records(klines))
    PROVE  e \notin sync.tail
  <1> DEFINE b == Least(sync.batch)
             K == Records(klines)
  <1>1. /\ Spanned /\ PlannedAll /\ Ordered /\ Filed /\ Fetching /\ K \subseteq Epochs
        /\ sync.batch \subseteq Epochs /\ sync.todo \subseteq Epochs
    BY SyncParts, SoundFile DEF Kept1, Kept2, Filed, Fetching
  <1>2. b \in sync.batch /\ \A y \in sync.batch : b <= y
    BY <1>1, LeastIs, EpochsFinite DEF Ordered
  <1>3. K # {} /\ \A x \in K : x < b
    BY <1>1, <1>2 DEF Ordered, Below, Spanned
  <1>4. /\ e \in Nat /\ e \notin Records(klines')
        /\ \E x \in K \union {b} : x < e
        /\ \E y \in K \union {b} : e < y
        /\ (\A x \in K : x < e) \/ (\A x \in K : e < x)
    BY <1>1, NewHole
  <1>5. \A y \in sync.todo : b < y
    BY <1>1, <1>2 DEF Ordered, Below
  <1>6. (\A x \in K : x < e) /\ e \in sync.tail => e \in sync.todo \union sync.batch
    BY <1>1 DEF PlannedAll, Below
  <1>7. b \in Nat /\ K \subseteq Nat
    BY <1>1, <1>2, EpochsFinite
  <1> HIDE DEF b, K
  <1>8. \A x \in K : x < e
    <2>1. SUFFICES ASSUME \A x \in K : e < x PROVE FALSE
      BY <1>4
    <2>2. PICK k \in K : TRUE
      BY <1>3
    <2>3. k \in Nat /\ e < k /\ k < b
      BY <1>3, <1>7, <2>1, <2>2
    <2>4. PICK x \in K \union {b} : x < e
      BY <1>4
    <2>5. CASE x \in K
      BY <1>4, <1>7, <2>1, <2>4, <2>5
    <2>6. CASE x = b
      BY <1>4, <1>7, <2>3, <2>4, <2>6
    <2>7. QED
      BY <2>4, <2>5, <2>6
  <1>9. e < b
    BY <1>4, <1>7, <1>8
  <1>10. e \notin sync.todo \union sync.batch
    BY <1>2, <1>4, <1>5, <1>7, <1>9
  <1>11. QED
    BY <1>6, <1>8, <1>10

\* The prepend makes none: all that is missing before the store is staged.
LEMMA PrependHoles ==
    ASSUME Kept1, Unbroken, Kept2, Promised, Prepend, Records(klines') \subseteq Epochs,
           NEW e, e \in Holes(Records(klines')), e \notin Holes(Records(klines))
    PROVE  FALSE
  <1> DEFINE K == Records(klines)
             S == Records(staging)
  <1>1. /\ Spanned /\ InWindow /\ PlannedInside /\ PlannedAll /\ K \subseteq Epochs
        /\ sync.pc = "prepend" /\ Prepending /\ Windowing
    BY SoundFile DEF Kept1, Kept2, Filed, Prepend, Prepending, Windowing
  <1>2. Records(klines') = S \union K /\ K # {}
    BY <1>1, PrependKeeps DEF Spanned
  <1>3. S \subseteq sync.older /\ sync.older \subseteq sync.tail /\ sync.older \subseteq S
    BY <1>1 DEF PlannedInside, Promised
  <1>4. \A s \in S, k \in K : s < k
    BY <1>1, <1>3 DEF PlannedAll, Below
  <1>5. /\ e \in Nat /\ e \notin S \union K
        /\ \E x \in S \union K : x < e
        /\ \E y \in S \union K : e < y
        /\ (\A x \in K : x < e) \/ (\A x \in K : e < x)
    BY <1>1, <1>2, NewHole
  <1>6. K \subseteq Nat /\ S \subseteq Nat
    BY <1>1, <1>2, EpochsFinite
  <1>7. (\A x \in K : e < x) /\ e \in sync.tail => e \in sync.older
    BY <1>1 DEF PlannedAll, Below
  <1>8. /\ Interval(Records(rounds)) /\ K \subseteq Records(rounds) /\ S \subseteq Records(rounds)
        /\ \A t \in sync.tail, r \in Records(rounds) : t < r => r \in sync.tail
    BY <1>1, <1>3 DEF Unbroken, Spanned, InWindow
  <1> HIDE DEF K, S
  <1>9. \A x \in K : e < x
    <2>1. SUFFICES ASSUME \A x \in K : x < e PROVE FALSE
      BY <1>5
    <2>2. PICK k \in K : TRUE
      BY <1>2
    <2>3. PICK y \in S \union K : e < y
      BY <1>5
    <2>4. k \in Nat /\ k < e
      BY <1>6, <2>1, <2>2
    <2>5. CASE y \in K
      BY <1>5, <1>6, <2>1, <2>3, <2>5
    <2>6. CASE y \in S
      <3>1. y \in Nat /\ y < k
        BY <1>4, <1>6, <2>2, <2>6
      <3>2. QED
        BY <1>5, <2>3, <2>4, <3>1
    <2>7. QED
      BY <2>3, <2>5, <2>6
  <1>10. PICK x \in S : x < e
    BY <1>5, <1>6, <1>9
  <1>11. PICK k \in K : e < k
    BY <1>2, <1>9
  <1>12. e \in x .. k
    BY <1>5, <1>6, <1>10, <1>11
  <1>13. e \in Records(rounds)
    BY <1>8, <1>10, <1>11, <1>12 DEF Interval
  <1>14. e \in sync.tail
    BY <1>3, <1>8, <1>10, <1>13
  <1>15. QED
    BY <1>3, <1>5, <1>7, <1>9, <1>14

\* A merge makes holes only past the last record that the store could show.
LEMMA MergeHoles ==
    ASSUME Kept1, Kept2, MergeWrite, Records(klines') \subseteq Epochs,
           NEW e, e \in Holes(Records(klines')), e \notin Holes(Records(klines))
    PROVE  merge.pc = "ready" /\ \A x \in Records(klines) : x < e
  <1> DEFINE K == Records(klines)
             H == Records(held)
  <1>1. /\ merge.pc = "ready" /\ Records(klines') \subseteq K \union H
        /\ \A h \in H : \E k \in K : k < h
        /\ K # {} /\ K \subseteq Epochs /\ H \subseteq Epochs /\ K \subseteq Records(klines')
    BY MergeWriteKeeps, SoundFile DEF MergeWrite, Kept1, Kept2, Filed, Spanned, Within, Grows
  <1>2. /\ e \in Nat /\ \E x \in K \union H : x < e
        /\ (\A x \in K : x < e) \/ (\A x \in K : e < x)
    BY <1>1, NewHole
  <1>3. K \subseteq Nat /\ H \subseteq Nat
    BY <1>1, EpochsFinite
  <1> HIDE DEF K, H
  <1>4. \A x \in K : x < e
    <2>1. SUFFICES ASSUME \A x \in K : e < x PROVE FALSE
      BY <1>2
    <2>2. PICK x \in K \union H : x < e
      BY <1>2
    <2>3. CASE x \in K
      BY <1>2, <1>3, <2>1, <2>2, <2>3
    <2>4. CASE x \in H
      <3>1. PICK k \in K : k < x
        BY <1>1, <2>4
      <3>2. e < k /\ k \in Nat /\ x \in Nat
        BY <1>3, <2>1, <2>4, <3>1
      <3>3. QED
        BY <1>2, <2>2, <3>1, <3>2
    <2>5. QED
      BY <2>2, <2>3, <2>4
  <1>5. QED
    BY <1>1, <1>4 DEF K

OnlyWindow ==
    \A e \in Holes(Records(klines')) \ Holes(Records(klines)) :
        \/ sync.pc = "write" /\ e \notin sync.tail
        \/ merge.pc = "ready" /\ \A x \in Records(klines) : x < e

LEMMA HolesStep ==
    Lasting /\ Kept1 /\ Unbroken /\ Kept2 /\ Promised /\ [Next]_vars => OnlyWindow
  <1> SUFFICES ASSUME Lasting, Kept1, Unbroken, Kept2, Promised, [Next]_vars PROVE OnlyWindow
    OBVIOUS
  <1>9. Calm /\ ~MayLoseUnsynced /\ Secured
    BY DEF Lasting, Secured
  <1>0. Records(klines) \subseteq Epochs /\ Records(klines') \subseteq Epochs
    BY <1>9, StepKeeps, SoundFile DEF Kept1, Filed
  <1>1. ASSUME Records(klines') = Records(klines) PROVE OnlyWindow
    BY <1>1 DEF OnlyWindow
  <1>2. ASSUME NEW allow \in BOOLEAN, SyncStart(allow) PROVE OnlyWindow
    BY <1>1, <1>2, <1>9, SyncStartKeeps
  <1>3. CASE WriteBatch
    <2>1. sync.pc = "write" /\ sync.into \in {"klines", "staging"}
      BY <1>3, SyncParts DEF WriteBatch, Kept1
    <2>2. IF sync.into = "klines"
          THEN Records(klines') = Records(klines) \union {Least(sync.batch)}
          ELSE klines' = klines
      BY <1>3, WriteBatchKeeps
    <2>3. CASE sync.into = "klines"
      BY <1>0, <2>1, <2>2, <2>3, AppendHoles DEF OnlyWindow
    <2>4. QED
      BY <1>1, <2>1, <2>2, <2>3
  <1>4. CASE KillSync \/ PowerLoss
    <2>1. CutSync
      BY <1>4, <1>9 DEF KillSync, PowerLoss
    <2>2. /\ Records(klines) \subseteq Records(klines')
          /\ \A e \in Records(klines') \ Records(klines) :
                sync.pc = "write" /\ sync.into = "klines" /\ e = Least(sync.batch)
      BY <1>9, <2>1, CutSyncKeeps
    <2>3. CASE Records(klines') # Records(klines)
      <3>1. PICK b \in Records(klines') : b \notin Records(klines)
        BY <2>2, <2>3
      <3>2. sync.pc = "write" /\ sync.into = "klines" /\ b = Least(sync.batch)
        BY <2>2, <3>1
      <3>3. Records(klines') = Records(klines) \union {Least(sync.batch)}
        BY <2>2, <3>1, <3>2
      <3>4. QED
        BY <1>0, <3>2, <3>3, AppendHoles DEF OnlyWindow
    <2>4. QED
      BY <1>1, <2>3
  <1>5. CASE Prepend
    BY <1>0, <1>5, PrependHoles DEF OnlyWindow
  <1>6. CASE MergeWrite
    BY <1>0, <1>6, MergeHoles DEF OnlyWindow
  <1>7. CASE \/ LockHeld \/ RoundsWrite \/ RoundsDone \/ KlinesPlan \/ FetchBatch \/ NextPass
             \/ Unlink \/ Check \/ SyncEnd \/ DogStart \/ DogLook \/ DogCapture \/ DogStage
             \/ DogMark \/ MergeRead \/ NewDay \/ UNCHANGED vars
    <2>1. klines' = klines
      BY <1>7 DEF LockHeld, RoundsWrite, RoundsDone, KlinesPlan, FetchBatch, NextPass, Unlink,
         Check, SyncEnd, DogStart, DogLook, DogCapture, DogStage, DogMark, MergeRead, NewDay,
         vars, files
    <2>2. QED
      BY <1>1, <2>1
  <1>8. QED
    BY <1>2, <1>3, <1>4, <1>5, <1>6, <1>7 DEF Next

\* The sync makes no hole in a store except where whole rounds fell out of the window it
\* looks at, and a merge none before the last record that is complete (sync.py:414), as
\* long as no backfill of the operator resumes the staging file of an earlier one: what
\* that one staged need not lie next to what this one stages (sync.py:478); and as long as
\* no power loss takes what was not synced.
THEOREM HolesSound ==
    ASSUME ~MayCutNewline, ~MayOverlap, ~MayLoseUnsynced
    PROVE  Spec /\ []NoStale => OnlyTheWindowLeavesHoles
  <1>1. Spec => [](Kept1 /\ Unbroken /\ Promised)
    BY PromisedInvariant DEF Calm
  <1>2. Kept1 /\ Kept2 /\ NoStale /\ [Next]_vars => Kept2'
    BY SpanStep DEF Calm, Lasting
  <1>3. Kept1 /\ Unbroken /\ Kept2 /\ Promised /\ [Next]_vars =>
           [\A e \in Holes(Records(klines')) \ Holes(Records(klines)) :
               \/ sync.pc = "write" /\ e \notin sync.tail
               \/ merge.pc = "ready" /\ \A x \in Records(klines) : x < e]_vars
    BY HolesStep DEF Calm, Lasting, OnlyWindow
  <1>4. QED
    BY <1>1, <1>2, <1>3, InitKept2, PTL DEF Spec, OnlyTheWindowLeavesHoles

-----------------------------------------------------------------------------
(* A first backfill finds nothing staged.                                   *)

Once ==
    /\ NoStale
    /\ ops \in Nat
    /\ ops = 0 => ~sync.allow /\ Records(staging) = {}
    /\ sync.into = "staging" => sync.allow
    /\ sync.pc \in {"rounds", "plan"} => sync.into = "klines"

LEMMA InitOnce == Init => Once
  BY EmptyFile DEF Init, Once, NoStale, Idle

LEMMA OnceAlone ==
    ASSUME Once, UNCHANGED <<sync.allow, sync.into, ops>>, Records(staging') = Records(staging),
           sync'.pc \in {"rounds", "plan"} => sync.pc \in {"rounds", "plan"}
    PROVE  Once'
  BY DEF Once, NoStale

LEMMA OnceIdle ==
    ASSUME Once, sync' = Idle, UNCHANGED ops,
           Records(staging') = Records(staging) \/ sync.into = "staging"
    PROVE  Once'
  BY DEF Once, NoStale, Idle

LEMMA OnceStep == MaxOps <= 1 /\ ~MayLoseUnsynced /\ Kept1 /\ Once /\ [Next]_vars => Once'
  <1> SUFFICES ASSUME MaxOps <= 1, ~MayLoseUnsynced, Kept1, Once, [Next]_vars PROVE Once'
    OBVIOUS
  <1>0. Typed /\ sync.into \in {"klines", "staging"} /\ sync.allow \in BOOLEAN /\ MaxOps \in Nat
    BY SyncParts, StoreAssumption DEF Kept1
  <1>1. ASSUME NEW allow \in BOOLEAN, SyncStart(allow) PROVE Once'
    <2>1. /\ UNCHANGED staging
          /\ sync'.allow = allow /\ sync'.into = "klines"
          /\ IF allow THEN ops < MaxOps /\ ops' = ops + 1 ELSE UNCHANGED ops
      BY <1>1 DEF SyncStart, Idle
    <2>2. allow => ops = 0
      BY <1>0, <2>1 DEF Once
    <2>3. QED
      BY <2>1, <2>2 DEF Once, NoStale
  <1>2. CASE RoundsWrite \/ RoundsDone
    <2>1. /\ UNCHANGED <<staging, ops, sync.allow, sync.into>>
          /\ sync.pc = "rounds"
      BY <1>0, <1>2 DEF RoundsWrite, RoundsDone, Fail, limits, Typed, SyncType
    <2>2. QED
      BY <2>1, OnceAlone
  <1>3. CASE KlinesPlan
    <2>1. /\ UNCHANGED <<staging, ops, sync.allow, sync.into>>
          /\ sync'.pc \notin {"rounds", "plan"}
      BY <1>0, <1>3 DEF KlinesPlan, files, limits, Typed, SyncType, Once
    <2>2. QED
      BY <2>1, OnceAlone
  <1>4. CASE FetchBatch
    <2>1. /\ UNCHANGED <<staging, ops>>
          /\ \/ sync' \in {Fail("fault"), Fail("aged")}
             \/ sync'.pc = "write" /\ UNCHANGED <<sync.allow, sync.into>>
      BY <1>0, <1>4, FetchBatchKeeps DEF FetchBatch, files, Fail, Typed, SyncType
    <2>2. sync'.pc \in {"over", "write"} /\ UNCHANGED <<sync.allow, sync.into>>
      BY <1>0, <2>1 DEF Fail, Typed, SyncType
    <2>3. QED
      BY <2>1, <2>2, OnceAlone
  <1>5. CASE WriteBatch
    <2>1. /\ UNCHANGED <<ops, sync.allow, sync.into>> /\ sync'.pc \in {"fetch", "write"}
          /\ sync.into = "klines" => staging' = staging
      BY <1>5, WriteBatchKeeps DEF WriteBatch, limits
    <2>2. CASE sync.into = "klines"
      BY <2>1, <2>2, OnceAlone
    <2>3. CASE sync.into = "staging"
      BY <2>1, <2>3 DEF Once, NoStale
    <2>4. QED
      BY <1>0, <2>2, <2>3
  <1>6. CASE NextPass
    <2>1. UNCHANGED <<staging, ops>>
      BY <1>6 DEF NextPass, files, limits
    <2>2. CASE \/ sync' = [sync EXCEPT !.pc = "prepend"]
               \/ sync' = [sync EXCEPT !.pc = "check"]
               \/ sync' = Fail("staging")
      <3>1. sync'.pc \in {"prepend", "check", "over"} /\ UNCHANGED <<sync.allow, sync.into>>
        BY <1>0, <2>2 DEF Fail, Typed, SyncType
      <3>2. QED
        BY <2>1, <3>1, OnceAlone
    <2>3. CASE /\ sync.allow
               /\ sync' = [sync EXCEPT !.into = "staging", !.todo = sync.older \ Records(staging)]
      <3>1. sync'.pc = sync.pc /\ sync'.into = "staging" /\ sync'.allow
        BY <1>0, <2>3 DEF Typed, SyncType
      <3>2. sync.pc = "fetch"
        BY <1>6 DEF NextPass
      <3>3. QED
        BY <2>1, <2>3, <3>1, <3>2 DEF Once, NoStale
    <2>4. QED
      BY <1>6, <2>2, <2>3, NextPassKeeps
  <1>7. CASE Prepend \/ Check
    <2>1. /\ UNCHANGED <<staging, ops, sync.allow, sync.into>>
          /\ sync'.pc \in {"unlink", "done", "over"}
      BY <1>0, <1>7 DEF Prepend, Check, files, limits, Typed, SyncType
    <2>2. QED
      BY <2>1, OnceAlone
  <1>8. CASE Unlink
    <2>1. /\ UNCHANGED <<ops, sync.allow, sync.into>> /\ sync'.pc = "check"
          /\ Records(staging') = {}
      BY <1>0, <1>8, EmptyFile DEF Unlink, limits, Typed, SyncType
    <2>2. QED
      BY <2>1 DEF Once, NoStale
  <1>9. CASE SyncEnd
    BY <1>9, OnceIdle DEF SyncEnd, files, limits
  <1>10. ASSUME CutSync PROVE Records(staging') = Records(staging) \/ sync.into = "staging"
    <2>1. CASE sync.pc = "write"
      BY <1>0, <1>10, <2>1 DEF CutSync, Into
    <2>2. CASE sync.pc # "write"
      BY <1>10, <2>2 DEF CutSync
    <2>3. QED
      BY <2>1, <2>2
  <1>11. CASE KillSync
    <2>1. CutSync /\ sync' = Fail("killed") /\ UNCHANGED ops
      BY <1>11 DEF KillSync
    <2>2. sync'.pc = "over" /\ UNCHANGED <<sync.allow, sync.into>>
      BY <1>0, <2>1 DEF Fail, Typed, SyncType
    <2>3. CASE Records(staging') = Records(staging)
      BY <2>1, <2>2, <2>3, OnceAlone
    <2>4. CASE sync.into = "staging"
      BY <2>1, <2>2, <2>4 DEF Once, NoStale
    <2>5. QED
      BY <1>10, <2>1, <2>3, <2>4
  <1>12. CASE PowerLoss
    BY <1>10, <1>12, OnceIdle DEF PowerLoss
  <1>13. CASE MergeRead
    <2>1. UNCHANGED <<sync, staging>> /\ ops' = ops + 1
      BY <1>13 DEF MergeRead, files
    <2>2. QED
      BY <2>1 DEF Once, NoStale
  <1>14. CASE \/ LockHeld \/ DogStart \/ DogLook \/ DogCapture \/ DogStage \/ DogMark
              \/ MergeWrite \/ NewDay \/ UNCHANGED vars
    <2>1. UNCHANGED <<sync, staging, ops>>
      BY <1>14 DEF LockHeld, DogStart, DogLook, DogCapture, DogStage, DogMark, MergeWrite, NewDay,
         vars, files, limits
    <2>2. QED
      BY <2>1, OnceAlone
  <1>15. QED
    BY <1>1, <1>2, <1>3, <1>4, <1>5, <1>6, <1>7, <1>8, <1>9, <1>11, <1>12, <1>13, <1>14 DEF Next

\* With one run of the operator at most, nothing is ever staged when a backfill begins,
\* and the only new holes are those of OnlyTheWindowLeavesHoles (sync.py:414).
THEOREM FirstBackfillSound ==
    ASSUME ~MayCutNewline, ~MayOverlap, ~MayLoseUnsynced, MaxOps <= 1
    PROVE  Spec => OnlyTheWindowLeavesHoles
  <1>1. Kept1 /\ Once /\ [Next]_vars => Once'
    BY OnceStep
  <1>2. Once => NoStale
    BY DEF Once
  <1>3. Spec => []Kept1
    BY KeptInvariant DEF Calm
  <1>4. Spec => []NoStale
    BY <1>1, <1>2, <1>3, InitOnce, PTL DEF Spec
  <1>5. Spec /\ []NoStale => OnlyTheWindowLeavesHoles
    BY HolesSound
  <1>6. QED
    BY <1>4, <1>5, PTL

-----------------------------------------------------------------------------
(* The ranges of the variables.  Only the two files that are never repaired *)
(* need a fact of their own: what is written names a round that is closed.  *)

LEMMA PutNames ==
    ASSUME NEW f, Shaped(f), f.open => f.lines # <<>>, NEW t \in Int, NEW ended \in BOOLEAN
    PROVE  Scanned(Put(f, t, ended)) \subseteq Scanned(f) \union {Magnitude(t)}
  <1> DEFINE g == Put(f, t, ended)
             n == Len(f.lines)
  <1>1. /\ f.lines \in Seq(Seq(Int)) /\ f.open \in BOOLEAN /\ n \in Nat /\ DOMAIN f.lines = 1 .. n
        /\ \A i \in 1 .. n : f.lines[i] \in Seq(Int) /\ Len(f.lines[i]) \in Nat
                             /\ DOMAIN f.lines[i] = 1 .. Len(f.lines[i])
        /\ f.open => n > 0
    BY Shapes
  <1>2. SUFFICES ASSUME NEW p \in Scan(g) PROVE ScanAt(g, p) \in Scanned(f) \union {Magnitude(t)}
    BY DEF Scanned
  <1>3. PICK i \in DOMAIN g.lines : \E j \in DOMAIN g.lines[i] : p = <<i, j>>
    BY <1>2 DEF Scan
  <1>4. PICK j \in DOMAIN g.lines[i] : p = <<i, j>>
    BY <1>3
  <1>5. ScanAt(g, p) = Magnitude(g.lines[i][j])
    BY <1>4 DEF ScanAt
  <1>6. ASSUME NEW a \in 1 .. n, NEW b \in DOMAIN f.lines[a]
        PROVE  Magnitude(f.lines[a][b]) \in Scanned(f)
    <2>1. <<a, b>> \in Scan(f)
      BY <1>1, <1>6 DEF Scan
    <2>2. ScanAt(f, <<a, b>>) = Magnitude(f.lines[a][b])
      BY DEF ScanAt
    <2>3. QED
      BY <2>1, <2>2 DEF Scanned
  <1>7. CASE f.open
    <2> DEFINE last == f.lines[n]
    <2>1. g.lines = [f.lines EXCEPT ![n] = Append(last, t)] /\ n \in 1 .. n
      BY <1>1, <1>7 DEF Put
    <2>2. last \in Seq(Int) /\ Len(last) \in Nat /\ DOMAIN last = 1 .. Len(last)
      BY <1>1, <2>1
    <2>3. DOMAIN g.lines = 1 .. n
      BY <1>1, <2>1
    <2>4. CASE i = n
      <3>1. g.lines[i] = Append(last, t)
        BY <1>1, <2>1, <2>4
      <3>2. /\ DOMAIN g.lines[i] = 1 .. Len(last) + 1
            /\ \A k \in 1 .. Len(last) : g.lines[i][k] = last[k]
            /\ g.lines[i][Len(last) + 1] = t
        BY <2>2, <3>1, AppendProperties, LenProperties
      <3>3. CASE j = Len(last) + 1
        BY <1>5, <3>2, <3>3
      <3>4. CASE j # Len(last) + 1
        <4>1. j \in 1 .. Len(last)
          BY <1>4, <2>2, <3>2, <3>4
        <4>2. g.lines[i][j] = f.lines[n][j] /\ j \in DOMAIN f.lines[n]
          BY <2>2, <3>2, <4>1
        <4>3. QED
          BY <1>5, <1>6, <2>1, <4>2
      <3>5. QED
        BY <3>3, <3>4
    <2>5. CASE i # n
      <3>1. g.lines[i] = f.lines[i] /\ i \in 1 .. n
        BY <1>1, <1>4, <2>1, <2>3, <2>5
      <3>2. QED
        BY <1>4, <1>5, <1>6, <3>1
    <2>6. QED
      BY <2>4, <2>5
  <1>8. CASE ~f.open
    <2>1. g.lines = Append(f.lines, <<t>>)
      BY <1>8 DEF Put
    <2>2. /\ DOMAIN g.lines = 1 .. n + 1 /\ g.lines[n + 1] = <<t>>
          /\ \A k \in 1 .. n : g.lines[k] = f.lines[k]
      <3>1. <<t>> \in Seq(Int)
        OBVIOUS
      <3>2. QED
        BY <1>1, <2>1, <3>1, AppendProperties, LenProperties
    <2>3. CASE i = n + 1
      <3>1. g.lines[i] = <<t>> /\ DOMAIN <<t>> = 1 .. 1 /\ <<t>>[1] = t
        BY <2>2, <2>3
      <3>2. j = 1
        BY <1>4, <3>1
      <3>3. QED
        BY <1>5, <3>1, <3>2
    <2>4. CASE i # n + 1
      <3>1. i \in 1 .. n
        BY <1>1, <1>4, <2>2, <2>4
      <3>2. g.lines[i] = f.lines[i]
        BY <2>2, <3>1
      <3>3. QED
        BY <1>4, <1>5, <1>6, <3>1, <3>2
    <2>5. QED
      BY <2>3, <2>4
  <1>9. QED
    BY <1>1, <1>7, <1>8

LEMMA CutNames ==
    ASSUME NEW f, Tailed(f), Scanned(f) \subseteq Epochs, NEW e \in Epochs, ~MayCutNewline
    PROVE  /\ Scanned(WriteRecord(f, e)) \subseteq Epochs
           /\ \A g \in CutRecord(f, e, MayCutNewline) : Scanned(g) \subseteq Epochs
  <1>1. Magnitude(e) = e /\ Magnitude(-e) = e /\ e \in Int /\ -e \in Int
    BY LastIsNat DEF Epochs, Magnitude
  <1>2. Shaped(f) /\ (f.open => f.lines # <<>>)
    BY DEF Tailed
  <1>3. Scanned(Put(f, e, TRUE)) \subseteq Epochs /\ Scanned(Put(f, -e, FALSE)) \subseteq Epochs
    <2>1. Scanned(Put(f, e, TRUE)) \subseteq Scanned(f) \union {e}
      BY <1>1, <1>2, PutNames
    <2>2. Scanned(Put(f, -e, FALSE)) \subseteq Scanned(f) \union {e}
      BY <1>1, <1>2, PutNames
    <2>3. QED
      BY <2>1, <2>2
  <1>4. CutRecord(f, e, MayCutNewline) = {f, WriteRecord(f, e), Put(f, -e, FALSE)}
    BY Zenon DEF CutRecord
  <1>5. QED
    BY <1>3, <1>4 DEF WriteRecord

\* What a power loss leaves names nothing new.
LEMMA LeftNames ==
    ASSUME NEW f, Shaped(f), f.open => f.lines # <<>>,
           NEW n \in 0 .. OnDisk(f), NEW g \in Left(f, n)
    PROVE  Scanned(g) \subseteq Scanned(f)
  <1>1. CASE g = f
    BY <1>1
  <1>2. ASSUME NEW k \in n .. OnDisk(f), g = [lines |-> SubSeq(f.lines, 1, k), open |-> FALSE]
        PROVE  Scanned(g) \subseteq Scanned(f)
    <2>1. /\ Len(f.lines) \in Nat /\ OnDisk(f) \in 0 .. Len(f.lines)
          /\ DOMAIN f.lines = 1 .. Len(f.lines)
      BY Shapes DEF OnDisk
    <2>2. k \in 0 .. Len(f.lines) /\ g.lines = SubSeq(f.lines, 1, k)
      BY <1>2, <2>1
    <2>3. /\ DOMAIN g.lines = 1 .. k
          /\ \A i \in 1 .. k : i \in DOMAIN f.lines /\ g.lines[i] = f.lines[i]
      BY <2>1, <2>2, Prefix
    <2>4. ASSUME NEW p \in Scan(g) PROVE p \in Scan(f) /\ ScanAt(g, p) = ScanAt(f, p)
      <3>1. PICK i \in DOMAIN g.lines : \E j \in DOMAIN g.lines[i] : p = <<i, j>>
        BY <2>4 DEF Scan
      <3>2. PICK j \in DOMAIN g.lines[i] : p = <<i, j>>
        BY <3>1
      <3>3. i \in DOMAIN f.lines /\ g.lines[i] = f.lines[i]
        BY <2>3
      <3>4. p \in Scan(f)
        BY <3>2, <3>3 DEF Scan
      <3>5. ScanAt(g, p) = ScanAt(f, p)
        BY <3>2, <3>3 DEF ScanAt
      <3>6. QED
        BY <3>4, <3>5
    <2>5. QED
      BY <2>4 DEF Scanned
  <1>3. QED
    BY <1>1, <1>2 DEF Left

LEMMA NoNames == Scanned(NoFile) = {}
  <1>1. DOMAIN NoFile.lines = {}
    BY DEF NoFile
  <1>2. QED
    BY <1>1 DEF Scanned, Scan

Named == Scanned(staging) \subseteq Epochs /\ Scanned(held) \subseteq Epochs

Counted ==
    /\ day \in FirstDay .. LastDay /\ owed \in BOOLEAN /\ success \in 0 .. day
    /\ off \in 0 .. MaxOff /\ faults \in 0 .. MaxFaults /\ ops \in 0 .. MaxOps

Dated == gone \subseteq Epochs /\ seen \subseteq Epochs

LEMMA NamedStep == Calm /\ Kept1 /\ Secured /\ Named /\ [Next]_vars => Named'
  <1> SUFFICES ASSUME Calm, Kept1, Secured, Named, [Next]_vars PROVE Named'
    OBVIOUS
  <1>0. /\ ~MayCutNewline /\ Tailed(staging) /\ Tailed(held) /\ Ordered
        /\ sync.batch \subseteq Epochs /\ dog.batch \subseteq Epochs
        /\ sync.into \in {"klines", "staging"}
    BY SyncParts DEF Calm, Kept1, Filed
  <1>1. sync.batch # {} => Least(sync.batch) \in Epochs
    BY <1>0, LeastIs, EpochsFinite
  <1>2. dog.batch # {} => Least(dog.batch) \in Epochs
    BY <1>0, LeastIs, EpochsFinite
  <1>3. ASSUME UNCHANGED <<staging, held>> PROVE Named'
    BY <1>3 DEF Named
  <1>4. ASSUME NEW allow \in BOOLEAN, SyncStart(allow) PROVE Named'
    BY <1>3, <1>4 DEF SyncStart
  <1>5. CASE WriteBatch
    <2>1. /\ UNCHANGED held
          /\ staging' = staging \/ staging' = WriteRecord(staging, Least(sync.batch))
      BY <1>5 DEF WriteBatch, Into, Target
    <2>2. Least(sync.batch) \in Epochs
      BY <1>0, <1>1, <1>5 DEF WriteBatch, Ordered
    <2>3. QED
      BY <1>0, <2>1, <2>2, CutNames DEF Named
  <1>6. CASE Unlink
    BY <1>6, NoNames DEF Unlink, Named
  <1>7. CASE DogStage
    <2>1. UNCHANGED staging /\ dog.batch # {} /\ held' = WriteRecord(held, Least(dog.batch))
      BY <1>7 DEF DogStage
    <2>2. QED
      BY <1>0, <1>2, <2>1, CutNames DEF Named
  <1>8. ASSUME CutSync PROVE Scanned(staging') \subseteq Epochs
    <2>1. CASE sync.pc = "write"
      <3> DEFINE e == Least(sync.batch)
      <3>1. e \in Epochs
        BY <1>0, <1>1, <2>1 DEF Ordered
      <3> HIDE DEF e
      <3>2. staging' = staging \/ staging' \in CutRecord(staging, e, MayCutNewline)
        BY <1>8, <2>1 DEF CutSync, Into, Target, e
      <3>3. QED
        BY <1>0, <3>1, <3>2, CutNames DEF Named
    <2>2. CASE sync.pc # "write"
      BY <1>8, <2>2 DEF CutSync, Named
    <2>3. QED
      BY <2>1, <2>2
  <1>9. CASE KillSync
    BY <1>8, <1>9 DEF KillSync, Named
  <1>10. CASE PowerLoss /\ CutSync /\ CutDog
    <2>1. CASE dog.pc = "stage" /\ dog.batch # {}
      <3> DEFINE e == Least(dog.batch)
      <3>1. e \in Epochs /\ held' \in CutRecord(held, e, MayCutNewline)
        BY <1>2, <1>10, <2>1 DEF CutDog
      <3> HIDE DEF e
      <3>2. Scanned(held') \subseteq Epochs
        BY <1>0, <3>1, CutNames DEF Named
      <3>3. QED
        BY <1>8, <1>10, <3>2 DEF Named
    <2>2. CASE ~(dog.pc = "stage" /\ dog.batch # {})
      BY <1>8, <1>10, <2>2 DEF CutDog, Named
    <2>3. QED
      BY <2>1, <2>2
  <1>11. CASE Taken
    <2>1. /\ Shaped(staging) /\ (staging.open => staging.lines # <<>>)
          /\ Shaped(held) /\ (held.open => held.lines # <<>>)
      BY <1>0 DEF Tailed
    <2>2. 0 \in 0 .. OnDisk(staging) /\ safe.held \in 0 .. OnDisk(held)
      <3>1. OnDisk(staging) \in Nat /\ OnDisk(held) \in Nat
        BY <2>1, Lengths DEF Longer
      <3>2. QED
        BY <1>11, <3>1 DEF Taken, Secured
    <2>3. staging' \in Left(staging, 0) /\ held' \in Left(held, safe.held)
      BY <1>11 DEF Taken
    <2>4. Scanned(staging') \subseteq Scanned(staging) /\ Scanned(held') \subseteq Scanned(held)
      BY <2>1, <2>2, <2>3, LeftNames
    <2>5. QED
      BY <2>4 DEF Named
  <1>12. CASE \/ LockHeld \/ RoundsWrite \/ RoundsDone \/ KlinesPlan \/ FetchBatch \/ NextPass
              \/ Prepend \/ Check \/ SyncEnd \/ DogStart \/ DogLook \/ DogCapture \/ DogMark
              \/ MergeRead \/ MergeWrite \/ NewDay \/ UNCHANGED vars
    <2>1. UNCHANGED <<staging, held>>
      BY <1>12 DEF LockHeld, RoundsWrite, RoundsDone, KlinesPlan, FetchBatch, NextPass, Prepend,
         Check, SyncEnd, DogStart, DogLook, DogCapture, DogMark, MergeRead, MergeWrite, NewDay,
         vars, files
    <2>2. QED
      BY <1>3, <2>1
  <1>13. QED
    BY <1>4, <1>5, <1>6, <1>7, <1>9, <1>10, <1>11, <1>12, PowerLossKeeps DEF Next

LEMMA CountedStep == Kept1 /\ Counted /\ [Next]_vars => Counted'
  <1> SUFFICES ASSUME Kept1, Counted, [Next]_vars PROVE Counted'
    OBVIOUS
  <1>0. /\ FirstDay \in Nat /\ LastDay \in Nat /\ MaxOff \in Nat /\ MaxFaults \in Nat
        /\ MaxOps \in Nat
    BY StoreAssumption
  <1>1. ASSUME UNCHANGED <<day, owed, success, off>>,
               faults' = faults \/ \E n \in Nat : faults' = faults + n /\ faults' <= MaxFaults,
               ops' = ops \/ (ops' = ops + 1 /\ ops < MaxOps)
        PROVE  Counted'
    <2>1. faults' \in 0 .. MaxFaults
      BY <1>0, <1>1 DEF Counted
    <2>2. ops' \in 0 .. MaxOps
      BY <1>0, <1>1 DEF Counted
    <2>3. QED
      BY <1>1, <2>1, <2>2 DEF Counted
  <1>2. ASSUME faults < MaxFaults, faults' = faults + 1, UNCHANGED <<day, owed, success, off, ops>>
        PROVE  Counted'
    <2>1. faults' <= MaxFaults
      BY <1>0, <1>2 DEF Counted
    <2>2. QED
      BY <1>1, <1>2, <2>1
  <1>3. ASSUME NEW allow \in BOOLEAN, SyncStart(allow) PROVE Counted'
    <2>1. /\ UNCHANGED <<day, success, off, faults>>
          /\ owed' \in {owed, TRUE}
          /\ ops' = ops \/ (ops' = ops + 1 /\ ops < MaxOps)
      BY <1>3 DEF SyncStart
    <2>2. ops' \in 0 .. MaxOps
      BY <1>0, <2>1 DEF Counted
    <2>3. QED
      BY <2>1, <2>2 DEF Counted
  <1>4. CASE LockHeld \/ SyncEnd
    <2>1. /\ UNCHANGED <<day, off, faults, ops>> /\ owed' \in {owed, TRUE, FALSE}
          /\ success' \in {success, day}
      BY <1>4 DEF LockHeld, SyncEnd, limits
    <2>2. success' \in 0 .. day
      BY <1>0, <2>1 DEF Counted
    <2>3. QED
      BY <2>1, <2>2 DEF Counted
  <1>5. CASE FetchBatch
    <2>1. PICK fault \in BOOLEAN : Fault(fault)
      BY <1>5 DEF FetchBatch
    <2>2. faults' = (IF fault THEN faults + 1 ELSE faults) /\ faults' <= MaxFaults
      BY <2>1 DEF Fault
    <2>3. faults' = faults \/ (faults' = faults + 1 /\ faults' <= MaxFaults)
      BY <2>2
    <2>4. UNCHANGED <<day, owed, success, off, ops>>
      BY <1>5 DEF FetchBatch, health
    <2>5. QED
      BY <1>1, <2>3, <2>4
  <1>6. CASE DogCapture
    <2>1. PICK lost \in SUBSET Planned :
             faults' = faults + Cardinality(lost) /\ faults' <= MaxFaults
      BY <1>6 DEF DogCapture
    <2>2. Cardinality(lost) \in Nat
      BY <2>1, PlannedIs, EpochsFinite
    <2>3. UNCHANGED <<day, owed, success, off, ops>>
      BY <1>6 DEF DogCapture, health
    <2>4. QED
      BY <1>1, <2>1, <2>2, <2>3
  <1>7. CASE MergeRead
    BY <1>1, <1>7 DEF MergeRead, health
  <1>8. CASE NewDay
    <2>1. /\ day < LastDay /\ day' = day + 1 /\ off' \in {0, off + 1} /\ off' <= MaxOff
          /\ UNCHANGED <<owed, success, faults, ops>>
      BY <1>8 DEF NewDay, health, limits
    <2>2. QED
      BY <1>0, <2>1 DEF Counted
  <1>9. CASE KillSync \/ PowerLoss
    BY <1>2, <1>9 DEF KillSync, PowerLoss, health
  <1>10. CASE \/ RoundsWrite \/ RoundsDone \/ KlinesPlan \/ WriteBatch \/ NextPass \/ Prepend
              \/ Unlink \/ Check \/ DogStart \/ DogLook \/ DogStage \/ DogMark \/ MergeWrite
              \/ UNCHANGED vars
    <2>1. UNCHANGED <<day, owed, success, off, faults, ops>>
      BY <1>10 DEF RoundsWrite, RoundsDone, KlinesPlan, WriteBatch, NextPass, Prepend, Unlink,
         Check, DogStart, DogLook, DogStage, DogMark, MergeWrite, vars, health, limits
    <2>2. QED
      BY <1>1, <2>1
  <1>11. QED
    BY <1>3, <1>4, <1>5, <1>6, <1>7, <1>8, <1>9, <1>10 DEF Next

LEMMA DatedStep == Kept1 /\ Dated /\ [Next]_vars => Dated'
  <1> SUFFICES ASSUME Kept1, Dated, [Next]_vars PROVE Dated'
    OBVIOUS
  <1>1. ASSUME UNCHANGED <<gone, seen>> PROVE Dated'
    BY <1>1 DEF Dated
  <1>2. ASSUME NEW allow \in BOOLEAN, SyncStart(allow) PROVE Dated'
    BY <1>1, <1>2 DEF SyncStart
  <1>3. CASE DogCapture
    <2>1. /\ gone' = gone \union {e \in Missing \ Scanned(held) :
                                     e \in Records(rounds) /\ ~Served(e)}
          /\ UNCHANGED seen
      BY <1>3 DEF DogCapture, health
    <2>2. QED
      BY <2>1, MissingIs DEF Dated
  <1>4. CASE DogMark
    <2>1. seen' = dog.holes /\ UNCHANGED gone
      BY <1>4 DEF DogMark, files
    <2>2. QED
      BY <2>1, SyncParts DEF Dated, Kept1
  <1>5. CASE \/ LockHeld \/ RoundsWrite \/ RoundsDone \/ KlinesPlan \/ FetchBatch \/ WriteBatch
             \/ NextPass \/ Prepend \/ Unlink \/ Check \/ SyncEnd \/ DogStart \/ DogLook
             \/ DogStage \/ MergeRead \/ MergeWrite \/ NewDay \/ KillSync \/ PowerLoss
             \/ UNCHANGED vars
    <2>1. UNCHANGED <<gone, seen>>
      BY <1>5 DEF LockHeld, RoundsWrite, RoundsDone, KlinesPlan, FetchBatch, WriteBatch, NextPass,
         Prepend, Unlink, Check, SyncEnd, DogStart, DogLook, DogStage, MergeRead, MergeWrite,
         NewDay, KillSync, PowerLoss, vars, files, health
    <2>2. QED
      BY <1>1, <2>1
  <1>6. QED
    BY <1>2, <1>3, <1>4, <1>5 DEF Next

LEMMA InitRanges == Init => Named /\ Counted /\ Dated
  <1> SUFFICES ASSUME Init PROVE Named /\ Counted /\ Dated
    OBVIOUS
  <1>1. /\ FirstDay \in Nat \ {0} /\ LastDay \in Nat /\ MaxOff \in Nat /\ MaxFaults \in Nat
        /\ MaxOps \in Nat /\ FirstDay <= LastDay
    BY StoreAssumption
  <1>2. /\ day = FirstDay /\ staging = NoFile /\ held = NoFile /\ gone = {} /\ seen = {}
        /\ owed = FALSE /\ success = FirstDay - 1 /\ off = 0 /\ faults = 0 /\ ops = 0
    BY DEF Init
  <1>3. Counted
    <2>1. day \in FirstDay .. LastDay /\ success \in 0 .. day
      BY <1>1, <1>2
    <2>2. off \in 0 .. MaxOff /\ faults \in 0 .. MaxFaults /\ ops \in 0 .. MaxOps
      BY <1>1, <1>2
    <2>3. QED
      BY <1>2, <2>1, <2>2 DEF Counted
  <1>4. QED
    BY <1>2, <1>3, NoNames DEF Named, Dated

\* Type correctness: no file, no plan and no report ever names a round that is not one of
\* the closed ones, and the bounds of the model are kept, under the two conditions above.
THEOREM StoreTyped ==
    ASSUME ~MayCutNewline, ~MayOverlap
    PROVE  Spec => []TypeOK
  <1>1. Kept1 /\ Secured /\ Named /\ [Next]_vars => Named'
    BY NamedStep DEF Calm
  <1>2. Kept1 /\ Named /\ Counted /\ Dated => TypeOK
    <2> SUFFICES ASSUME Kept1, Named, Counted, Dated PROVE TypeOK
      OBVIOUS
    <2>1. /\ Sound(rounds) /\ Sound(klines) /\ Tailed(staging) /\ Tailed(held) /\ Typed
      BY DEF Kept1, Filed
    <2>2. ASSUME NEW f \in {rounds, klines, staging, held}
          PROVE  Scanned(f) \subseteq Epochs /\ (f.open => f.lines # <<>>)
      BY <2>1, HolesLieAfter DEF Sound, Tailed, Named
    <2>3. /\ sync.tail \subseteq Epochs /\ sync.todo \subseteq Epochs
          /\ sync.batch \subseteq Epochs /\ sync.older \subseteq Epochs
          /\ dog.batch \subseteq Epochs /\ dog.holes \subseteq Epochs
          /\ merge.result \subseteq Epochs
      BY <2>1, SyncParts
    <2>4. QED
      BY <2>2, <2>3 DEF TypeOK, Counted, Dated
  <1>3. Spec => [](Kept1 /\ Secured)
    BY AllKept DEF Calm
  <1>4. QED
    BY <1>1, <1>2, <1>3, InitRanges, CountedStep, DatedStep, PTL DEF Spec

=============================================================================
