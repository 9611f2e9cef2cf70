----------------------------- MODULE GateProofs -----------------------------
(***************************************************************************)
(* The bankroll tracker and the risk checks over it, for every window,     *)
(* stake, threshold and number of rounds. Of the tracker alone: a          *)
(* suspension of n rounds lasts n rounds less one for each restart,        *)
(* pruning never changes the peak, and nothing from before a reseed is     *)
(* counted after it. Of the two: until the process restarts a suspension   *)
(* holds and the loss of an episode is bounded, and until it restarts      *)
(* twice a release rests on the evidence of the shadow.                    *)
(***************************************************************************)
EXTENDS RiskGate, FiniteSetTheorems, WellFoundedInduction, SequenceTheorems, TLAPS

-----------------------------------------------------------------------------
(* The rolling window.                                                     *)

\* The samples from index m on; what was cut off in front of a sample before
\* the window could not have been counted.
CutAt(es, m, cut) ==
    /\ Len(cut) = Len(es) - m + 1
    /\ \A i \in 1 .. Len(cut) : cut[i] = es[m + i - 1]
    /\ m > 1 => es[m].at < es[Len(es)].at - Window

\* Every sample has a time and a balance.
LEMMA SampleAt ==
    ASSUME NEW es \in Seq(Sample), NEW i \in DOMAIN es
    PROVE  es[i] \in Sample /\ es[i].at \in Nat /\ es[i].bankroll \in Nat
  <1>1. es[i] \in Sample
    OBVIOUS
  <1>2. QED
    BY <1>1 DEF Sample

\* There is a first sample in the window: the latest one is in it.
LEMMA FirstExists ==
    ASSUME TrackerAssumption, NEW es \in Seq(Sample), es # <<>>
    PROVE  /\ FirstInWindow(es) \in DOMAIN es
           /\ \A k \in DOMAIN es :
                 k < FirstInWindow(es) => es[k].at < es[Len(es)].at - Window
  <1> DEFINE In == {i \in DOMAIN es : es[i].at >= es[Len(es)].at - Window}
  <1>1. DOMAIN es = 1 .. Len(es) /\ Len(es) \in Nat \ {0}
    OBVIOUS
  <1>2. \A i \in DOMAIN es : es[i].at \in Nat
    BY SampleAt
  <1>3. Len(es) \in In /\ In \subseteq Nat
    BY <1>1, <1>2 DEF TrackerAssumption
  <1>4. PICK first \in In : \A y \in In : ~(<<y, first>> \in OpToRel(<, Nat))
    BY <1>3, NatLessThanWellFounded, WFMin
  <1>5. \A y \in In : ~(y < first)
    BY <1>3, <1>4, Zenon DEF OpToRel
  <1>6. ASSUME NEW k \in DOMAIN es, k < first
        PROVE  es[k].at < es[Len(es)].at - Window
    <2>1. ~(es[k].at >= es[Len(es)].at - Window)
      BY <1>5, <1>6
    <2>2. es[k].at \in Nat /\ es[Len(es)].at \in Nat /\ Window \in Nat
      BY <1>1, <1>2 DEF TrackerAssumption
    <2>3. QED
      BY <2>1, <2>2
  <1>7. \E i \in DOMAIN es :
            /\ es[i].at >= Last(es).at - Window
            /\ \A k \in DOMAIN es : k < i => es[k].at < Last(es).at - Window
    BY <1>4, <1>6 DEF Last
  <1>8. QED
    BY <1>7 DEF FirstInWindow, Last

\* Pruning cuts a list at an index that is in it.
LEMMA PruneCuts ==
    ASSUME TrackerAssumption, NEW es \in Seq(Sample), es # <<>>
    PROVE  /\ Prune(es) \in Seq(Sample)
           /\ \E m \in 1 .. Len(es) : CutAt(es, m, Prune(es))
  <1> DEFINE first == FirstInWindow(es)
             m == IF first > 1 THEN first - 1 ELSE 1
  <1>1. DOMAIN es = 1 .. Len(es) /\ Len(es) \in Nat \ {0}
    OBVIOUS
  <1>2. first \in 1 .. Len(es)
        /\ \A k \in DOMAIN es : k < first => es[k].at < es[Len(es)].at - Window
    BY <1>1, FirstExists
  <1> HIDE DEF first
  <1>3. m \in 1 .. Len(es) /\ (m > 1 => m < first)
    BY <1>1, <1>2
  <1>4. Prune(es) = SubSeq(es, m, Len(es))
    BY DEF Prune, first
  <1>5. m > 1 => es[m].at < es[Len(es)].at - Window
    BY <1>1, <1>2, <1>3
  <1> HIDE DEF m
  <1>6. /\ SubSeq(es, m, Len(es)) \in Seq(Sample)
        /\ Len(SubSeq(es, m, Len(es))) = Len(es) - m + 1
        /\ \A i \in 1 .. Len(es) - m + 1 : SubSeq(es, m, Len(es))[i] = es[m + i - 1]
    <2>1. \A i \in m .. Len(es) : es[i] \in Sample
      BY <1>1, <1>3
    <2>2. m \in Int /\ Len(es) \in Int /\ m <= Len(es)
      BY <1>1, <1>3
    <2>3. QED
      BY <2>1, <2>2, SubSeqProperties
  <1>7. QED
    BY <1>3, <1>4, <1>5, <1>6 DEF CutAt

-----------------------------------------------------------------------------
(* The peak over a list that was cut.                                      *)

\* The list es is what is left of g after its first k samples, and if there
\* are any, the first one left is before the window of the latest one.
Tails(es, g, k) ==
    /\ k \in Nat /\ Len(g) = Len(es) + k
    /\ \A i \in 1 .. Len(es) : es[i] = g[k + i]
    /\ k > 0 => es # <<>> /\ es[1].at < es[Len(es)].at - Window

Ordered(g, t) ==
    /\ \A i, j \in DOMAIN g : i <= j => g[i].at <= g[j].at
    /\ \A i \in DOMAIN g : g[i].at <= t

\* The same samples are counted in both lists, so the peak is the same.
LEMMA SamePeak ==
    ASSUME TrackerAssumption, NEW es \in Seq(Sample), NEW g \in Seq(Sample),
           NEW k \in Nat, NEW t \in Nat, Tails(es, g, k), Ordered(g, t)
    PROVE  PeakBankroll(es, t) = PeakBankroll(g, t)
  <1>1. DOMAIN es = 1 .. Len(es) /\ DOMAIN g = 1 .. Len(g)
        /\ Len(es) \in Nat /\ Len(g) \in Nat /\ Window \in Nat
    BY DEF TrackerAssumption
  <1>2. Len(g) = Len(es) + k /\ \A i \in DOMAIN es : es[i] = g[k + i]
    BY <1>1 DEF Tails
  <1>3. \A i \in DOMAIN g : g[i].at \in Nat
    BY SampleAt
  <1>4. ASSUME NEW j \in DOMAIN g, j <= k
        PROVE  j \notin Counted(g, t)
    <2>1. es # <<>> /\ es[1].at < es[Len(es)].at - Window
      BY <1>1, <1>4 DEF Tails
    <2>2. 1 \in DOMAIN es /\ Len(es) \in DOMAIN es /\ k + 1 \in DOMAIN g /\ k + Len(es) \in DOMAIN g
      BY <1>1, <1>2, <2>1
    <2>3. g[k + 1].at < g[k + Len(es)].at - Window
      BY <1>2, <2>1, <2>2
    <2>4. g[k + Len(es)].at <= t /\ g[j].at <= g[k + 1].at
      <3>1. j <= k + 1
        BY <1>1, <1>4
      <3>2. QED
        BY <1>4, <2>2, <3>1 DEF Ordered
    <2>5. g[k + 1].at < t - Window /\ g[j].at < t - Window
      <3> DEFINE a == g[j].at
                 b == g[k + 1].at
                 c == g[k + Len(es)].at
      <3>1. a \in Nat /\ b \in Nat /\ c \in Nat
        BY <1>3, <1>4, <2>2
      <3>2. b < c - Window /\ c <= t /\ a <= b
        BY <2>3, <2>4
      <3> HIDE DEF a, b, c
      <3>3. b < t - Window /\ a < t - Window
        BY <1>1, <3>1, <3>2
      <3>4. QED
        BY <3>3 DEF a, b
    <2>6. k + 1 > j
      BY <1>1, <1>4
    <2>7. ~(g[k + 1].at >= t - Window) /\ ~(g[j].at >= t - Window)
      BY <1>1, <1>3, <2>2, <2>5
    <2>8. QED
      BY <2>2, <2>6, <2>7 DEF Counted
  <1>5. ASSUME NEW i \in DOMAIN es
        PROVE  i \in Counted(es, t) <=> k + i \in Counted(g, t)
    <2>1. k + i \in DOMAIN g /\ es[i] = g[k + i]
      BY <1>1, <1>2
    <2>2. (\A n \in DOMAIN es : n > i => es[n].at >= t - Window)
          <=> (\A n \in DOMAIN g : n > k + i => g[n].at >= t - Window)
      <3>1. ASSUME \A n \in DOMAIN es : n > i => es[n].at >= t - Window,
                   NEW n \in DOMAIN g, n > k + i
            PROVE  g[n].at >= t - Window
        <4>1. n - k \in DOMAIN es /\ n - k > i /\ k + (n - k) = n
          BY <1>1, <1>2, <3>1
        <4>2. es[n - k] = g[k + (n - k)]
          BY <1>2, <4>1
        <4>3. QED
          BY <3>1, <4>1, <4>2
      <3>2. ASSUME \A n \in DOMAIN g : n > k + i => g[n].at >= t - Window,
                   NEW n \in DOMAIN es, n > i
            PROVE  es[n].at >= t - Window
        <4>1. k + n \in DOMAIN g /\ k + n > k + i
          BY <1>1, <1>2, <3>2
        <4>2. QED
          BY <1>2, <3>2, <4>1
      <3>3. QED
        BY <3>1, <3>2
    <2>3. QED
      BY <2>1, <2>2 DEF Counted
  <1>6. {es[i].bankroll : i \in Counted(es, t)} = {g[i].bankroll : i \in Counted(g, t)}
    <2>1. ASSUME NEW i \in Counted(es, t)
          PROVE  \E j \in Counted(g, t) : es[i].bankroll = g[j].bankroll
      <3>1. i \in DOMAIN es
        BY <2>1 DEF Counted
      <3>2. k + i \in Counted(g, t) /\ es[i] = g[k + i]
        BY <1>2, <1>5, <2>1, <3>1
      <3>3. QED
        BY <3>2
    <2>2. ASSUME NEW j \in Counted(g, t)
          PROVE  \E i \in Counted(es, t) : g[j].bankroll = es[i].bankroll
      <3>1. j \in DOMAIN g /\ ~(j <= k)
        BY <1>4, <2>2 DEF Counted
      <3>2. j - k \in DOMAIN es /\ k + (j - k) = j
        BY <1>1, <1>2, <3>1
      <3>3. j - k \in Counted(es, t) /\ es[j - k] = g[j]
        BY <1>2, <1>5, <2>2, <3>2
      <3>4. QED
        BY <3>3
    <2>3. QED
      BY <2>1, <2>2
  <1>7. es = <<>> <=> g = <<>>
    <2>1. es = <<>> <=> Len(es) = 0
      BY <1>1, EmptySeq
    <2>2. g = <<>> <=> Len(g) = 0
      BY <1>1, EmptySeq
    <2>3. Len(es) = 0 => k = 0
      BY <1>1, <2>1 DEF Tails
    <2>4. QED
      BY <1>1, <1>2, <2>1, <2>2, <2>3
  <1>8. QED
    BY <1>6, <1>7 DEF PeakBankroll

\* Pruning a tail leaves a tail.
LEMMA PrunedTails ==
    ASSUME TrackerAssumption, NEW es \in Seq(Sample), NEW g \in Seq(Sample),
           NEW k \in Nat, Tails(es, g, k), es # <<>>
    PROVE  \E n \in Nat : Tails(Prune(es), g, n)
  <1>1. DOMAIN es = 1 .. Len(es) /\ Len(es) \in Nat \ {0} /\ Len(g) \in Nat
    OBVIOUS
  <1>2. PICK m \in 1 .. Len(es) : CutAt(es, m, Prune(es))
    BY PruneCuts
  <1> DEFINE cut == Prune(es)
             n == k + (m - 1)
  <1>3. cut \in Seq(Sample) /\ Len(cut) = Len(es) - m + 1 /\ Len(cut) \in Nat \ {0}
    <2>1. cut \in Seq(Sample)
      BY PruneCuts
    <2>2. Len(cut) = Len(es) - m + 1
      BY <1>2 DEF CutAt
    <2> DEFINE l == Len(es)
    <2>3. l \in Nat \ {0} /\ m \in 1 .. l /\ Len(cut) = l - m + 1
      BY <1>1, <2>2
    <2> HIDE DEF cut, l
    <2>4. Len(cut) \in Nat \ {0}
      BY <2>3
    <2>5. QED
      BY <2>1, <2>2, <2>4
  <1>4. \A i \in 1 .. Len(cut) : cut[i] = es[m + i - 1]
    BY <1>2 DEF CutAt
  <1>5. Len(g) = Len(es) + k /\ \A i \in 1 .. Len(es) : es[i] = g[k + i]
    BY DEF Tails
  <1> HIDE DEF cut
  <1>6. n \in Nat /\ Len(g) = Len(cut) + n
    BY <1>1, <1>2, <1>3, <1>5
  <1>7. ASSUME NEW i \in 1 .. Len(cut)
        PROVE  cut[i] = g[n + i]
    <2>1. m + i - 1 \in 1 .. Len(es) /\ k + (m + i - 1) = n + i
      BY <1>1, <1>2, <1>3
    <2>2. QED
      BY <1>4, <1>5, <2>1
  <1>8. cut[1] = es[m] /\ cut[Len(cut)] = es[Len(es)]
    <2>1. 1 \in 1 .. Len(cut) /\ Len(cut) \in 1 .. Len(cut)
          /\ m + 1 - 1 = m /\ m + Len(cut) - 1 = Len(es)
      BY <1>1, <1>2, <1>3
    <2>2. QED
      BY <1>4, <2>1
  <1>9. n > 0 => cut # <<>> /\ cut[1].at < cut[Len(cut)].at - Window
    <2>1. cut # <<>>
      BY <1>3, EmptySeq
    <2>2. CASE m > 1
      BY <1>2, <1>8, <2>1, <2>2 DEF CutAt
    <2>3. CASE ~(m > 1)
      <3>1. m = 1 /\ n = k
        BY <1>1, <1>2, <2>3
      <3>2. QED
        BY <1>8, <2>1, <3>1 DEF Tails
    <2>4. QED
      BY <2>2, <2>3
  <1>10. QED
    BY <1>6, <1>7, <1>9 DEF Tails, cut

-----------------------------------------------------------------------------
(* The file that is read back.                                             *)

\* A non-empty set of numbers up to n has a largest one.
LEMMA MaxIsMember ==
    ASSUME NEW n \in Nat, NEW S \in SUBSET (0 .. n), S # {}
    PROVE  Max(S) \in S /\ \A y \in S : Max(S) >= y
  <1> DEFINE Gaps == {d \in Nat : n - d \in S}
  <1>1. \A x \in S : x \in Nat /\ n - x \in Gaps
    OBVIOUS
  <1>2. PICK d \in Gaps : \A y \in Gaps : ~(<<y, d>> \in OpToRel(<, Nat))
    <2>1. Gaps # {} /\ Gaps \subseteq Nat
      BY <1>1
    <2>2. QED
      BY <2>1, NatLessThanWellFounded, WFMin
  <1>3. \A y \in Gaps : ~(y < d)
    BY <1>2, Zenon DEF OpToRel
  <1>4. n - d \in S /\ \A y \in S : n - d >= y
    BY <1>1, <1>3
  <1>5. QED
    BY <1>4 DEF Max

LEMMA AfterBarrierCuts ==
    ASSUME NEW file \in Seq(Sample)
    PROVE  /\ AfterBarrier(file) \in Seq(Sample)
           /\ AfterBarrier(file) = <<>> => file = <<>>
           /\ \E m \in Nat \ {0} :
                 /\ \A i \in DOMAIN AfterBarrier(file) :
                       m + i - 1 \in DOMAIN file /\ AfterBarrier(file)[i] = file[m + i - 1]
                 /\ \A k \in DOMAIN file : k > m => ~file[k].reseed
  <1> DEFINE I == {i \in 1 .. Len(file) : file[i].reseed}
             barrier == IF I # {} THEN Max(I) ELSE 0
             m == IF barrier = 0 THEN 1 ELSE barrier
  <1>1. DOMAIN file = 1 .. Len(file) /\ Len(file) \in Nat
    OBVIOUS
  <1>2. barrier \in 0 .. Len(file) /\ \A k \in I : k <= barrier
    <2>1. I \in SUBSET (1 .. Len(file)) /\ I \in SUBSET (0 .. Len(file))
      OBVIOUS
    <2> HIDE DEF I
    <2>2. ASSUME I # {}
          PROVE  Max(I) \in 1 .. Len(file) /\ \A k \in I : k <= Max(I)
      <3>1. Max(I) \in I /\ \A k \in I : Max(I) >= k
        BY <1>1, <2>1, <2>2, MaxIsMember, Zenon
      <3>2. QED
        BY <2>1, <3>1
    <2>3. QED
      BY <1>1, <2>2
  <1>3. AfterBarrier(file) = SubSeq(file, m, Len(file))
    BY DEF AfterBarrier, SelectLastInSeq
  <1>4. \A k \in DOMAIN file : k > barrier => ~file[k].reseed
    <2> SUFFICES ASSUME NEW k \in DOMAIN file, k > barrier, file[k].reseed PROVE FALSE
      OBVIOUS
    <2>1. k \in I
      BY <1>1
    <2> HIDE DEF I, barrier
    <2>2. QED
      BY <1>1, <1>2, <2>1
  <1> HIDE DEF barrier
  <1>5. m \in Nat \ {0} /\ (m <= Len(file) \/ m = 1) /\ barrier <= m
    BY <1>1, <1>2
  <1>6. \A k \in DOMAIN file : k > m => ~file[k].reseed
    BY <1>1, <1>2, <1>4, <1>5
  <1> HIDE DEF m
  <1> DEFINE cut == SubSeq(file, m, Len(file))
  <1>7. /\ cut \in Seq(Sample)
        /\ Len(cut) = IF m <= Len(file) THEN Len(file) - m + 1 ELSE 0
        /\ \A i \in 1 .. Len(file) - m + 1 : cut[i] = file[m + i - 1]
    <2>1. \A i \in m .. Len(file) : file[i] \in Sample
      BY <1>1, <1>5
    <2>2. m \in Int /\ Len(file) \in Int
      BY <1>1, <1>5
    <2>3. QED
      BY <2>1, <2>2, SubSeqProperties
  <1> HIDE DEF cut
  <1>8. ASSUME NEW i \in DOMAIN cut
        PROVE  m + i - 1 \in DOMAIN file /\ cut[i] = file[m + i - 1]
    <2>1. DOMAIN cut = 1 .. Len(cut)
      BY <1>7
    <2>2. m <= Len(file) /\ i \in 1 .. Len(file) - m + 1
      BY <1>1, <1>5, <1>7, <2>1
    <2>3. m + i - 1 \in 1 .. Len(file)
      BY <1>1, <1>5, <2>2
    <2>4. QED
      BY <1>1, <1>7, <2>2, <2>3
  <1>9. cut = <<>> => file = <<>>
    BY <1>1, <1>5, <1>7, EmptySeq
  <1>10. QED
    BY <1>3, <1>5, <1>6, <1>7, <1>8, <1>9 DEF cut

\* ... and they keep their order.
LEMMA AfterBarrierTyped ==
    ASSUME NEW file \in Seq(Sample), NEW t \in Nat
    PROVE  /\ AfterBarrier(file) \in Seq(Sample)
           /\ Ordered(file, t) => Ordered(AfterBarrier(file), t)
  <1> DEFINE cut == AfterBarrier(file)
  <1>1. PICK m \in Nat \ {0} : \A i \in DOMAIN cut :
            m + i - 1 \in DOMAIN file /\ cut[i] = file[m + i - 1]
    BY AfterBarrierCuts
  <1>2. cut \in Seq(Sample)
    BY AfterBarrierCuts
  <1> HIDE DEF cut
  <1>3. DOMAIN cut = 1 .. Len(cut) /\ Len(cut) \in Nat
    BY <1>2
  <1>4. ASSUME Ordered(file, t), NEW i \in DOMAIN cut, NEW j \in DOMAIN cut, i <= j
        PROVE  cut[i].at <= cut[j].at
    <2>1. m + i - 1 <= m + j - 1
      BY <1>3, <1>4
    <2>2. QED
      BY <1>1, <1>4, <2>1 DEF Ordered
  <1>5. Ordered(file, t) => \A i \in DOMAIN cut : cut[i].at <= t
    BY <1>1 DEF Ordered
  <1>6. QED
    BY <1>2, <1>4, <1>5 DEF Ordered, cut

\* A sample taken now goes to the end of an ordered list.
LEMMA AppendOrdered ==
    ASSUME NEW g \in Seq(Sample), NEW x \in Sample, NEW t \in Nat,
           Ordered(g, t), x.at = t
    PROVE  Append(g, x) \in Seq(Sample) /\ Ordered(Append(g, x), t)
  <1> DEFINE a == Append(g, x)
  <1>1. a \in Seq(Sample) /\ Len(a) = Len(g) + 1 /\ a[Len(a)] = x
        /\ \A i \in 1 .. Len(g) : a[i] = g[i]
    BY AppendProperties
  <1> HIDE DEF a
  <1>2. DOMAIN a = 1 .. Len(a) /\ DOMAIN g = 1 .. Len(g) /\ Len(g) \in Nat
    BY <1>1
  <1>3. \A i \in DOMAIN a : a[i].at <= t
    BY <1>1, <1>2 DEF Ordered
  <1>4. ASSUME NEW i \in DOMAIN a, NEW j \in DOMAIN a, i <= j
        PROVE  a[i].at <= a[j].at
    <2>1. CASE j = Len(a)
      BY <1>1, <1>3, <2>1
    <2>2. CASE j # Len(a)
      <3>1. i \in DOMAIN g /\ j \in DOMAIN g
        BY <1>1, <1>2, <1>4, <2>2
      <3>2. QED
        BY <1>1, <1>2, <1>4, <3>1 DEF Ordered
    <2>3. QED
      BY <2>1, <2>2
  <1>5. QED
    BY <1>1, <1>3, <1>4 DEF Ordered, a

\* The same sample at the end of a list and of a tail of it.
LEMMA AppendTails ==
    ASSUME TrackerAssumption, NEW es \in Seq(Sample), NEW g \in Seq(Sample),
           NEW k \in Nat, NEW x \in Sample, NEW t \in Nat,
           Tails(es, g, k), Ordered(g, t), x.at = t
    PROVE  Tails(Append(es, x), Append(g, x), k)
  <1> DEFINE e2 == Append(es, x)
             g2 == Append(g, x)
  <1>1. e2 \in Seq(Sample) /\ Len(e2) = Len(es) + 1 /\ e2[Len(e2)] = x
        /\ \A i \in 1 .. Len(es) : e2[i] = es[i]
    BY AppendProperties
  <1>2. g2 \in Seq(Sample) /\ Len(g2) = Len(g) + 1 /\ g2[Len(g2)] = x
        /\ \A i \in 1 .. Len(g) : g2[i] = g[i]
    BY AppendProperties
  <1> HIDE DEF e2, g2
  <1>3. Len(es) \in Nat /\ Len(g) \in Nat /\ Len(g) = Len(es) + k
        /\ \A i \in 1 .. Len(es) : es[i] = g[k + i]
    BY DEF Tails
  <1>4. Len(g2) = Len(e2) + k
    BY <1>1, <1>2, <1>3
  <1>5. ASSUME NEW i \in 1 .. Len(e2)
        PROVE  e2[i] = g2[k + i]
    <2>1. CASE i = Len(e2)
      BY <1>1, <1>2, <1>4, <2>1
    <2>2. CASE i # Len(e2)
      <3>1. i \in 1 .. Len(es) /\ k + i \in 1 .. Len(g)
        BY <1>1, <1>3, <2>2
      <3>2. QED
        BY <1>1, <1>2, <1>3, <3>1
    <2>3. QED
      BY <2>1, <2>2
  <1>6. ASSUME k > 0
        PROVE  e2 # <<>> /\ e2[1].at < e2[Len(e2)].at - Window
    <2>1. es # <<>> /\ es[1].at < es[Len(es)].at - Window
      BY <1>6 DEF Tails
    <2>2. 1 \in 1 .. Len(es) /\ Len(es) \in 1 .. Len(es) /\ k + Len(es) \in DOMAIN g
      BY <1>3, <2>1, EmptySeq
    <2>3. es[Len(es)].at <= t /\ es[1].at \in Nat /\ es[Len(es)].at \in Nat
      <3>1. g[k + Len(es)].at <= t
        BY <2>2 DEF Ordered
      <3>2. 1 \in DOMAIN es /\ Len(es) \in DOMAIN es
        BY <2>2
      <3>3. es[1].at \in Nat /\ es[Len(es)].at \in Nat
        BY <3>2, SampleAt
      <3>4. QED
        BY <1>3, <2>2, <3>1, <3>3
    <2>4. e2[1] = es[1] /\ e2[Len(e2)].at = t
      BY <1>1, <2>2
    <2>5. e2 # <<>>
      BY <1>1, <1>3, EmptySeq
    <2> DEFINE a == es[1].at
               b == es[Len(es)].at
               c == e2[Len(e2)].at
    <2>6. a \in Nat /\ b \in Nat /\ c = t /\ a < b - Window /\ b <= t
      BY <2>1, <2>3, <2>4
    <2>7. Window \in Nat
      BY DEF TrackerAssumption
    <2> HIDE DEF a, b, c
    <2>8. a < c - Window
      BY <2>6, <2>7
    <2>9. QED
      BY <2>4, <2>5, <2>8 DEF a, c
  <1>7. QED
    BY <1>4, <1>5, <1>6 DEF Tails, e2, g2

\* A list is a tail of itself, and a list of one sample taken now is ordered.
LEMMA TailOfItself ==
    ASSUME NEW g \in Seq(Sample)
    PROVE  Tails(g, g, 0)
  BY DEF Tails

LEMMA SingleOrdered ==
    ASSUME NEW x \in Sample, NEW t \in Nat, x.at = t
    PROVE  <<x>> \in Seq(Sample) /\ <<x>> # <<>> /\ Ordered(<<x>>, t)
  BY DEF Ordered

\* A list stays ordered as time passes.
LEMMA StillOrdered ==
    ASSUME NEW g \in Seq(Sample), NEW t \in Nat, NEW u \in Nat, t <= u, Ordered(g, t)
    PROVE  Ordered(g, u)
  <1>1. \A i \in DOMAIN g : g[i].at \in Nat
    BY SampleAt
  <1>2. \A i \in DOMAIN g : g[i].at <= u
    BY <1>1 DEF Ordered
  <1>3. QED
    BY <1>2 DEF Ordered

\* Pruning keeps the latest sample.
LEMMA PruneKeepsLast ==
    ASSUME TrackerAssumption, NEW es \in Seq(Sample), es # <<>>
    PROVE  Prune(es) # <<>> /\ Last(Prune(es)) = Last(es)
  <1> DEFINE cut == Prune(es)
  <1>1. DOMAIN es = 1 .. Len(es) /\ Len(es) \in Nat \ {0}
    OBVIOUS
  <1>2. cut \in Seq(Sample) /\ \E m \in 1 .. Len(es) : CutAt(es, m, cut)
    BY PruneCuts
  <1> HIDE DEF cut
  <1>3. PICK m \in 1 .. Len(es) : CutAt(es, m, cut)
    BY <1>2
  <1>4. Len(cut) = Len(es) - m + 1 /\ \A i \in 1 .. Len(cut) : cut[i] = es[m + i - 1]
    BY <1>3 DEF CutAt
  <1>5. Len(cut) \in 1 .. Len(cut) /\ m + Len(cut) - 1 = Len(es) /\ Len(cut) # 0
    BY <1>1, <1>4
  <1>6. cut # <<>> /\ cut[Len(cut)] = es[Len(es)]
    BY <1>2, <1>4, <1>5, EmptySeq
  <1>7. QED
    BY <1>6 DEF Last, cut

-----------------------------------------------------------------------------
(* A call of record_settlement.                                            *)

LEMMA TakenTyped ==
    ASSUME NEW b \in Nat, NEW t \in Nat
    PROVE  /\ Taken(b, t) \in Sample /\ Taken(b, t).at = t
           /\ Reseeded(b, t) \in Sample /\ Reseeded(b, t).at = t
  BY DEF Taken, Reseeded, Sample

\* The list is seeded before the new sample goes to it.
LEMMA SeedTyped ==
    ASSUME TrackerTypeOK, NEW es \in Seq(Sample), seeded => es # <<>>
    PROVE  /\ Seed(es, anchor) \in Seq(Sample) /\ Seed(es, anchor) # <<>>
           /\ Ordered(es, anchor) => Ordered(Seed(es, anchor), anchor)
  <1>1. Taken(initial, anchor) \in Sample /\ Taken(initial, anchor).at = anchor
    BY TakenTyped DEF TrackerTypeOK
  <1>2. /\ <<Taken(initial, anchor)>> \in Seq(Sample)
        /\ <<Taken(initial, anchor)>> # <<>>
        /\ Ordered(<<Taken(initial, anchor)>>, anchor)
    BY <1>1, SingleOrdered DEF TrackerTypeOK
  <1>3. QED
    BY <1>2 DEF Seed

LEMMA RecordedTyped ==
    ASSUME TrackerTypeOK, NEW b \in Nat, NEW es \in Seq(Sample), seeded => es # <<>>
    PROVE  /\ Recorded(es, b) \in Seq(Sample) /\ Recorded(es, b) # <<>>
           /\ Ordered(es, anchor) => Ordered(Recorded(es, b), anchor)
  <1> DEFINE from == Seed(es, anchor)
             x == Taken(b, anchor)
  <1>1. from \in Seq(Sample) /\ from # <<>>
        /\ (Ordered(es, anchor) => Ordered(from, anchor))
    BY SeedTyped
  <1>2. x \in Sample /\ x.at = anchor
    BY TakenTyped DEF TrackerTypeOK
  <1>3. Recorded(es, b) = from \/ Recorded(es, b) = Append(from, x)
    BY DEF Recorded
  <1> HIDE DEF from, x
  <1>4. Append(from, x) \in Seq(Sample) /\ Append(from, x) # <<>>
    <2>1. Append(from, x) \in Seq(Sample) /\ Len(Append(from, x)) = Len(from) + 1
      BY <1>1, <1>2, AppendProperties
    <2>2. Len(from) \in Nat
      BY <1>1
    <2>3. QED
      BY <2>1, <2>2, EmptySeq
  <1>5. Ordered(es, anchor) => Ordered(Append(from, x), anchor)
    BY <1>1, <1>2, AppendOrdered DEF TrackerTypeOK
  <1>6. QED
    BY <1>1, <1>3, <1>4, <1>5

-----------------------------------------------------------------------------
(* Type correctness.                                                       *)

\* The list that record_settlement leaves in memory.
LEMMA KeptTyped ==
    ASSUME TrackerAssumption, NEW all \in Seq(Sample), all # <<>>
    PROVE  /\ Prune(all) \in Seq(Sample) /\ Prune(all) # <<>>
           /\ Last(Prune(all)) \in Sample /\ Last(all) \in Sample
  <1>1. Len(all) \in DOMAIN all
    BY EmptySeq
  <1>2. Last(all) \in Sample
    BY <1>1 DEF Last
  <1>3. QED
    BY <1>2, PruneCuts, PruneKeepsLast

\* The current bankroll is the balance of a sample, or the one at the start.
LEMMA CurrentIsNat ==
    ASSUME TrackerTypeOK
    PROVE  CurrentBankroll \in Nat
  <1>1. ASSUME seeded
        PROVE  Len(entries) \in DOMAIN entries
    <2>1. entries \in Seq(Sample) /\ entries # <<>>
      BY <1>1 DEF TrackerTypeOK
    <2>2. QED
      BY <2>1, EmptySeq
  <1>2. seeded => Last(entries).bankroll \in Nat
    BY <1>1, SampleAt DEF TrackerTypeOK, Last
  <1>3. QED
    BY <1>2 DEF CurrentBankroll, TrackerTypeOK

\* What the engine does to the tracker in one step, with any balance: one method or
\* none of them, a new round anchor, or a restart.
TrackerMoves ==
    \/ \E b \in Nat : RecordSettlement(b)
    \/ ResetPeakBaseline
    \/ \E n \in Nat : SetPaused(n)
    \/ TickCooldown
    \/ \E b \in Nat : RestartTracker(b)
    \/ Advance
    \/ UNCHANGED trackerVars

\* The steps of the tracker on its own are among them.
LEMMA NextMoves == [TrackerNext]_trackerVars => TrackerMoves
  BY TrackerAssumption DEF TrackerAssumption, TrackerNext, TrackerMoves

\* Every method of the tracker keeps its type.
LEMMA MovesKeepType ==
    ASSUME TrackerTypeOK, TrackerMoves
    PROVE  TrackerTypeOK'
  <1>1. ASSUME NEW b \in Nat, RecordSettlement(b)
        PROVE  TrackerTypeOK'
    <2> DEFINE all == Recorded(entries, b)
    <2>1. b \in Nat
      OBVIOUS
    <2>2. all \in Seq(Sample) /\ all # <<>>
      BY <2>1, RecordedTyped DEF TrackerTypeOK
    <2>4. entries' \in Seq(Sample) /\ entries' # <<>> /\ Last(entries') \in Sample
      BY <1>1, <2>2, TrackerAssumption, KeptTyped DEF RecordSettlement
    <2>5. history' \in Seq(Sample)
      BY <1>1, <2>4, AppendProperties DEF RecordSettlement, TrackerTypeOK
    <2>6. ASSUME NEW es \in Seq(Sample)
          PROVE  Recorded(es, b) \in Seq(Sample)
      <3>1. Taken(b, anchor) \in Sample /\ Taken(initial, anchor) \in Sample
        BY <2>1, TakenTyped DEF TrackerTypeOK
      <3>2. Seed(es, anchor) \in Seq(Sample)
        BY <2>6, <3>1 DEF Seed
      <3>3. QED
        BY <3>1, <3>2, AppendProperties DEF Recorded
    <2>7. given' \in Seq(Sample) /\ truth' \in Seq(Sample)
      BY <1>1, <2>6 DEF RecordSettlement, TrackerTypeOK
    <2>8. QED
      BY <1>1, <2>4, <2>5, <2>7
      DEF RecordSettlement, TrackerTypeOK, cooldownVars, restartVars
  <1>2. ASSUME ResetPeakBaseline
        PROVE  TrackerTypeOK'
    <2>1. CurrentBankroll \in Nat
      BY CurrentIsNat
    <2> DEFINE reset == <<Reseeded(CurrentBankroll, anchor)>>
    <2>2. reset \in Seq(Sample) /\ reset # <<>>
      BY <2>1, TakenTyped, SingleOrdered DEF TrackerTypeOK
    <2>3. history \o reset \in Seq(Sample)
      BY <2>2, ConcatProperties DEF TrackerTypeOK
    <2>4. QED
      BY <1>2, <2>2, <2>3
      DEF ResetPeakBaseline, TrackerTypeOK, cooldownVars, restartVars
  <1>3. ASSUME NEW n \in Nat, SetPaused(n)
        PROVE  TrackerTypeOK'
    BY <1>3, TrackerAssumption
    DEF TrackerAssumption, SetPaused, Count, TrackerTypeOK, sampleVars
  <1>4. ASSUME TickCooldown
        PROVE  TrackerTypeOK'
    <2>1. CASE TickedAlready
      BY <1>4, <2>1 DEF TickCooldown, TrackerTypeOK, sampleVars, cooldownVars, restartVars
    <2>2. CASE ~TickedAlready
      <3>1. /\ lastTick' = anchor /\ anchor' = anchor
            /\ cooldown' = cooldown - 1 /\ pauseFile' = cooldown - 1
            /\ ticked' = ticked \cup {anchor} /\ granted' = granted
        BY <1>4, <2>2 DEF TickCooldown, Count
      <3>2. cooldown \in Nat /\ cooldown > 0 /\ anchor \in Nat /\ ticked \subseteq 0 .. anchor
        BY <1>4 DEF TickCooldown, TrackerTypeOK
      <3>3. lastTick' \in Int /\ lastTick' <= anchor' /\ cooldown' \in Nat
            /\ ticked' \subseteq 0 .. anchor'
        BY <3>1, <3>2
      <3>4. UNCHANGED <<sampleVars, restartVars>>
        BY <1>4 DEF TickCooldown
      <3>5. QED
        BY <3>1, <3>3, <3>4 DEF TrackerTypeOK, sampleVars, restartVars
    <2>3. QED
      BY <2>1, <2>2
  <1>5. ASSUME NEW b \in Nat, RestartTracker(b)
        PROVE  TrackerTypeOK'
    <2> DEFINE loaded == AfterBarrier(history)
    <2>1. loaded \in Seq(Sample)
      BY AfterBarrierTyped DEF TrackerTypeOK
    <2>2. /\ entries' \in Seq(Sample) /\ given' \in Seq(Sample)
          /\ seeded' = (entries' # <<>>)
      BY <1>5, <2>1, TrackerAssumption, KeptTyped DEF RestartTracker
    <2>3. b \in Nat
      OBVIOUS
    <2>4. QED
      BY <1>5, <2>2, <2>3 DEF RestartTracker, TrackerTypeOK
  <1>6. ASSUME Advance
        PROVE  TrackerTypeOK'
    <2>1. PICK a \in anchor + 1 .. MaxAnchor : anchor' = a
      BY <1>6 DEF Advance
    <2>2. anchor' \in Nat /\ anchor < anchor'
      BY <2>1, TrackerAssumption DEF TrackerAssumption, TrackerTypeOK
    <2>3. lastTick <= anchor' /\ ticked \subseteq 0 .. anchor'
      BY <2>2 DEF TrackerTypeOK
    <2>4. QED
      BY <1>6, <2>2, <2>3 DEF Advance, TrackerTypeOK, sampleVars, cooldownVars, restartVars
  <1>7. CASE UNCHANGED trackerVars
    BY <1>7 DEF TrackerTypeOK, trackerVars, sampleVars, cooldownVars, restartVars
  <1>8. QED
    BY <1>1, <1>2, <1>3, <1>4, <1>5, <1>6, <1>7 DEF TrackerMoves

\* The tracker starts well typed.
LEMMA TrackerStarts ==
    ASSUME TrackerAssumption, TrackerInit
    PROVE  TrackerTypeOK
  <1>1. entries \in Seq(Sample) /\ history \in Seq(Sample)
        /\ given \in Seq(Sample) /\ truth \in Seq(Sample)
    BY DEF TrackerInit
  <1>2. initial \in Nat /\ seeded = (entries # <<>>)
    BY DEF TrackerAssumption, TrackerInit
  <1>3. lastTick \in Int /\ lastTick <= anchor /\ ticked \subseteq 0 .. anchor
    BY DEF TrackerInit
  <1>4. QED
    BY <1>1, <1>2, <1>3 DEF TrackerInit, TrackerTypeOK

\* The state of the tracker is well typed: the list is seeded exactly when it
\* has a sample, the pause file and the memory agree, and no round ticks before
\* it is reached.
THEOREM TrackerTyped == TrackerSpec => []TrackerTypeOK
  <1>1. TrackerInit => TrackerTypeOK
    BY TrackerAssumption, TrackerStarts
  <1>2. TrackerTypeOK /\ [TrackerNext]_trackerVars => TrackerTypeOK'
    BY MovesKeepType, NextMoves
  <1>3. QED
    BY <1>1, <1>2, PTL DEF TrackerSpec

-----------------------------------------------------------------------------
(* The countdown of a suspension.                                          *)

\* If the round at hand has ticked and the process does not know it any more,
\* there was a restart, and the count has a round to spare.
CooldownInv ==
    /\ CooldownCountsRounds
    /\ anchor \in ticked /\ lastTick # anchor =>
           cooldown + Cardinality(ticked) + lapses >= granted + 1

\* The set of rounds that have ticked is finite, and grows by one.
LEMMA TickedFinite ==
    ASSUME TrackerTypeOK
    PROVE  /\ IsFiniteSet(ticked) /\ Cardinality(ticked) \in Nat
           /\ Cardinality(ticked \cup {anchor}) =
                  IF anchor \in ticked THEN Cardinality(ticked) ELSE Cardinality(ticked) + 1
  <1>1. IsFiniteSet(0 .. anchor)
    BY FS_Interval DEF TrackerTypeOK
  <1>2. IsFiniteSet(ticked)
    BY <1>1, FS_Subset DEF TrackerTypeOK
  <1>3. QED
    BY <1>2, FS_CardinalityType, FS_AddElement

\* Every method of the tracker keeps the count of the suspension.
LEMMA MovesKeepCooldown ==
    ASSUME TrackerTypeOK, CooldownInv, TrackerMoves
    PROVE  CooldownInv'
  <1> DEFINE card == Cardinality(ticked)
  <1>1. card \in Nat /\ cooldown \in Nat /\ lapses \in Nat /\ granted \in Nat
        /\ anchor \in Nat /\ ticked \subseteq 0 .. anchor
    BY TickedFinite DEF TrackerTypeOK
  <1>2. /\ cooldown + card + lapses >= granted
        /\ anchor \in ticked /\ lastTick # anchor => cooldown + card + lapses >= granted + 1
    BY DEF CooldownInv, CooldownCountsRounds
  <1>3. CASE UNCHANGED <<anchor, cooldownVars, restartVars>>
    BY <1>2, <1>3 DEF CooldownInv, CooldownCountsRounds, cooldownVars, restartVars
  <1>4. ASSUME NEW n \in Nat, SetPaused(n)
        PROVE  CooldownInv'
    <2>1. cooldown' = n /\ granted' = n /\ ticked' = {} /\ lapses' = 0 /\ n \in Nat
      BY <1>4, TrackerAssumption DEF TrackerAssumption, SetPaused, Count
    <2>2. Cardinality(ticked') = 0
      BY <2>1, FS_EmptySet
    <2>3. QED
      BY <2>1, <2>2 DEF CooldownInv, CooldownCountsRounds
  <1>5. ASSUME TickCooldown
        PROVE  CooldownInv'
    <2>1. CASE TickedAlready
      BY <1>3, <1>5, <2>1 DEF TickCooldown, cooldownVars, restartVars
    <2>2. CASE ~TickedAlready
      <3>1. /\ lastTick' = anchor /\ anchor' = anchor /\ cooldown' = cooldown - 1
            /\ ticked' = ticked \cup {anchor} /\ granted' = granted /\ lapses' = lapses
            /\ lastTick # anchor
        BY <1>5, <2>2 DEF TickCooldown, Count, TickedAlready, restartVars
      <3>2. Cardinality(ticked') = IF anchor \in ticked THEN card ELSE card + 1
        BY <3>1, TickedFinite
      <3>3. cooldown' + Cardinality(ticked') + lapses' >= granted'
        BY <1>1, <1>2, <3>1, <3>2
      <3>4. QED
        BY <3>1, <3>3 DEF CooldownInv, CooldownCountsRounds
    <2>3. QED
      BY <2>1, <2>2
  <1>6. ASSUME NEW b \in Nat, RestartTracker(b)
        PROVE  CooldownInv'
    <2>1. /\ cooldown' = cooldown /\ lapses' = lapses + 1
          /\ ticked' = ticked /\ granted' = granted
      BY <1>6 DEF RestartTracker, TrackerTypeOK
    <2>2. cooldown' + Cardinality(ticked') + lapses' >= granted' + 1
      BY <1>1, <1>2, <2>1
    <2>3. cooldown' + Cardinality(ticked') + lapses' >= granted'
      BY <1>1, <1>2, <2>1
    <2>4. QED
      BY <2>2, <2>3 DEF CooldownInv, CooldownCountsRounds
  <1>7. ASSUME Advance
        PROVE  CooldownInv'
    <2>1. PICK a \in anchor + 1 .. MaxAnchor : anchor' = a
      BY <1>7 DEF Advance
    <2>2. anchor' \notin ticked
      BY <1>1, <2>1, TrackerAssumption DEF TrackerAssumption
    <2>3. QED
      BY <1>2, <1>7, <2>2
      DEF Advance, CooldownInv, CooldownCountsRounds, cooldownVars, restartVars
  <1>8. ASSUME NEW b \in Nat, RecordSettlement(b)
        PROVE  CooldownInv'
    BY <1>3, <1>8 DEF RecordSettlement
  <1>9. CASE ResetPeakBaseline
    BY <1>3, <1>9 DEF ResetPeakBaseline
  <1>10. CASE UNCHANGED trackerVars
    BY <1>3, <1>10 DEF trackerVars
  <1>11. QED
    BY <1>4, <1>5, <1>6, <1>7, <1>8, <1>9, <1>10 DEF TrackerMoves

\* A suspension of n rounds lasts n distinct rounds, less at most one for every
\* restart: _last_tick_start_at is all that tells a repeated round, and it is
\* not on disk.
THEOREM CooldownSound == TrackerSpec => []CooldownCountsRounds
  <1>1. TrackerInit => CooldownInv
    BY FS_EmptySet DEF TrackerInit, CooldownInv, CooldownCountsRounds
  <1>2. TrackerTypeOK /\ CooldownInv /\ [TrackerNext]_trackerVars => CooldownInv'
    BY MovesKeepCooldown, NextMoves
  <1>3. CooldownInv => CooldownCountsRounds
    BY DEF CooldownInv
  <1>4. QED
    BY <1>1, <1>2, <1>3, TrackerTyped, PTL DEF TrackerSpec

-----------------------------------------------------------------------------
(* The peak.                                                               *)

\* What is in memory is the end of what this process knows of, cut before the
\* window; time only goes forward in all three lists.
PeakInv ==
    /\ Ordered(history, anchor) /\ Ordered(given, anchor)
    /\ \E k \in Nat : Tails(entries, given, k)

\* The two lists grow by the same sample, or both start with the seed.
LEMMA RecordedTails ==
    ASSUME TrackerAssumption, TrackerTypeOK, NEW b \in Nat, NEW k \in Nat,
           Tails(entries, given, k), Ordered(given, anchor), seeded => given # <<>>
    PROVE  \E n \in Nat : Tails(Recorded(entries, b), Recorded(given, b), n)
  <1> DEFINE es == Seed(entries, anchor)
             g == Seed(given, anchor)
             x == Taken(b, anchor)
  <1>1. /\ es \in Seq(Sample) /\ g \in Seq(Sample) /\ Ordered(g, anchor)
        /\ x \in Sample /\ x.at = anchor /\ anchor \in Nat
    BY SeedTyped, TakenTyped DEF TrackerTypeOK
  <1>2. PICK n \in Nat : Tails(es, g, n)
    <2>1. CASE seeded
      BY <2>1 DEF Seed
    <2>2. CASE ~seeded
      BY <1>1, <2>2, TailOfItself DEF Seed
    <2>3. QED
      BY <2>1, <2>2
  <1>3. \/ Recorded(entries, b) = es /\ Recorded(given, b) = g
        \/ Recorded(entries, b) = Append(es, x) /\ Recorded(given, b) = Append(g, x)
    BY DEF Recorded
  <1> HIDE DEF es, g, x
  <1>4. Tails(Append(es, x), Append(g, x), n)
    BY <1>1, <1>2, AppendTails
  <1>5. QED
    BY <1>2, <1>3, <1>4

\* Every method of the tracker keeps the list a tail of what the process knows.
LEMMA MovesKeepPeak ==
    ASSUME TrackerTypeOK, PeakInv, TrackerMoves
    PROVE  PeakInv'
  <1>1. /\ entries \in Seq(Sample) /\ given \in Seq(Sample) /\ history \in Seq(Sample)
        /\ anchor \in Nat /\ seeded = (entries # <<>>)
        /\ Ordered(history, anchor) /\ Ordered(given, anchor)
    BY DEF TrackerTypeOK, PeakInv
  <1>2. PICK k \in Nat : Tails(entries, given, k)
    BY DEF PeakInv
  <1>3. seeded => given # <<>>
    <2>1. seeded => Len(entries) # 0
      BY <1>1, EmptySeq
    <2>2. Len(given) = Len(entries) + k
      BY <1>2 DEF Tails
    <2>3. seeded => Len(given) # 0
      BY <1>1, <1>2, <2>1, <2>2
    <2>4. QED
      BY <1>1, <2>3, EmptySeq
  <1>4. CASE UNCHANGED <<anchor, sampleVars>>
    BY <1>1, <1>2, <1>4 DEF PeakInv, sampleVars
  <1>5. ASSUME NEW b \in Nat, RecordSettlement(b)
        PROVE  PeakInv'
    <2> DEFINE all == Recorded(entries, b)
               grown == Recorded(given, b)
    <2>1. b \in Nat
      OBVIOUS
    <2>2. /\ all \in Seq(Sample) /\ all # <<>>
          /\ grown \in Seq(Sample) /\ Ordered(grown, anchor)
      BY <1>1, <1>3, <2>1, RecordedTyped
    <2>3. PICK n \in Nat : Tails(all, grown, n)
      BY <1>1, <1>2, <1>3, <2>1, TrackerAssumption, RecordedTails
    <2>4. \E m \in Nat : Tails(Prune(all), grown, m)
      BY <2>2, <2>3, TrackerAssumption, PrunedTails
    <2>5. /\ entries' = all \/ entries' = Prune(all)
          /\ given' = grown /\ anchor' = anchor
          /\ history' = history \/ history' = Append(history, Last(entries'))
      BY <1>5 DEF RecordSettlement
    <2>6. ASSUME Len(entries') > Len(entries)
          PROVE  Last(entries') \in Sample /\ Last(entries').at = anchor
      <3> DEFINE es == Seed(entries, anchor)
                 x == Taken(b, anchor)
      <3>1. x \in Sample /\ x.at = anchor
            /\ Taken(initial, anchor) \in Sample /\ Taken(initial, anchor).at = anchor
        BY <1>1, <2>1, TakenTyped DEF TrackerTypeOK
      <3>2. CASE Repeats(es, b)
        <4>1. entries' = es
          BY <1>5, <3>2 DEF RecordSettlement, Recorded
        <4>2. entries' = <<Taken(initial, anchor)>>
          BY <1>1, <2>6, <4>1 DEF Seed
        <4>3. QED
          BY <3>1, <4>2 DEF Last
      <3>3. CASE ~Repeats(es, b)
        <4>1. all = Append(es, x) /\ entries' = Prune(all)
          BY <1>5, <3>3 DEF RecordSettlement, Recorded
        <4>2. es \in Seq(Sample)
          BY <1>1, SeedTyped
        <4>3. Last(all) = x
          <5> HIDE DEF es, x
          <5>1. Len(all) = Len(es) + 1 /\ all[Len(es) + 1] = x
            BY <3>1, <4>1, <4>2, AppendProperties
          <5>2. QED
            BY <5>1 DEF Last
        <4>4. Last(Prune(all)) = Last(all)
          BY <2>2, TrackerAssumption, PruneKeepsLast
        <4>5. QED
          BY <3>1, <4>1, <4>3, <4>4
      <3>4. QED
        BY <3>2, <3>3
    <2>7. Ordered(history', anchor)
      <3>1. CASE Len(entries') > Len(entries)
        BY <1>1, <1>5, <2>6, <3>1, AppendOrdered DEF RecordSettlement
      <3>2. CASE ~(Len(entries') > Len(entries))
        BY <1>1, <1>5, <3>2 DEF RecordSettlement
      <3>3. QED
        BY <3>1, <3>2
    <2>8. QED
      BY <2>2, <2>3, <2>4, <2>5, <2>7 DEF PeakInv
  <1>6. ASSUME ResetPeakBaseline
        PROVE  PeakInv'
    <2> DEFINE x == Reseeded(CurrentBankroll, anchor)
    <2>1. CurrentBankroll \in Nat
      BY CurrentIsNat
    <2>2. x \in Sample /\ x.at = anchor
      BY <1>1, <2>1, TakenTyped
    <2>3. entries' = <<x>> /\ given' = <<x>> /\ anchor' = anchor
          /\ history' = history \o <<x>>
      BY <1>6 DEF ResetPeakBaseline
    <2> HIDE DEF x
    <2>4. <<x>> \in Seq(Sample) /\ Ordered(<<x>>, anchor) /\ Tails(<<x>>, <<x>>, 0)
      BY <1>1, <2>2, SingleOrdered, TailOfItself
    <2>5. history \o <<x>> = Append(history, x)
      BY <1>1, <2>2
    <2>6. Ordered(Append(history, x), anchor)
      BY <1>1, <2>2, AppendOrdered
    <2>7. QED
      BY <2>3, <2>4, <2>5, <2>6 DEF PeakInv
  <1>7. ASSUME NEW b \in Nat, RestartTracker(b)
        PROVE  PeakInv'
    <2> DEFINE loaded == AfterBarrier(history)
    <2>1. loaded \in Seq(Sample) /\ Ordered(loaded, anchor)
      BY <1>1, AfterBarrierTyped
    <2>2. entries' = (IF loaded = <<>> THEN <<>> ELSE Prune(loaded))
          /\ given' = loaded /\ anchor' = anchor /\ history' = history
      BY <1>7 DEF RestartTracker
    <2> HIDE DEF loaded
    <2>3. Tails(loaded, loaded, 0)
      BY <2>1, TailOfItself
    <2>4. loaded # <<>> => \E n \in Nat : Tails(Prune(loaded), loaded, n)
      BY <2>1, <2>3, TrackerAssumption, PrunedTails
    <2>5. \E n \in Nat : Tails(entries', given', n)
      BY <2>2, <2>3, <2>4
    <2>6. QED
      BY <1>1, <2>1, <2>2, <2>5 DEF PeakInv
  <1>8. ASSUME Advance
        PROVE  PeakInv'
    <2>1. PICK a \in anchor + 1 .. MaxAnchor : anchor' = a
      BY <1>8 DEF Advance
    <2>2. anchor' \in Nat /\ anchor <= anchor'
      BY <1>1, <2>1, TrackerAssumption DEF TrackerAssumption
    <2>3. Ordered(history, anchor') /\ Ordered(given, anchor')
      BY <1>1, <2>2, StillOrdered
    <2>4. QED
      BY <1>2, <1>8, <2>3 DEF Advance, PeakInv, sampleVars
  <1>9. ASSUME NEW n \in Nat, SetPaused(n)
        PROVE  PeakInv'
    BY <1>4, <1>9 DEF SetPaused
  <1>10. CASE TickCooldown
    BY <1>4, <1>10 DEF TickCooldown
  <1>11. CASE UNCHANGED trackerVars
    BY <1>4, <1>11 DEF trackerVars
  <1>12. QED
    BY <1>5, <1>6, <1>7, <1>8, <1>9, <1>10, <1>11 DEF TrackerMoves

\* With no sample there is nothing to order and nothing cut.
LEMMA PeakStarts ==
    ASSUME TrackerInit
    PROVE  PeakInv
  <1>1. Tails(<<>>, <<>>, 0)
    <2>1. <<>> \in Seq(Sample)
      OBVIOUS
    <2>2. QED
      BY <2>1, TailOfItself
  <1>2. Ordered(<<>>, anchor)
    BY DEF Ordered
  <1>3. QED
    BY <1>1, <1>2 DEF TrackerInit, PeakInv

\* The end of a list that was cut gives the peak of the list.
LEMMA PeakHolds ==
    ASSUME TrackerTypeOK, PeakInv
    PROVE  PeakIsWindowMax
  <1>1. PICK k \in Nat : Tails(entries, given, k)
    BY DEF PeakInv
  <1>2. QED
    BY <1>1, TrackerAssumption, SamePeak DEF PeakInv, TrackerTypeOK, PeakIsWindowMax

\* Pruning on every sample and on every load never changes the peak: it is the
\* maximum over the window that ends now and the one sample before it, as if
\* every sample had been kept.
THEOREM PeakSound == TrackerSpec => []PeakIsWindowMax
  <1>1. TrackerInit => PeakInv
    BY PeakStarts
  <1>2. TrackerTypeOK /\ PeakInv /\ [TrackerNext]_trackerVars => PeakInv'
    BY MovesKeepPeak, NextMoves
  <1>3. TrackerTypeOK /\ PeakInv => PeakIsWindowMax
    BY PeakHolds
  <1>4. QED
    BY <1>1, <1>2, <1>3, TrackerTyped, PTL DEF TrackerSpec

-----------------------------------------------------------------------------
(* The baseline.                                                           *)

\* The samples of a file with no barrier behind them.
Loadable(file) ==
    {file[i] : i \in {j \in DOMAIN file : \A k \in DOMAIN file : k > j => ~file[k].reseed}}

\* What is in memory and what a restart would read are of the current baseline; a
\* process that has not recorded anything has found an empty file.
BaselineInv ==
    /\ BaselineIsKept
    /\ Loadable(history) \subseteq ToSet(truth)
    /\ ~seeded => history = <<>>

\* A load reads nothing else, and prunes only.
LEMMA LoadIsLoadable ==
    ASSUME NEW file \in Seq(Sample)
    PROVE  ToSet(AfterBarrier(file)) \subseteq Loadable(file)
  <1> DEFINE cut == AfterBarrier(file)
  <1>1. PICK m \in Nat \ {0} :
            /\ \A i \in DOMAIN cut : m + i - 1 \in DOMAIN file /\ cut[i] = file[m + i - 1]
            /\ \A k \in DOMAIN file : k > m => ~file[k].reseed
    BY AfterBarrierCuts
  <1>2. cut \in Seq(Sample)
    BY AfterBarrierCuts
  <1> HIDE DEF cut
  <1>3. ASSUME NEW i \in DOMAIN cut
        PROVE  cut[i] \in Loadable(file)
    <2>1. i \in Nat \ {0} /\ DOMAIN file \subseteq Nat
      BY <1>2
    <2>2. \A k \in DOMAIN file : k > m + i - 1 => ~file[k].reseed
      BY <1>1, <2>1
    <2>3. QED
      BY <1>1, <2>2 DEF Loadable
  <1>4. QED
    BY <1>3 DEF ToSet, cut

LEMMA PruneIsPart ==
    ASSUME TrackerAssumption, NEW es \in Seq(Sample), es # <<>>
    PROVE  ToSet(Prune(es)) \subseteq ToSet(es)
  <1> DEFINE cut == Prune(es)
  <1>1. PICK m \in 1 .. Len(es) : CutAt(es, m, cut)
    BY PruneCuts
  <1>2. cut \in Seq(Sample)
    BY PruneCuts
  <1> HIDE DEF cut
  <1>3. ASSUME NEW i \in DOMAIN cut
        PROVE  cut[i] \in ToSet(es)
    <2>1. i \in 1 .. Len(es) - m + 1 /\ cut[i] = es[m + i - 1]
      BY <1>1, <1>2, <1>3 DEF CutAt
    <2>2. m + i - 1 \in DOMAIN es
      BY <1>1, <2>1
    <2>3. QED
      BY <2>1, <2>2 DEF ToSet
  <1>4. QED
    BY <1>3 DEF ToSet, cut

\* A sample at the end of a file is loadable; so is what was before it, unless the
\* sample is a barrier.
LEMMA LoadableGrows ==
    ASSUME NEW file \in Seq(Sample), NEW x \in Sample
    PROVE  /\ Loadable(Append(file, x)) \subseteq Loadable(file) \cup {x}
           /\ x.reseed => Loadable(Append(file, x)) \subseteq {x}
  <1> DEFINE n == Len(file)
             longer == Append(file, x)
  <1>1. /\ DOMAIN file = 1 .. n /\ n \in Nat /\ DOMAIN longer = 1 .. n + 1
        /\ longer[n + 1] = x /\ \A i \in 1 .. n : longer[i] = file[i]
    OBVIOUS
  <1> HIDE DEF n, longer
  <1>2. ASSUME NEW j \in DOMAIN longer, \A k \in DOMAIN longer : k > j => ~longer[k].reseed
        PROVE  /\ longer[j] \in Loadable(file) \cup {x}
               /\ x.reseed => longer[j] = x
    <2>1. CASE j = n + 1
      BY <1>1, <2>1
    <2>2. CASE j # n + 1
      <3>1. j \in 1 .. n /\ n + 1 \in DOMAIN longer /\ n + 1 > j
        BY <1>1, <2>2
      <3>2. ~x.reseed
        BY <1>1, <1>2, <3>1
      <3>3. \A k \in DOMAIN file : k > j => ~file[k].reseed
        BY <1>1, <1>2
      <3>4. QED
        BY <1>1, <3>1, <3>2, <3>3 DEF Loadable
    <2>3. QED
      BY <2>1, <2>2
  <1>3. QED
    BY <1>2, Zenon DEF Loadable, longer

LEMMA ToSetOfAppend ==
    ASSUME NEW es \in Seq(Sample), NEW x \in Sample
    PROVE  ToSet(Append(es, x)) = ToSet(es) \cup {x}
  <1>1. /\ DOMAIN es = 1 .. Len(es) /\ Len(es) \in Nat
        /\ DOMAIN Append(es, x) = 1 .. Len(es) + 1
        /\ Append(es, x)[Len(es) + 1] = x
        /\ \A i \in 1 .. Len(es) : Append(es, x)[i] = es[i]
    OBVIOUS
  <1>2. \A i \in DOMAIN Append(es, x) : i \in DOMAIN es \/ i = Len(es) + 1
    BY <1>1
  <1>3. QED
    BY <1>1, <1>2 DEF ToSet

\* No method of the tracker brings back what was before a reseed.
LEMMA MovesKeepBaseline ==
    ASSUME TrackerTypeOK, TrackerTypeOK', BaselineInv, TrackerMoves
    PROVE  BaselineInv'
  <1>1. /\ entries \in Seq(Sample) /\ truth \in Seq(Sample) /\ history \in Seq(Sample)
        /\ seeded = (entries # <<>>) /\ entries' \in Seq(Sample) /\ anchor \in Nat
        /\ seeded' = (entries' # <<>>) /\ truth' \in Seq(Sample)
    BY DEF TrackerTypeOK
  <1>2. CASE UNCHANGED sampleVars
    BY <1>2 DEF BaselineInv, BaselineIsKept, sampleVars
  <1>3. ASSUME NEW b \in Nat, RecordSettlement(b)
        PROVE  BaselineInv'
    <2> DEFINE all == Recorded(entries, b)
               x == Taken(b, anchor)
    <2>1. b \in Nat /\ x \in Sample
      BY <1>1, TrackerAssumption, TakenTyped DEF TrackerAssumption
    <2>2. seeded => truth # <<>>
      <3>1. seeded => entries # <<>>
        BY <1>1
      <3>2. entries # <<>> => 1 \in DOMAIN entries
        BY <1>1
      <3>3. entries # <<>> => entries[1] \in ToSet(truth)
        BY <3>2 DEF BaselineInv, BaselineIsKept, ToSet
      <3>4. QED
        BY <3>1, <3>3 DEF ToSet
    <2>3. all \in Seq(Sample) /\ all # <<>>
      BY <1>1, <2>1, RecordedTyped
    <2>4. ToSet(Seed(entries, anchor)) \subseteq ToSet(Seed(truth, anchor))
      BY DEF Seed, BaselineInv, BaselineIsKept
    <2>5. ToSet(all) \subseteq ToSet(truth')
      <3>1. Seed(entries, anchor) \in Seq(Sample) /\ Seed(truth, anchor) \in Seq(Sample)
        BY <1>1, <2>2, SeedTyped
      <3>2. truth' = Recorded(truth, b)
        BY <1>3 DEF RecordSettlement
      <3>3. CASE Repeats(Seed(entries, anchor), b)
        BY <2>4, <3>2, <3>3 DEF Recorded
      <3>4. CASE ~Repeats(Seed(entries, anchor), b)
        <4>1. /\ all = Append(Seed(entries, anchor), x)
              /\ truth' = Append(Seed(truth, anchor), x)
          BY <3>2, <3>4 DEF Recorded
        <4>2. QED
          BY <2>1, <2>4, <3>1, <4>1, ToSetOfAppend
      <3>5. QED
        BY <3>3, <3>4
    <2>6. ToSet(entries') \subseteq ToSet(truth') /\ entries' # <<>> /\ seeded'
      <3>1. ToSet(Prune(all)) \subseteq ToSet(all)
        BY <2>3, TrackerAssumption, PruneIsPart
      <3>2. entries' = all \/ entries' = Prune(all)
        BY <1>3 DEF RecordSettlement
      <3>3. seeded'
        BY <1>3 DEF RecordSettlement
      <3>4. QED
        BY <1>1, <2>5, <3>1, <3>2, <3>3
    <2>7. seeded => ToSet(truth) \subseteq ToSet(truth')
      <3>1. seeded => truth' = truth \/ truth' = Append(truth, x)
        BY <1>3 DEF RecordSettlement, Recorded, Seed
      <3> HIDE DEF x, all
      <3>2. ToSet(Append(truth, x)) = ToSet(truth) \cup {x}
        BY <1>1, <2>1, ToSetOfAppend
      <3>3. QED
        BY <3>1, <3>2
    <2>8. Loadable(history) \subseteq ToSet(truth')
      <3>1. CASE seeded
        BY <2>7, <3>1 DEF BaselineInv
      <3>2. CASE ~seeded
        BY <3>2 DEF BaselineInv, Loadable
      <3>3. QED
        BY <3>1, <3>2
    <2>9. Last(entries') \in Sample /\ Last(entries') \in ToSet(truth')
      <3>1. Len(entries') \in DOMAIN entries'
        BY <1>1, <2>6, EmptySeq
      <3>2. Last(entries') = entries'[Len(entries')]
        BY DEF Last
      <3>3. entries'[Len(entries')] \in Sample
        BY <1>1, <3>1
      <3>4. entries'[Len(entries')] \in ToSet(entries')
        BY <3>1 DEF ToSet
      <3>5. QED
        BY <2>6, <3>2, <3>3, <3>4
    <2>10. history' = history \/ history' = Append(history, Last(entries'))
      BY <1>3 DEF RecordSettlement
    <2>11. Loadable(history') \subseteq ToSet(truth')
      <3> DEFINE y == Last(entries')
      <3>1. y \in Sample /\ y \in ToSet(truth')
        BY <2>9
      <3>2. history' = history \/ history' = Append(history, y)
        BY <2>10
      <3> HIDE DEF y
      <3>3. Loadable(Append(history, y)) \subseteq Loadable(history) \cup {y}
        BY <1>1, <3>1, LoadableGrows
      <3>4. CASE history' = history
        BY <2>8, <3>4
      <3>5. CASE history' = Append(history, y)
        <4>1. Loadable(history') = Loadable(Append(history, y))
          BY <3>5
        <4>2. QED
          BY <2>8, <3>1, <3>3, <4>1
      <3>6. QED
        BY <3>2, <3>4, <3>5
    <2>12. QED
      BY <2>6, <2>11 DEF BaselineInv, BaselineIsKept
  <1>4. CASE ResetPeakBaseline
    <2> DEFINE x == Reseeded(CurrentBankroll, anchor)
    <2>1. /\ entries' = <<x>> /\ truth' = <<x>> /\ seeded'
          /\ history' = history \o <<x>> /\ x.reseed
      BY <1>4 DEF ResetPeakBaseline, Reseeded
    <2> HIDE DEF x
    <2>2. x \in Sample
      <3>1. <<x>> \in Seq(Sample)
        BY <1>1, <2>1
      <3>2. QED
        BY <3>1
    <2>3. history' = Append(history, x)
      BY <1>1, <2>1, <2>2
    <2>4. x \in ToSet(truth')
      BY <2>1 DEF ToSet
    <2>5. Loadable(history') \subseteq ToSet(truth')
      <3>1. Loadable(Append(history, x)) \subseteq {x}
        BY <1>1, <2>1, <2>2, LoadableGrows
      <3>2. Loadable(history') = Loadable(Append(history, x))
        BY <2>3
      <3>3. QED
        BY <2>4, <3>1, <3>2
    <2>6. QED
      BY <2>1, <2>5 DEF BaselineInv, BaselineIsKept
  <1>5. ASSUME NEW b \in Nat, RestartTracker(b)
        PROVE  BaselineInv'
    <2> DEFINE loaded == AfterBarrier(history)
    <2>1. /\ entries' = (IF loaded = <<>> THEN <<>> ELSE Prune(loaded))
          /\ seeded' = (loaded # <<>>) /\ history' = history /\ truth' = truth
      BY <1>5 DEF RestartTracker
    <2>2. loaded \in Seq(Sample) /\ ToSet(loaded) \subseteq ToSet(truth)
      BY <1>1, LoadIsLoadable, AfterBarrierCuts DEF BaselineInv
    <2>3. loaded = <<>> => history = <<>>
      BY <1>1, AfterBarrierCuts
    <2> HIDE DEF loaded
    <2>4. ToSet(entries') \subseteq ToSet(truth)
      <3>1. CASE loaded = <<>>
        BY <2>1, <3>1 DEF ToSet
      <3>2. CASE loaded # <<>>
        BY <2>1, <2>2, <3>2, TrackerAssumption, PruneIsPart
      <3>3. QED
        BY <3>1, <3>2
    <2>5. QED
      BY <2>1, <2>3, <2>4 DEF BaselineInv, BaselineIsKept
  <1>6. ASSUME NEW n \in Nat, SetPaused(n)
        PROVE  BaselineInv'
    BY <1>2, <1>6 DEF SetPaused
  <1>7. CASE TickCooldown
    BY <1>2, <1>7 DEF TickCooldown
  <1>8. CASE Advance
    BY <1>2, <1>8 DEF Advance
  <1>9. CASE UNCHANGED trackerVars
    BY <1>2, <1>9 DEF trackerVars
  <1>10. QED
    BY <1>3, <1>4, <1>5, <1>6, <1>7, <1>8, <1>9 DEF TrackerMoves

\* Whatever was recorded before a reseed is never counted again, not even by a process
\* that reads the file back (reset_peak_baseline and __init__ of bankroll_tracker.py).
THEOREM BaselineSound == TrackerSpec => []BaselineIsKept
  <1>1. TrackerInit => BaselineInv
    BY DEF TrackerInit, BaselineInv, BaselineIsKept, Loadable, ToSet
  <1>2. TrackerTypeOK /\ TrackerTypeOK' /\ BaselineInv /\ [TrackerNext]_trackerVars
            => BaselineInv'
    BY MovesKeepBaseline, NextMoves
  <1>3. BaselineInv => BaselineIsKept
    BY DEF BaselineInv
  <1>4. QED
    BY <1>1, <1>2, <1>3, TrackerTyped, PTL DEF TrackerSpec

-----------------------------------------------------------------------------
(* The risk checks: type correctness.                                      *)

\* A non-empty set of rounds has a first one.
LEMMA MinIsMember ==
    ASSUME NEW S \in SUBSET Nat, S # {}
    PROVE  Min(S) \in S
  <1>1. PICK least \in S : \A y \in S : ~(<<y, least>> \in OpToRel(<, Nat))
    BY NatLessThanWellFounded, WFMin
  <1>2. \A y \in S : ~(y < least)
    BY <1>1, Zenon DEF OpToRel
  <1>3. \A y \in S : least <= y
    BY <1>2
  <1>4. QED
    BY <1>3 DEF Min

\* What settle_round does to the shadow ledger.
LEMMA ShadowSettles ==
    ASSUME GateAssumption, NEW s \in Shadow, NEW e \in Nat, NEW p \in PnL
    PROVE  /\ SettleRound(s, e, p) \in Shadow
           /\ SettleRound(s, e, p).active = s.active
           /\ SettleRound(s, e, p).cum = s.cum + p
           /\ SettleRound(s, e, p).settled = s.settled + 1
           /\ SettleRound(s, e, p).pending \subseteq s.pending
           /\ e \notin SettleRound(s, e, p).pending
  <1> DEFINE point == [at |-> e, value |-> HypoBankroll(s) + p]
             kept == {q \in s.points \cup {point} : q.at >= e - Window}
  <1>1. p \in Int
    BY DEF PnL, GateAssumption
  <1>2. s.base \in Int /\ s.cum \in Int /\ s.settled \in Nat /\ s.pending \subseteq Nat
        /\ s.points \subseteq [at : Nat, value : Int]
    BY DEF Shadow
  <1>3. point \in [at : Nat, value : Int]
    BY <1>1, <1>2 DEF HypoBankroll
  <1>4. kept \subseteq [at : Nat, value : Int]
    BY <1>2, <1>3
  <1>5. SettleRound(s, e, p) =
            [s EXCEPT !.pending = s.pending \ {e}, !.cum = s.cum + p,
                      !.settled = s.settled + 1, !.points = kept]
    BY DEF SettleRound
  <1> HIDE DEF kept, point
  <1>6. s.cum + p \in Int /\ s.settled + 1 \in Nat /\ s.pending \ {e} \subseteq Nat
    BY <1>1, <1>2
  <1>7. QED
    BY <1>4, <1>5, <1>6 DEF Shadow

\* What its other methods do to it.
LEMMA ShadowMethods ==
    ASSUME NEW s \in Shadow, NEW e \in Nat
    PROVE  /\ RecordFire(s, e) \in Shadow
           /\ RecordFire(s, e) = [s EXCEPT !.pending = s.pending \cup {e}]
           /\ ShadowClear(s) \in Shadow /\ ~ShadowClear(s).active
  <1>1. RecordFire(s, e) \in Shadow
    BY DEF RecordFire, Shadow
  <1>2. ShadowClear(s) \in Shadow /\ ~ShadowClear(s).active
    BY DEF ShadowClear, Shadow
  <1>3. QED
    BY <1>1, <1>2 DEF RecordFire

LEMMA ShadowStartTyped ==
    ASSUME TrackerTypeOK, NEW value \in Nat
    PROVE  ShadowStart(value) \in Shadow
  BY DEF ShadowStart, Shadow, TrackerTypeOK

\* Every step of the loop is one of the tracker's moves, or none.
LEMMA StepMoves ==
    ASSUME GateAssumption, GateTypeOK, [Next]_vars
    PROVE  TrackerMoves
  <1>1. wallet \in Nat /\ CooldownRounds \in Nat /\ 0 \in Nat
    BY DEF GateTypeOK, GateAssumption
  <1>2. CASE UNCHANGED trackerVars
    BY <1>2 DEF TrackerMoves
  <1>3. CASE StartIteration
    BY <1>2, <1>3 DEF StartIteration, TrackerMoves
  <1>4. CASE Preflight
    BY <1>1, <1>4 DEF Preflight, TrackerMoves
  <1>5. CASE Tick
    BY <1>5 DEF Tick, TrackerMoves
  <1>6. CASE Extend
    BY <1>1, <1>6 DEF Extend, TrackerMoves
  <1>7. CASE Unpause
    BY <1>1, <1>7 DEF Unpause, TrackerMoves
  <1>8. CASE Reseed
    BY <1>8 DEF Reseed, TrackerMoves
  <1>9. CASE FireBreaker
    BY <1>1, <1>9 DEF FireBreaker, TrackerMoves
  <1>10. CASE Restart
    BY <1>1, <1>10 DEF Restart, TrackerMoves
  <1>11. CASE UNCHANGED vars
    BY <1>2, <1>11 DEF vars
  <1>12. CASE \/ \E p \in PnL : SettleShadow(p)
              \/ PreflightFails \/ PoolNotReady \/ ConsumeFlag \/ ShadowEvaluate
    BY <1>2, <1>12 DEF SettleShadow, PreflightFails, PoolNotReady, ConsumeFlag, ShadowEvaluate
  <1>13. CASE \/ Recovered \/ ClearShadow \/ StartShadow \/ Decline \/ Admit
              \/ PlaceBet \/ BetEnds \/ OperatorFlags
    BY <1>2, <1>13 DEF Recovered, ClearShadow, StartShadow, Decline, Admit, PlaceBet,
           BetEnds, OperatorFlags
  <1>14. QED
    BY <1>3, <1>4, <1>5, <1>6, <1>7, <1>8, <1>9, <1>10, <1>11, <1>12, <1>13 DEF Next

\* The round anchor never goes back, and nothing but a restart counts one.
LEMMA TimeAdvances ==
    ASSUME TrackerAssumption, TrackerTypeOK, TrackerMoves
    PROVE  anchor' \in Nat /\ anchor <= anchor'
  <1>1. CASE Advance
    BY <1>1 DEF Advance, TrackerTypeOK, TrackerAssumption
  <1>2. CASE UNCHANGED anchor
    BY <1>2 DEF TrackerTypeOK
  <1>3. QED
    BY <1>1, <1>2 DEF TrackerMoves, RecordSettlement, ResetPeakBaseline, SetPaused,
           TickCooldown, RestartTracker, trackerVars

\* The balance a breaker is valued at.
LEMMA InFlightTyped ==
    ASSUME GateAssumption, GateTypeOK, NEW f \in InFlight
    PROVE  f \in Nat
  <1>1. PICK n \in 0 .. open : f = n * Stake
    BY DEF InFlight
  <1>2. n \in Nat /\ Stake \in Nat
    BY <1>1 DEF GateTypeOK, GateAssumption
  <1>3. QED
    BY <1>1, <1>2

\* Every step of the loop keeps the types.
LEMMA StepKeepsType ==
    ASSUME TrackerAssumption, GateAssumption, GateTypeOK, [Next]_vars
    PROVE  GateTypeOK'
  <1>1. /\ TrackerTypeOK' /\ anchor' \in Nat /\ anchor <= anchor'
    BY StepMoves, MovesKeepType, TimeAdvances DEF GateTypeOK
  <1>2. /\ pc \in PCs /\ wallet \in Nat /\ open \in 0 .. MaxOpen
        /\ lastBet \in -1 .. anchor /\ valued \in Nat
        /\ shadow \in Shadow /\ batch \subseteq Nat
        /\ flag \in {"none", "fresh", "stale"} /\ flags \in 0 .. MaxFlags
        /\ owed \in {"none", "owed", "waived", "released"}
        /\ evidence \subseteq Nat \X PnL
        /\ TrackerTypeOK /\ anchor \in Nat
    BY DEF GateTypeOK, TrackerTypeOK
  <1>3. lastBet \in -1 .. anchor'
    BY <1>1, <1>2
  <1>4. Stake \in Nat /\ MaxOpen \in Nat /\ MaxFlags \in Nat
    BY DEF GateAssumption
  <1>5. CASE StartIteration
    <2>1. PICK final \in SUBSET Fetched(anchor') : batch' = final
      BY <1>5 DEF StartIteration
    <2>2. batch' \subseteq Nat
      BY <1>2, <2>1 DEF Fetched, Shadow
    <2>3. QED
      BY <1>1, <1>2, <1>3, <1>5, <2>2 DEF StartIteration, Go, GateTypeOK, PCs, betVars, flagVars
  <1>6. ASSUME NEW p \in PnL, SettleShadow(p)
        PROVE  GateTypeOK'
    <2> DEFINE e == Min(batch)
    <2>1. e \in Nat /\ <<e, p>> \in Nat \X PnL
      BY <1>2, <1>6, MinIsMember DEF SettleShadow
    <2> HIDE DEF e
    <2>2. SettleRound(shadow, e, p) \in Shadow
      BY <1>2, <2>1, ShadowSettles
    <2>3. shadow' \in Shadow /\ batch' \subseteq Nat
      BY <1>2, <1>6, <2>2 DEF SettleShadow, e
    <2>4. evidence' = evidence \/ evidence' = evidence \cup {<<e, p>>}
      BY <1>6 DEF SettleShadow, e
    <2>5. QED
      BY <1>1, <1>2, <1>3, <1>6, <2>1, <2>3, <2>4
      DEF SettleShadow, Go, GateTypeOK, PCs, betVars, flagVars
  <1>7. CASE Preflight \/ PreflightFails \/ PoolNotReady \/ Tick
    BY <1>1, <1>2, <1>3, <1>7
    DEF Preflight, PreflightFails, PoolNotReady, Tick, Go, GateTypeOK, PCs, betVars, flagVars
  <1>8. CASE ConsumeFlag \/ Recovered \/ Extend \/ Unpause \/ Reseed
    BY <1>1, <1>2, <1>3, <1>8
    DEF ConsumeFlag, Recovered, Extend, Unpause, Reseed, Go, GateTypeOK, PCs, betVars, flagVars
  <1>9. CASE ShadowEvaluate
    <2>1. shadow' \in Shadow
      BY <1>2, <1>9, ShadowMethods DEF ShadowEvaluate
    <2>2. QED
      BY <1>1, <1>2, <1>3, <1>9, <2>1 DEF ShadowEvaluate, Go, GateTypeOK, PCs, betVars, flagVars
  <1>10. CASE ClearShadow
    <2>1. shadow' \in Shadow
      BY <1>2, <1>10, ShadowMethods DEF ClearShadow
    <2>2. QED
      BY <1>1, <1>2, <1>3, <1>10, <2>1 DEF ClearShadow, Go, GateTypeOK, PCs, betVars, flagVars
  <1>11. CASE FireBreaker
    <2>1. PICK f \in InFlight : valued' = CurrentBankroll + f
      BY <1>11 DEF FireBreaker
    <2>2. f \in Nat /\ CurrentBankroll \in Nat
      BY <1>2, InFlightTyped, CurrentIsNat
    <2>3. valued' \in Nat
      BY <2>1, <2>2
    <2>4. QED
      BY <1>1, <1>2, <1>3, <1>11, <2>3 DEF FireBreaker, Go, GateTypeOK, PCs, betVars, flagVars
  <1>12. CASE StartShadow
    <2>1. shadow' \in Shadow
      BY <1>2, <1>12, ShadowStartTyped DEF StartShadow
    <2>2. QED
      BY <1>1, <1>2, <1>3, <1>12, <2>1 DEF StartShadow, Go, GateTypeOK, PCs, betVars, flagVars
  <1>13. CASE Decline \/ Admit
    BY <1>1, <1>2, <1>3, <1>13 DEF Decline, Admit, Go, GateTypeOK, PCs, betVars, flagVars
  <1>14. CASE PlaceBet
    <2>1. anchor' = anchor
      BY <1>14 DEF PlaceBet, trackerVars
    <2>2. wallet' \in Nat /\ open' \in 0 .. MaxOpen /\ lastBet' \in -1 .. anchor'
      BY <1>2, <1>4, <1>14, <2>1 DEF PlaceBet, betVars
    <2>3. QED
      BY <1>1, <1>2, <1>14, <2>2 DEF PlaceBet, Go, GateTypeOK, PCs, flagVars
  <1>15. CASE BetEnds
    <2>1. wallet' \in Nat /\ open' \in 0 .. MaxOpen
      BY <1>2, <1>4, <1>15 DEF BetEnds
    <2>2. QED
      BY <1>1, <1>2, <1>3, <1>15, <2>1 DEF BetEnds, GateTypeOK, flagVars
  <1>16. CASE OperatorFlags
    <2>1. flag' \in {"none", "fresh", "stale"} /\ flags' \in 0 .. MaxFlags
      BY <1>2, <1>4, <1>16 DEF OperatorFlags
    <2>2. QED
      BY <1>1, <1>2, <1>3, <1>16, <2>1 DEF OperatorFlags, GateTypeOK, betVars
  <1>17. CASE Restart
    BY <1>1, <1>2, <1>3, <1>17 DEF Restart, Go, GateTypeOK, PCs, betVars, flagVars
  <1>18. CASE UNCHANGED vars
    BY <1>1, <1>2, <1>3, <1>18 DEF vars, GateTypeOK, betVars, flagVars
  <1>19. QED
    BY <1>5, <1>6, <1>7, <1>8, <1>9, <1>10, <1>11, <1>12, <1>13, <1>14, <1>15, <1>16,
       <1>17, <1>18 DEF Next

\* The state of the risk checks is well typed, and so is the tracker's under them.
THEOREM GateTyped == Spec => []GateTypeOK
  <1>1. Init => GateTypeOK
    <2> SUFFICES ASSUME Init PROVE GateTypeOK
      OBVIOUS
    <2>1. TrackerTypeOK /\ wallet \in Nat
      BY TrackerAssumption, TrackerStarts DEF Init, TrackerTypeOK
    <2>2. NoShadow \in Shadow
      BY DEF NoShadow, Shadow
    <2>3. 0 \in 0 .. MaxOpen /\ 0 \in 0 .. MaxFlags /\ anchor = 0 /\ 0 \in Nat
      BY GateAssumption DEF GateAssumption, Init, TrackerInit
    <2>4. QED
      BY <2>1, <2>2, <2>3 DEF Init, GateTypeOK, PCs
  <1>2. GateTypeOK /\ [Next]_vars => GateTypeOK'
    BY TrackerAssumption, GateAssumption, StepKeepsType
  <1>3. QED
    BY <1>1, <1>2, PTL DEF Spec

-----------------------------------------------------------------------------
(* The suspension.                                                         *)

\* As long as the process has not restarted: a suspension that is owed counts down
\* while the shadow bets, from the breaker until the release reseeds the peak.
HoldsInv ==
    restarts = 0 =>
        /\ pc \in {"checks", "admitted", "clear"} => owed = "none"
        /\ pc = "shadowStart" => owed = "owed" /\ cooldown > 0 /\ ~shadow.active
        /\ owed # "none" /\ pc \in {"top", "settle", "paused", "tick", "evaluate"} =>
               cooldown > 0 /\ shadow.active
        /\ pc = "expired" => shadow.active
        /\ shadow.active /\ owed = "none" => pc = "clear"

\* Restarts are counted and never forgotten.
LEMMA RestartsGrow ==
    ASSUME TrackerTypeOK, TrackerMoves
    PROVE  restarts \in Nat /\ restarts' \in {restarts, restarts + 1}
  BY DEF TrackerTypeOK, TrackerMoves, RecordSettlement, ResetPeakBaseline, SetPaused,
         TickCooldown, RestartTracker, Advance, trackerVars, restartVars

\* Only these methods touch the countdown.
LEMMA CooldownFrame ==
    \/ \E b \in Nat : RecordSettlement(b)
    \/ ResetPeakBaseline
    \/ Advance
    \/ UNCHANGED trackerVars
    => cooldown' = cooldown /\ restarts' = restarts
  BY DEF RecordSettlement, ResetPeakBaseline, Advance, trackerVars, cooldownVars, restartVars

LEMMA StepKeepsHolds ==
    ASSUME GateAssumption, GateTypeOK, HoldsInv, [Next]_vars
    PROVE  HoldsInv'
  <1>1. /\ shadow \in Shadow /\ anchor \in Nat /\ cooldown \in Nat /\ wallet \in Nat
        /\ batch \subseteq Nat /\ restarts \in Nat
        /\ owed \in {"none", "owed", "waived", "released"}
    BY DEF GateTypeOK, TrackerTypeOK
  <1>2. restarts' = 0 => restarts = 0
    BY StepMoves, RestartsGrow DEF GateTypeOK
  <1> SUFFICES ASSUME restarts' = 0
               PROVE  HoldsInv'
    BY DEF HoldsInv
  <1>3. /\ pc \in {"checks", "admitted", "clear"} => owed = "none"
        /\ pc = "shadowStart" => owed = "owed" /\ cooldown > 0 /\ ~shadow.active
        /\ owed # "none" /\ pc \in {"top", "settle", "paused", "tick", "evaluate"} =>
               cooldown > 0 /\ shadow.active
        /\ pc = "expired" => shadow.active
        /\ shadow.active /\ owed = "none" => pc = "clear"
    BY <1>2 DEF HoldsInv
  <1>4. CASE StartIteration
    BY <1>3, <1>4, CooldownFrame DEF StartIteration, Go, HoldsInv
  <1>5. ASSUME NEW p \in PnL, SettleShadow(p)
        PROVE  HoldsInv'
    <2>1. Min(batch) \in Nat
      BY <1>1, <1>5, MinIsMember DEF SettleShadow
    <2>2. shadow'.active = shadow.active
      BY <1>1, <1>5, <2>1, GateAssumption, ShadowSettles DEF SettleShadow
    <2>3. QED
      BY <1>3, <1>5, <2>2, CooldownFrame DEF SettleShadow, Go, HoldsInv
  <1>6. CASE Preflight
    <2>1. cooldown' = cooldown
      BY <1>1, <1>6, CooldownFrame DEF Preflight
    <2>2. CASE cooldown > 0
      BY <1>3, <1>6, <2>1, <2>2 DEF Preflight, Go, HoldsInv
    <2>3. CASE ~(cooldown > 0)
      BY <1>3, <1>6, <2>1, <2>3 DEF Preflight, Go, HoldsInv
    <2>4. QED
      BY <2>2, <2>3
  <1>7. CASE PreflightFails \/ PoolNotReady \/ ConsumeFlag
    BY <1>3, <1>7, CooldownFrame DEF PreflightFails, PoolNotReady, ConsumeFlag, Go, HoldsInv
  <1>8. CASE Tick
    <2>1. cooldown' \in Nat
      BY StepMoves, MovesKeepType, <1>8 DEF GateTypeOK, TrackerTypeOK, Next
    <2>2. CASE ~shadow.active
      BY <1>3, <1>8, <2>2 DEF Tick, Go, HoldsInv
    <2>3. CASE shadow.active /\ cooldown' = 0
      BY <1>3, <1>8, <2>3 DEF Tick, Go, HoldsInv
    <2>4. CASE shadow.active /\ cooldown' # 0
      BY <1>3, <1>8, <2>1, <2>4 DEF Tick, Go, HoldsInv
    <2>5. QED
      BY <2>2, <2>3, <2>4
  <1>9. CASE ShadowEvaluate
    <2>1. shadow'.active = shadow.active
      BY <1>1, <1>9, ShadowMethods DEF ShadowEvaluate, Shadow
    <2>2. QED
      BY <1>3, <1>9, <2>1, CooldownFrame DEF ShadowEvaluate, Go, HoldsInv
  <1>10. CASE Recovered
    BY <1>3, <1>10, CooldownFrame DEF Recovered, Go, HoldsInv
  <1>11. CASE Extend
    BY <1>3, <1>11 DEF Extend, SetPaused, Count, Go, HoldsInv, GateAssumption
  <1>12. CASE Unpause \/ Reseed
    BY <1>3, <1>12 DEF Unpause, Reseed, Go, HoldsInv
  <1>13. CASE ClearShadow
    <2>1. ~shadow'.active
      <3>1. ~ShadowClear(shadow).active
        BY <1>1, ShadowMethods
      <3>2. QED
        BY <1>13, <3>1 DEF ClearShadow
    <2>2. QED
      BY <1>3, <1>13, <2>1 DEF ClearShadow, Go, HoldsInv
  <1>14. CASE FireBreaker
    BY <1>3, <1>14 DEF FireBreaker, SetPaused, Count, Go, HoldsInv, GateAssumption
  <1>15. CASE StartShadow
    <2>1. shadow'.active
      BY <1>15 DEF StartShadow, ShadowStart
    <2>2. owed' = owed /\ cooldown' = cooldown /\ pc = "shadowStart" /\ pc' = "top"
      BY <1>15, CooldownFrame DEF StartShadow, Go
    <2>3. QED
      BY <1>3, <2>1, <2>2 DEF HoldsInv
  <1>16. CASE Decline \/ Admit \/ PlaceBet \/ BetEnds \/ OperatorFlags
    BY <1>3, <1>16, CooldownFrame DEF Decline, Admit, PlaceBet, BetEnds, OperatorFlags, Go, HoldsInv
  <1>17. CASE Restart
    BY <1>1, <1>17 DEF Restart, RestartTracker
  <1>18. CASE UNCHANGED vars
    BY <1>3, <1>18, CooldownFrame DEF vars, HoldsInv
  <1>19. QED
    BY <1>4, <1>5, <1>6, <1>7, <1>8, <1>9, <1>10, <1>11, <1>12, <1>13, <1>14, <1>15, <1>16,
       <1>17, <1>18 DEF Next

\* A bet is admitted only when no suspension is owed: the shadow or the operator has
\* released it and the peak was reseeded (Check 1 of decide_open_round).  A restart
\* between the writes of _release_suspension can lose this.
THEOREM SuspensionSound == Spec => [](restarts = 0 => SuspensionHolds)
  <1>1. Init => HoldsInv
    BY DEF Init, HoldsInv, TrackerInit, NoShadow
  <1>2. GateTypeOK /\ HoldsInv /\ [Next]_vars => HoldsInv'
    BY GateAssumption, StepKeepsHolds
  <1>3. HoldsInv => (restarts = 0 => SuspensionHolds)
    BY DEF HoldsInv, SuspensionHolds
  <1>4. QED
    BY <1>1, <1>2, <1>3, GateTyped, PTL DEF Spec

-----------------------------------------------------------------------------
(* The evidence of a release.                                              *)

Wins == {r \in evidence : r[2] > 0}
Losses == {r \in evidence : r[2] < 0}

\* What the shadow has counted is what was settled since the breaker fired; a round
\* that still pends has not been.
Tallied ==
    /\ shadow.settled = Cardinality(evidence)
    /\ shadow.cum = Stake * (Cardinality(Wins) - Cardinality(Losses))
    /\ \A r \in evidence : r[1] \notin shadow.pending

Counting == shadow.active /\ owed = "owed" /\ pc # "shadowStart"

EvidenceInv ==
    /\ pc \in {"evaluate", "expired"} => shadow.active
    /\ pc = "shadowStart" => evidence = {}
    /\ \A e \in batch : e < anchor
    /\ \A r \in evidence : r[1] < anchor
    /\ IsFiniteSet(evidence)
    /\ restarts <= 1 => (Counting => Tallied) /\ ReleaseHasEvidence

\* A settled round that was not in the evidence goes to it once.
LEMMA EvidenceGrows ==
    ASSUME GateAssumption, GateTypeOK, IsFiniteSet(evidence), Tallied,
           NEW e \in shadow.pending, NEW p \in PnL,
           evidence' = evidence \cup {<<e, p>>},
           shadow'.settled = shadow.settled + 1, shadow'.cum = shadow.cum + p,
           shadow'.pending \subseteq shadow.pending, e \notin shadow'.pending
    PROVE  Tallied'
  <1>1. /\ shadow \in Shadow /\ e \in Nat /\ evidence \subseteq Nat \X PnL
        /\ shadow.settled \in Nat /\ shadow.cum \in Int /\ Stake \in Nat \ {0}
        /\ p \in {-Stake, Stake}
    BY DEF GateTypeOK, Shadow, GateAssumption, PnL
  <1> DEFINE r == <<e, p>>
             w == Cardinality(Wins)
             l == Cardinality(Losses)
  <1>3. r \notin evidence /\ r[1] = e /\ r[2] = p
    BY DEF Tallied
  <1>4. IsFiniteSet(Wins) /\ IsFiniteSet(Losses) /\ w \in Nat /\ l \in Nat
    <2>1. Wins \subseteq evidence /\ Losses \subseteq evidence
      BY DEF Wins, Losses
    <2>2. IsFiniteSet(Wins) /\ IsFiniteSet(Losses)
      BY <2>1, FS_Subset
    <2>3. QED
      BY <2>2, FS_CardinalityType
  <1>5. Cardinality(evidence') = Cardinality(evidence) + 1
    BY <1>3, FS_AddElement
  <1>6. shadow'.cum = Stake * (Cardinality(Wins') - Cardinality(Losses'))
    <2>1. CASE p = Stake
      <3>1. Wins' = Wins \cup {r} /\ Losses' = Losses /\ r \notin Wins
        <4>1. p > 0 /\ ~(p < 0)
          BY <1>1, <2>1
        <4>2. QED
          BY <1>3, <4>1 DEF Wins, Losses
      <3>2. Cardinality(Wins') = w + 1 /\ Cardinality(Losses') = l
        BY <1>4, <3>1, FS_AddElement
      <3>3. shadow'.cum = Stake * (w - l) + Stake
        BY <2>1 DEF Tallied
      <3> HIDE DEF w, l
      <3>4. Stake * (w - l) + Stake = Stake * ((w + 1) - l)
        BY <1>1, <1>4
      <3>5. QED
        BY <3>2, <3>3, <3>4
    <2>2. CASE p = -Stake
      <3>1. Wins' = Wins /\ Losses' = Losses \cup {r} /\ r \notin Losses
        <4>1. p < 0 /\ ~(p > 0)
          BY <1>1, <2>2
        <4>2. QED
          BY <1>3, <4>1 DEF Wins, Losses
      <3>2. Cardinality(Wins') = w /\ Cardinality(Losses') = l + 1
        BY <1>4, <3>1, FS_AddElement
      <3>3. shadow'.cum = Stake * (w - l) + -Stake
        BY <2>2 DEF Tallied
      <3> HIDE DEF w, l
      <3>4. Stake * (w - l) + -Stake = Stake * (w - (l + 1))
        BY <1>1, <1>4
      <3>5. QED
        BY <3>2, <3>3, <3>4
    <2>3. QED
      BY <1>1, <2>1, <2>2
  <1>7. \A q \in evidence' : q[1] \notin shadow'.pending
    BY <1>3 DEF Tallied
  <1>8. QED
    BY <1>5, <1>6, <1>7 DEF Tallied

\* A recovery that rests on what was counted is not a loss.
LEMMA RecoveryIsEvidence ==
    ASSUME GateAssumption, IsFiniteSet(evidence), Tallied, ReleaseOk(shadow, anchor)
    PROVE  /\ Cardinality(evidence) >= MinFires
           /\ Cardinality(Wins) >= Cardinality(Losses)
  <1> DEFINE w == Cardinality(Wins)
             l == Cardinality(Losses)
  <1>1. w \in Nat /\ l \in Nat
    <2>1. Wins \subseteq evidence /\ Losses \subseteq evidence
      BY DEF Wins, Losses
    <2>2. QED
      BY <2>1, FS_Subset, FS_CardinalityType
  <1>2. Stake * (w - l) >= 0
    BY DEF Tallied, ReleaseOk
  <1>3. Stake \in Nat \ {0}
    BY DEF GateAssumption
  <1> HIDE DEF w, l
  <1>4. w >= l
    BY <1>1, <1>2, <1>3
  <1>5. QED
    BY <1>4 DEF Tallied, ReleaseOk, w, l

LEMMA StepKeepsEvidence ==
    ASSUME TrackerAssumption, GateAssumption, GateTypeOK, HoldsInv, EvidenceInv, [Next]_vars
    PROVE  EvidenceInv'
  <1>1. /\ shadow \in Shadow /\ batch \subseteq Nat /\ evidence \subseteq Nat \X PnL
        /\ anchor \in Nat /\ anchor' \in Nat /\ anchor <= anchor'
        /\ restarts \in Nat /\ restarts' \in Nat /\ restarts <= restarts'
        /\ cooldown' \in Nat
    <2>1. TrackerMoves /\ TrackerTypeOK /\ TrackerTypeOK'
      BY StepMoves, MovesKeepType DEF GateTypeOK
    <2>2. restarts \in Nat /\ restarts' \in Nat /\ restarts <= restarts'
      BY <2>1, RestartsGrow
    <2>3. QED
      BY <2>1, <2>2, TimeAdvances DEF GateTypeOK, TrackerTypeOK
  <1>2. /\ pc \in {"evaluate", "expired"} => shadow.active
        /\ pc = "shadowStart" => evidence = {}
        /\ \A e \in batch : e < anchor
        /\ \A r \in evidence : r[1] < anchor
        /\ IsFiniteSet(evidence)
        /\ restarts <= 1 => (Counting => Tallied) /\ ReleaseHasEvidence
    BY DEF EvidenceInv
  <1>3. \A r \in evidence : r[1] \in Nat /\ r[1] < anchor'
    BY <1>1, <1>2
  <1>4. \A e \in batch : e < anchor'
    BY <1>1, <1>2
  <1>5. ASSUME UNCHANGED <<shadow, evidence>>
        PROVE  Tallied => Tallied'
    BY <1>5 DEF Tallied, Wins, Losses
  <1>6. CASE StartIteration
    <2>1. \A e \in batch' : e < anchor'
      <3>1. PICK final \in SUBSET Fetched(anchor') : batch' = final
        BY <1>6 DEF StartIteration
      <3>2. \A e \in Fetched(anchor') : e \in Nat /\ e <= anchor' - 2
        BY <1>1 DEF Fetched, Shadow
      <3>3. QED
        BY <1>1, <3>1, <3>2
    <2>2. /\ pc = "top" /\ pc' = "settle" /\ shadow' = shadow /\ owed' = owed
          /\ evidence' = evidence
      BY <1>6 DEF StartIteration, Go
    <2>3. Counting' => Counting
      BY <2>2 DEF Counting
    <2>4. restarts' <= 1 => restarts <= 1
      BY <1>1
    <2>5. QED
      BY <1>2, <1>3, <1>5, <2>1, <2>2, <2>3, <2>4 DEF EvidenceInv, ReleaseHasEvidence
  <1>7. ASSUME NEW p \in PnL, SettleShadow(p)
        PROVE  EvidenceInv'
    <2> DEFINE e == Min(batch)
               pends == shadow.active /\ e \in shadow.pending
    <2>1. /\ e \in batch /\ e \in Nat /\ pc = "settle" /\ pc' = "settle" /\ owed' = owed
          /\ batch' = batch \ {e} /\ anchor' = anchor
          /\ shadow' = (IF pends THEN SettleRound(shadow, e, p) ELSE shadow)
          /\ evidence' = IF pends /\ \A r \in evidence : r[1] # e
                         THEN evidence \cup {<<e, p>>} ELSE evidence
      BY <1>1, <1>7, MinIsMember DEF SettleShadow, Go, trackerVars
    <2> HIDE DEF e
    <2>2. shadow'.active = shadow.active
      BY <1>1, <2>1, ShadowSettles
    <2>3. IsFiniteSet(evidence')
      BY <1>2, <2>1, FS_AddElement
    <2>4. e < anchor
      BY <1>2, <2>1
    <2>5. \A r \in evidence' : r[1] < anchor'
      BY <1>2, <2>1, <2>4
    <2>6. ASSUME restarts' <= 1, Counting'
          PROVE  Tallied'
      <3>1. restarts <= 1
        BY <1>1, <2>6
      <3>2. Counting
        BY <2>1, <2>2, <2>6 DEF Counting
      <3>3. Tallied
        BY <1>2, <3>1, <3>2
      <3>4. CASE pends
        <4>1. \A r \in evidence : r[1] # e
          BY <3>3, <3>4 DEF Tallied
        <4>2. shadow' = SettleRound(shadow, e, p) /\ evidence' = evidence \cup {<<e, p>>}
          BY <2>1, <3>4, <4>1
        <4>3. /\ shadow'.settled = shadow.settled + 1 /\ shadow'.cum = shadow.cum + p
              /\ shadow'.pending \subseteq shadow.pending /\ e \notin shadow'.pending
          <5> DEFINE settled == SettleRound(shadow, e, p)
          <5>1. /\ settled.settled = shadow.settled + 1 /\ settled.cum = shadow.cum + p
                /\ settled.pending \subseteq shadow.pending /\ e \notin settled.pending
            <6>1. shadow \in Shadow /\ e \in Nat
              BY <1>1, <2>1
            <6>2. settled.settled = shadow.settled + 1
              BY <6>1, ShadowSettles
            <6>3. settled.cum = shadow.cum + p
              BY <6>1, ShadowSettles
            <6>4. settled.pending \subseteq shadow.pending
              BY <6>1, ShadowSettles
            <6>5. e \notin settled.pending
              BY <6>1, ShadowSettles
            <6>6. QED
              BY <6>2, <6>3, <6>4, <6>5
          <5> HIDE DEF settled
          <5>2. shadow' = settled
            BY <4>2 DEF settled
          <5>3. QED
            BY <5>1, <5>2
        <4>4. e \in shadow.pending
          BY <3>4
        <4>5. QED
          BY <1>2, <3>3, <4>2, <4>3, <4>4, EvidenceGrows
      <3>5. CASE ~pends
        BY <1>5, <2>1, <3>3, <3>5
      <3>6. QED
        BY <3>4, <3>5
    <2>7. ReleaseHasEvidence'
      BY <2>1 DEF ReleaseHasEvidence
    <2>8. \A d \in batch' : d < anchor'
      BY <1>2, <2>1
    <2>9. QED
      BY <2>1, <2>3, <2>5, <2>6, <2>7, <2>8 DEF EvidenceInv
  \* The steps that leave the shadow and its evidence alone.
  <1>8. ASSUME UNCHANGED <<shadow, evidence>>, batch' \subseteq batch,
               pc' \in {"evaluate", "expired"} => shadow.active,
               pc' = "shadowStart" => evidence = {},
               Counting' => Counting,
               restarts' <= 1 => ReleaseHasEvidence'
        PROVE  EvidenceInv'
    <2>1. restarts' <= 1 => restarts <= 1
      BY <1>1
    <2>2. restarts' <= 1 => (Counting' => Tallied')
      BY <1>2, <1>5, <1>8, <2>1
    <2>3. QED
      BY <1>2, <1>3, <1>4, <1>8, <2>2 DEF EvidenceInv
  <1>9. CASE Preflight \/ PreflightFails \/ PoolNotReady
    BY <1>8, <1>9 DEF Preflight, PreflightFails, PoolNotReady, Go, Counting, ReleaseHasEvidence
  <1>10. CASE ConsumeFlag
    BY <1>8, <1>10 DEF ConsumeFlag, Go, Counting, ReleaseHasEvidence
  <1>11. CASE Tick
    BY <1>8, <1>11 DEF Tick, Go, Counting, ReleaseHasEvidence
  <1>12. CASE ShadowEvaluate
    <2>1. /\ shadow' = shadow \/ shadow' = RecordFire(shadow, anchor)
          /\ pc = "evaluate" /\ pc' = "top" /\ anchor' = anchor
          /\ owed' = owed /\ evidence' = evidence /\ batch' = batch
      BY <1>12 DEF ShadowEvaluate, Go, trackerVars
    <2>2. shadow' \in Shadow /\ shadow'.active = shadow.active
          /\ shadow'.settled = shadow.settled /\ shadow'.cum = shadow.cum
          /\ shadow'.pending \subseteq shadow.pending \cup {anchor}
      BY <1>1, <2>1, ShadowMethods DEF Shadow
    <2>3. Tallied => Tallied'
      <3>1. \A r \in evidence : r[1] # anchor
        BY <1>1, <1>2, <1>3
      <3>2. QED
        BY <2>1, <2>2, <3>1 DEF Tallied, Wins, Losses
    <2>4. Counting' => Counting
      BY <2>1, <2>2 DEF Counting
    <2>5. restarts' <= 1 => restarts <= 1
      BY <1>1
    <2>6. QED
      BY <1>2, <1>3, <1>4, <2>1, <2>3, <2>4, <2>5 DEF EvidenceInv, ReleaseHasEvidence
  <1>13. CASE Recovered
    <2>1. /\ pc = "expired" /\ pc' = "unpause" /\ UNCHANGED <<shadow, evidence, owed, batch>>
          /\ ReleaseOk(shadow, anchor)
      BY <1>13 DEF Recovered, Go
    <2>2. ASSUME restarts' <= 1, owed = "owed"
          PROVE  ReleaseHasEvidence'
      <3>1. Tallied
        BY <1>1, <1>2, <2>1, <2>2 DEF Counting
      <3>2. /\ Cardinality(evidence) >= MinFires
            /\ Cardinality(Wins) >= Cardinality(Losses)
        BY <1>2, <2>1, <3>1, RecoveryIsEvidence
      <3>3. QED
        BY <2>1, <3>2 DEF ReleaseHasEvidence, Wins, Losses
    <2>3. restarts' <= 1 => ReleaseHasEvidence'
      BY <2>1, <2>2 DEF ReleaseHasEvidence
    <2>4. QED
      BY <1>8, <2>1, <2>3 DEF Counting
  <1>14. CASE Extend
    BY <1>8, <1>14 DEF Extend, Go, Counting, ReleaseHasEvidence
  <1>15. CASE Unpause \/ Reseed
    BY <1>8, <1>15 DEF Unpause, Reseed, Go, Counting, ReleaseHasEvidence
  <1>16. CASE ClearShadow
    <2>1. ~shadow'.active /\ pc' = "checks" /\ evidence' = evidence /\ batch' = batch
      <3>1. ~ShadowClear(shadow).active
        BY <1>1, ShadowMethods
      <3>2. QED
        BY <1>16, <3>1 DEF ClearShadow, Go
    <2>2. QED
      BY <1>2, <1>3, <1>4, <2>1 DEF EvidenceInv, Counting, ReleaseHasEvidence
  <1>17. CASE FireBreaker
    <2>1. pc' = "shadowStart" /\ evidence' = {} /\ batch' = batch
      BY <1>17 DEF FireBreaker, Go
    <2>2. IsFiniteSet(evidence')
      BY <2>1, FS_EmptySet
    <2>3. QED
      BY <1>4, <2>1, <2>2 DEF EvidenceInv, Counting, ReleaseHasEvidence
  <1>18. CASE StartShadow
    <2>1. /\ shadow'.settled = 0 /\ shadow'.cum = 0 /\ shadow'.pending = {}
          /\ pc' = "top" /\ evidence' = {} /\ batch' = batch
      BY <1>2, <1>18 DEF StartShadow, ShadowStart, Go
    <2>2. Wins' = {} /\ Losses' = {}
      BY <2>1 DEF Wins, Losses
    <2>3. Cardinality(evidence') = 0 /\ Cardinality(Wins') = 0 /\ Cardinality(Losses') = 0
          /\ IsFiniteSet(evidence')
      BY <2>1, <2>2, FS_EmptySet
    <2>4. Stake * (0 - 0) = 0
      BY DEF GateAssumption
    <2>5. Tallied'
      BY <2>1, <2>3, <2>4 DEF Tallied
    <2>6. QED
      BY <1>4, <2>1, <2>3, <2>5 DEF EvidenceInv, ReleaseHasEvidence
  <1>19. CASE Decline \/ Admit \/ PlaceBet
    BY <1>8, <1>19 DEF Decline, Admit, PlaceBet, Go, Counting, ReleaseHasEvidence
  <1>20. CASE BetEnds \/ OperatorFlags \/ UNCHANGED vars
    <2>1. /\ pc' = pc /\ UNCHANGED <<shadow, evidence, owed, batch, restarts>>
      BY <1>20 DEF BetEnds, OperatorFlags, vars, trackerVars, restartVars
    <2>2. restarts' <= 1 => ReleaseHasEvidence'
      BY <1>2, <2>1 DEF ReleaseHasEvidence
    <2>3. QED
      BY <1>2, <1>8, <2>1, <2>2 DEF Counting
  <1>21. CASE Restart
    <2>1. /\ restarts' = restarts + 1 /\ pc' = "top" /\ batch' = {}
          /\ UNCHANGED <<shadow, evidence, owed>>
      BY <1>21 DEF Restart, RestartTracker, Go
    <2>2. ASSUME restarts' <= 1, Counting'
          PROVE  Tallied'
      <3>1. restarts = 0
        BY <1>1, <2>1, <2>2
      <3>2. pc # "shadowStart"
        BY <2>1, <2>2, <3>1 DEF Counting, HoldsInv
      <3>3. Counting
        BY <2>1, <2>2, <3>2 DEF Counting
      <3>4. QED
        BY <1>2, <1>5, <2>1, <3>1, <3>3
    <2>3. QED
      BY <1>2, <1>3, <2>1, <2>2 DEF EvidenceInv, ReleaseHasEvidence
  <1>22. QED
    BY <1>6, <1>7, <1>9, <1>10, <1>11, <1>12, <1>13, <1>14, <1>15, <1>16, <1>17, <1>18,
       <1>19, <1>20, <1>21 DEF Next

LEMMA EvidenceAlways == Spec => [](HoldsInv /\ EvidenceInv)
  <1>1. Init => HoldsInv /\ EvidenceInv
    BY FS_EmptySet DEF Init, HoldsInv, EvidenceInv, TrackerInit, NoShadow, Counting, ReleaseHasEvidence
  <1>2. GateTypeOK /\ HoldsInv /\ EvidenceInv /\ [Next]_vars => HoldsInv' /\ EvidenceInv'
    BY TrackerAssumption, GateAssumption, StepKeepsHolds, StepKeepsEvidence
  <1>3. QED
    BY <1>1, <1>2, GateTyped, PTL DEF Spec

\* The shadow counts every distinct round settled since the breaker fired, once
\* (settle_round and the pending set of shadow_ledger.py); a second restart can leave
\* the ledger of an earlier suspension active.
THEOREM EvidenceSound == Spec => [](restarts <= 1 => EvidenceIsExact)
  <1>1. EvidenceInv => (restarts <= 1 => EvidenceIsExact)
    BY DEF EvidenceInv, EvidenceIsExact, Counting, Tallied
  <1>2. QED
    BY <1>1, EvidenceAlways, PTL

\* A release the operator did not order rests on enough rounds bet by the shadow, and
\* on no loss over them (release_ok of shadow_ledger.py).
THEOREM ReleaseSound == Spec => [](restarts <= 1 => ReleaseHasEvidence)
  <1>1. EvidenceInv => (restarts <= 1 => ReleaseHasEvidence)
    BY DEF EvidenceInv
  <1>2. QED
    BY <1>1, EvidenceAlways, PTL

-----------------------------------------------------------------------------
(* The peak as time passes and samples are added.                          *)

\* A list of balances has a bound.
LEMMA BalancesBounded ==
    ASSUME NEW es \in Seq(Sample)
    PROVE  \E u \in Nat : \A i \in DOMAIN es : es[i].bankroll <= u
  <1> DEFINE HasBound(m) == \E u \in Nat : \A i \in 1 .. m : es[i].bankroll <= u
             Bad == {m \in 0 .. Len(es) : ~HasBound(m)}
  <1>1. DOMAIN es = 1 .. Len(es) /\ Len(es) \in Nat
    OBVIOUS
  <1>2. \A i \in DOMAIN es : es[i].bankroll \in Nat
    BY SampleAt
  <1>3. ASSUME Bad # {}
        PROVE  FALSE
    <2>1. Bad \subseteq Nat
      OBVIOUS
    <2>2. PICK m \in Bad : \A y \in Bad : ~(<<y, m>> \in OpToRel(<, Nat))
      BY <1>3, <2>1, NatLessThanWellFounded, WFMin
    <2>3. \A y \in Bad : ~(y < m)
      BY <2>1, <2>2, Zenon DEF OpToRel
    <2>4. m \in 0 .. Len(es) /\ ~HasBound(m)
      OBVIOUS
    <2>5. m # 0
      <3>1. \A i \in 1 .. 0 : es[i].bankroll <= 0
        OBVIOUS
      <3>2. HasBound(0)
        BY <3>1
      <3>3. QED
        BY <2>4, <3>2
    <2>6. m - 1 \in 0 .. Len(es) /\ m - 1 < m /\ m \in DOMAIN es
      BY <1>1, <2>4, <2>5
    <2>7. HasBound(m - 1)
      BY <2>3, <2>6
    <2>8. PICK u \in Nat : \A i \in 1 .. m - 1 : es[i].bankroll <= u
      BY <2>7
    <2> DEFINE v == IF u >= es[m].bankroll THEN u ELSE es[m].bankroll
    <2> HIDE DEF Bad
    <2>9. v \in Nat /\ u <= v /\ es[m].bankroll <= v
      <3>1. es[m].bankroll \in Nat /\ u \in Nat
        BY <1>2, <2>6
      <3>2. QED
        BY <3>1
    <2> HIDE DEF v
    <2>10. ASSUME NEW i \in 1 .. m
           PROVE  es[i].bankroll <= v
      <3>1. i = m \/ i \in 1 .. m - 1
        BY <1>1, <2>6
      <3>2. i \in DOMAIN es
        BY <1>1, <2>6
      <3>3. es[i].bankroll \in Nat
        BY <1>2, <3>2
      <3>4. CASE i = m
        BY <2>9, <3>4
      <3>5. CASE i \in 1 .. m - 1
        <4>1. es[i].bankroll <= u
          BY <2>8, <3>5
        <4>2. QED
          BY <2>9, <3>3, <4>1
      <3>6. QED
        BY <3>1, <3>4, <3>5
    <2>11. HasBound(m)
      BY <2>9, <2>10
    <2>12. QED
      BY <2>4, <2>11
  <1>4. HasBound(Len(es))
    <2>1. Len(es) \in 0 .. Len(es)
      BY <1>1
    <2>2. QED
      BY <1>3, <2>1
  <1>5. QED
    BY <1>1, <1>4

\* The peak is the balance of a counted sample, and no counted sample is higher.
LEMMA PeakIsMax ==
    ASSUME NEW es \in Seq(Sample), NEW t \in Nat, es # <<>>
    PROVE  /\ PeakBankroll(es, t) \in Nat
           /\ \E i \in Counted(es, t) : PeakBankroll(es, t) = es[i].bankroll
           /\ \A i \in Counted(es, t) : es[i].bankroll <= PeakBankroll(es, t)
  <1> DEFINE V == {es[i].bankroll : i \in Counted(es, t)}
  <1>1. DOMAIN es = 1 .. Len(es) /\ Len(es) \in DOMAIN es
    BY EmptySeq
  <1>2. Counted(es, t) \subseteq DOMAIN es
    BY DEF Counted
  <1>3. \A i \in DOMAIN es : es[i].bankroll \in Nat
    BY SampleAt
  <1>4. PICK u \in Nat : \A i \in DOMAIN es : es[i].bankroll <= u
    BY BalancesBounded
  <1>5. V \in SUBSET (0 .. u)
    BY <1>2, <1>3, <1>4
  <1>6. Len(es) \in Counted(es, t)
    <2>1. \A k \in DOMAIN es : ~(k > Len(es))
      BY <1>1
    <2>2. QED
      BY <1>1, <2>1 DEF Counted
  <1>7. V # {}
    BY <1>6
  <1>8. PeakBankroll(es, t) = Max(V)
    BY DEF PeakBankroll
  <1>9. \A i \in Counted(es, t) : es[i].bankroll \in V
    OBVIOUS
  <1>10. \A v \in V : \E i \in Counted(es, t) : v = es[i].bankroll
    OBVIOUS
  <1> HIDE DEF V
  <1>11. Max(V) \in V /\ \A y \in V : Max(V) >= y
    BY <1>5, <1>7, MaxIsMember
  <1>12. PeakBankroll(es, t) \in V /\ \A y \in V : PeakBankroll(es, t) >= y
    BY <1>8, <1>11
  <1>13. PeakBankroll(es, t) \in Nat /\ \A y \in V : y \in Nat
    <2>1. \A y \in 0 .. u : y \in Nat
      BY <1>4
    <2>2. \A y \in V : y \in Nat
      BY <1>5, <2>1
    <2>3. QED
      BY <1>12, <2>2
  <1>14. \A i \in Counted(es, t) : es[i].bankroll <= PeakBankroll(es, t)
    BY <1>9, <1>12, <1>13
  <1>15. QED
    BY <1>10, <1>12, <1>13, <1>14

\* A list with nothing new in its window has no higher peak.
LEMMA PeakFalls ==
    ASSUME NEW es \in Seq(Sample), NEW t \in Nat, NEW u \in Nat, t <= u, es # <<>>,
           Window \in Nat
    PROVE  PeakBankroll(es, u) <= PeakBankroll(es, t)
  <1>1. \A i \in DOMAIN es : es[i].at \in Nat
    BY SampleAt
  <1>2. Counted(es, u) \subseteq Counted(es, t)
    <2>1. \A i \in DOMAIN es : es[i].at >= u - Window => es[i].at >= t - Window
      BY <1>1
    <2>2. QED
      BY <2>1, Zenon DEF Counted
  <1>3. PICK i \in Counted(es, u) : PeakBankroll(es, u) = es[i].bankroll
    BY PeakIsMax
  <1>4. es[i].bankroll <= PeakBankroll(es, t)
    BY <1>2, PeakIsMax
  <1>5. QED
    BY <1>3, <1>4

\* A new sample lifts the peak at most to its own balance.
LEMMA PeakGrows ==
    ASSUME NEW es \in Seq(Sample), NEW x \in Sample, NEW t \in Nat, es # <<>>,
           x.at = t, Window \in Nat
    PROVE  \/ PeakBankroll(Append(es, x), t) <= PeakBankroll(es, t)
           \/ PeakBankroll(Append(es, x), t) = x.bankroll
  <1> DEFINE n == Len(es)
             a == Append(es, x)
  <1>1. /\ a \in Seq(Sample) /\ DOMAIN es = 1 .. n /\ n \in Nat /\ DOMAIN a = 1 .. n + 1
        /\ a[n + 1] = x /\ \A i \in 1 .. n : a[i] = es[i]
    OBVIOUS
  <1> HIDE DEF a, n
  <1>2. a # <<>>
    BY <1>1, EmptySeq
  <1>3. PICK i \in Counted(a, t) : PeakBankroll(a, t) = a[i].bankroll
    BY <1>1, <1>2, PeakIsMax
  <1>4. i \in 1 .. n + 1
    BY <1>1, <1>3 DEF Counted
  <1>5. CASE i = n + 1
    BY <1>1, <1>3, <1>5 DEF a
  <1>6. CASE i \in 1 .. n
    <2>1. i \in Counted(es, t)
      <3>1. i \in DOMAIN es /\ a[i] = es[i]
        BY <1>1, <1>6
      <3>2. ASSUME \A k \in DOMAIN a : k > i => a[k].at >= t - Window,
                   NEW k \in DOMAIN es, k > i
            PROVE  es[k].at >= t - Window
        <4>1. k \in DOMAIN a /\ a[k] = es[k]
          BY <1>1
        <4>2. QED
          BY <3>2, <4>1
      <3>3. QED
        BY <1>3, <3>1, <3>2 DEF Counted
    <2>2. es[i].bankroll <= PeakBankroll(es, t) /\ a[i] = es[i]
      BY <1>1, <1>6, <2>1, PeakIsMax
    <2>3. QED
      BY <1>3, <2>2 DEF a
  <1>7. QED
    BY <1>1, <1>4, <1>5, <1>6

\* The peak of one sample is its balance.
LEMMA PeakOfOne ==
    ASSUME NEW x \in Sample, NEW t \in Nat
    PROVE  <<x>> \in Seq(Sample) /\ <<x>> # <<>> /\ PeakBankroll(<<x>>, t) = x.bankroll
  <1> DEFINE s == <<x>>
  <1>1. s \in Seq(Sample) /\ s # <<>> /\ DOMAIN s = {1} /\ s[1] = x
    OBVIOUS
  <1> HIDE DEF s
  <1>2. PICK i \in Counted(s, t) : PeakBankroll(s, t) = s[i].bankroll
    BY <1>1, PeakIsMax
  <1>3. i = 1
    BY <1>1, <1>2 DEF Counted
  <1>4. QED
    BY <1>1, <1>2, <1>3 DEF s

-----------------------------------------------------------------------------
(* The threshold.                                                          *)

\* The balance is above the threshold of the peak, less one stake.
AboveThreshold(w, peak) == (w + Stake) * TripDen > (TripDen - TripNum) * peak

\* A number times a larger one is larger.
LEMMA TimesKeepsOrder ==
    ASSUME NEW a \in Nat, NEW b \in Nat, NEW k \in Nat, a <= b
    PROVE  k * a <= k * b
  <1>1. b - a \in Nat /\ k * (b - a) \in Nat
    OBVIOUS
  <1>2. k * b = k * a + k * (b - a)
    OBVIOUS
  <1>3. QED
    BY <1>1, <1>2

\* A peak that is no higher than the balance.
LEMMA BoundedAtPeak ==
    ASSUME GateAssumption, NEW w \in Nat, NEW peak \in Nat, peak <= w
    PROVE  AboveThreshold(w, peak)
  <1> DEFINE rest == TripDen - TripNum
  <1>1. /\ TripDen \in Nat /\ TripNum \in Nat \ {0} /\ Stake \in Nat \ {0}
        /\ rest \in Nat /\ rest < TripDen
    BY DEF GateAssumption
  <1> HIDE DEF rest
  <1>2. rest * peak <= rest * w
    BY <1>1, TimesKeepsOrder
  <1>3. w * rest <= w * TripDen /\ w * rest = rest * w
    BY <1>1, TimesKeepsOrder
  <1>4. Stake * TripDen > 0
    BY <1>1
  <1>5. (w + Stake) * TripDen = w * TripDen + Stake * TripDen
    BY <1>1
  <1>6. /\ rest * peak \in Int /\ rest * w \in Int /\ w * TripDen \in Int
        /\ Stake * TripDen \in Int
    BY <1>1
  <1>7. (w + Stake) * TripDen > rest * peak
    BY <1>2, <1>3, <1>4, <1>5, <1>6
  <1>8. QED
    BY <1>7 DEF AboveThreshold, rest

\* A higher balance and a lower peak.
LEMMA BoundedKeeps ==
    ASSUME GateAssumption, NEW w \in Nat, NEW v \in Nat, NEW peak \in Nat, NEW p \in Nat,
           AboveThreshold(w, peak), w <= v, p <= peak
    PROVE  AboveThreshold(v, p)
  <1> DEFINE rest == TripDen - TripNum
  <1>1. TripDen \in Nat /\ Stake \in Nat /\ rest \in Nat
    BY DEF GateAssumption
  <1>2. (w + Stake) * TripDen > rest * peak
    BY DEF AboveThreshold
  <1> HIDE DEF rest
  <1>3. rest * p <= rest * peak
    BY <1>1, TimesKeepsOrder
  <1>4. TripDen * (w + Stake) <= TripDen * (v + Stake)
    <2>1. w + Stake \in Nat /\ v + Stake \in Nat /\ w + Stake <= v + Stake
      BY <1>1
    <2>2. QED
      BY <1>1, <2>1, TimesKeepsOrder
  <1>5. /\ TripDen * (w + Stake) = (w + Stake) * TripDen
        /\ TripDen * (v + Stake) = (v + Stake) * TripDen
    BY <1>1
  <1>6. /\ (w + Stake) * TripDen \in Int /\ (v + Stake) * TripDen \in Int
        /\ rest * p \in Int /\ rest * peak \in Int
    BY <1>1
  <1>7. (v + Stake) * TripDen > rest * p
    BY <1>2, <1>3, <1>4, <1>5, <1>6
  <1>8. QED
    BY <1>7 DEF AboveThreshold, rest

\* A bet that the drawdown of a balance it leaves out of account admits.
LEMMA BoundedAfterBet ==
    ASSUME GateAssumption, NEW w \in Nat, NEW current \in Nat, NEW peak \in Nat,
           current <= w, w >= Stake,
           peak > 0 => ~((peak - current) * TripDen >= TripNum * peak)
    PROVE  AboveThreshold(w - Stake, peak)
  <1> DEFINE rest == TripDen - TripNum
  <1>1. /\ TripDen \in Nat \ {0} /\ TripNum \in Nat \ {0} /\ Stake \in Nat \ {0}
        /\ rest \in Nat
    BY DEF GateAssumption
  <1>2. (w - Stake + Stake) * TripDen = TripDen * w
    BY <1>1
  <1>3. CASE peak = 0
    <2>1. rest * peak = 0 /\ TripDen * w > 0
      BY <1>1, <1>3
    <2>2. QED
      BY <1>2, <2>1 DEF AboveThreshold
  <1>4. CASE peak > 0
    <2>1. (peak - current) * TripDen < TripNum * peak
      <3>1. (peak - current) * TripDen \in Int /\ TripNum * peak \in Int
        BY <1>1
      <3>2. QED
        BY <1>4, <3>1
    <2>2. (peak - current) * TripDen = TripDen * peak - TripDen * current
      BY <1>1
    <2>3. rest * peak = TripDen * peak - TripNum * peak
      BY <1>1
    <2>4. TripDen * current <= TripDen * w
      BY <1>1, TimesKeepsOrder
    <2>5. /\ TripDen * peak \in Int /\ TripDen * current \in Int /\ TripDen * w \in Int
          /\ TripNum * peak \in Int
      BY <1>1
    <2> HIDE DEF rest
    <2>6. TripDen * w > rest * peak
      BY <2>1, <2>2, <2>3, <2>4, <2>5
    <2>7. QED
      BY <1>2, <2>6 DEF AboveThreshold, rest
  <1>5. QED
    BY <1>3, <1>4

-----------------------------------------------------------------------------
(* The loss of an episode.                                                 *)

\* As long as the process has not restarted it knows every sample; from the fresh
\* balance of the iteration to the bet, what the tracker holds is not more than the
\* wallet has, and a bet that is admitted leaves the drawdown below the threshold.
LossInv ==
    restarts = 0 =>
        /\ given = truth /\ (~seeded => truth = <<>>)
        /\ pc \notin {"top", "settle"} => CurrentBankroll <= wallet
        /\ pc = "admitted" /\ Peak > 0 => ~Drawdown(CurrentBankroll)
        /\ EpisodeLossIsBounded

\* A sample just taken is the current bankroll.
LEMMA RecordedIsCurrent ==
    ASSUME TrackerAssumption, TrackerTypeOK, NEW b \in Nat, RecordSettlement(b)
    PROVE  CurrentBankroll' = b
  <1> DEFINE from == Seed(entries, anchor)
             x == Taken(b, anchor)
  <1>1. from \in Seq(Sample) /\ x \in Sample /\ x.bankroll = b
    BY SeedTyped, TakenTyped DEF TrackerTypeOK, Taken
  <1>2. seeded' /\ entries' = (IF Repeats(from, b) THEN Recorded(entries, b)
                               ELSE Prune(Recorded(entries, b)))
    BY DEF RecordSettlement
  <1>3. Last(entries').bankroll = b
    <2>1. CASE Repeats(from, b)
      <3>1. entries' = from
        BY <1>2, <2>1 DEF Recorded
      <3>2. Last(from).bankroll = b
        BY <2>1 DEF Repeats
      <3>3. QED
        BY <3>1, <3>2
    <2>2. CASE ~Repeats(from, b)
      <3> DEFINE all == Append(from, x)
      <3>1. entries' = Prune(all)
        BY <1>2, <2>2 DEF Recorded
      <3> HIDE DEF from, x
      <3>2. all \in Seq(Sample) /\ Len(all) = Len(from) + 1 /\ all[Len(from) + 1] = x
        BY <1>1, AppendProperties
      <3>3. all # <<>> /\ Last(all) = x
        <4>1. Len(from) \in Nat
          BY <1>1
        <4>2. QED
          BY <3>2, <4>1, EmptySeq DEF Last
      <3> HIDE DEF all
      <3>4. Last(Prune(all)) = x
        BY <3>2, <3>3, PruneKeepsLast
      <3>5. QED
        BY <1>1, <3>1, <3>4
    <2>3. QED
      BY <2>1, <2>2
  <1>4. QED
    BY <1>2, <1>3 DEF CurrentBankroll

\* The list that a process knows is not empty once it is seeded.
LEMMA SeededKnows ==
    ASSUME TrackerTypeOK, PeakInv
    PROVE  seeded => given # <<>>
  <1>1. entries \in Seq(Sample) /\ given \in Seq(Sample) /\ (seeded => entries # <<>>)
    BY DEF TrackerTypeOK
  <1>2. PICK k \in Nat : Len(given) = Len(entries) + k
    BY DEF PeakInv, Tails
  <1>3. seeded => Len(entries) # 0 /\ Len(entries) \in Nat
    BY <1>1, EmptySeq
  <1>4. seeded => Len(given) # 0
    BY <1>2, <1>3
  <1>5. QED
    BY <1>1, <1>4, EmptySeq

\* A balance that is recorded lifts the peak at most to itself.
LEMMA RecordedPeak ==
    ASSUME TrackerAssumption, TrackerTypeOK, NEW b \in Nat, NEW es \in Seq(Sample),
           seeded => es # <<>>, ~seeded => es = <<>>
    PROVE  \/ PeakBankroll(Recorded(es, b), anchor) <= PeakBankroll(es, anchor)
           \/ PeakBankroll(Recorded(es, b), anchor) = b
  <1> DEFINE from == Seed(es, anchor)
             x == Taken(b, anchor)
  <1>1. /\ from \in Seq(Sample) /\ from # <<>> /\ x \in Sample /\ x.at = anchor
        /\ x.bankroll = b /\ anchor \in Nat /\ Window \in Nat
    BY SeedTyped, TakenTyped DEF TrackerTypeOK, TrackerAssumption, Taken
  <1>2. PeakBankroll(from, anchor) = PeakBankroll(es, anchor)
    <2>1. CASE seeded
      BY <2>1 DEF Seed
    <2>2. CASE ~seeded
      <3>1. es = <<>> /\ from = <<Taken(initial, anchor)>>
        BY <2>2 DEF Seed
      <3>2. Taken(initial, anchor) \in Sample /\ Taken(initial, anchor).bankroll = initial
        BY TakenTyped DEF TrackerTypeOK, Taken
      <3>3. PeakBankroll(from, anchor) = initial
        BY <1>1, <3>1, <3>2, PeakOfOne
      <3>4. QED
        BY <3>1, <3>3 DEF PeakBankroll
    <2>3. QED
      BY <2>1, <2>2
  <1>3. PeakBankroll(from, anchor) \in Nat
    BY <1>1, PeakIsMax
  <1>4. Recorded(es, b) = from \/ Recorded(es, b) = Append(from, x)
    BY DEF Recorded
  <1> HIDE DEF from, x
  <1>5. CASE Recorded(es, b) = from
    BY <1>2, <1>3, <1>5
  <1>6. CASE Recorded(es, b) = Append(from, x)
    <2>1. \/ PeakBankroll(Append(from, x), anchor) <= PeakBankroll(from, anchor)
          \/ PeakBankroll(Append(from, x), anchor) = x.bankroll
      BY <1>1, PeakGrows
    <2>2. QED
      BY <1>1, <1>2, <1>6, <2>1
  <1>7. QED
    BY <1>4, <1>5, <1>6

\* The peak, whatever is in the list.
LEMMA PeakTyped ==
    ASSUME TrackerTypeOK, NEW es \in Seq(Sample), NEW t \in Nat
    PROVE  PeakBankroll(es, t) \in Nat
  <1>1. CASE es = <<>>
    BY <1>1 DEF PeakBankroll, TrackerTypeOK
  <1>2. CASE es # <<>>
    BY <1>2, PeakIsMax
  <1>3. QED
    BY <1>1, <1>2

LEMMA StepKeepsLoss ==
    ASSUME TrackerAssumption, GateAssumption, GateTypeOK, PeakInv, LossInv, [Next]_vars
    PROVE  LossInv'
  <1>1. /\ TrackerTypeOK /\ TrackerTypeOK' /\ TrackerMoves /\ PeakInv'
        /\ wallet \in Nat /\ wallet' \in Nat /\ Stake \in Nat
        /\ anchor \in Nat /\ anchor' \in Nat /\ anchor <= anchor'
        /\ truth \in Seq(Sample) /\ truth' \in Seq(Sample) /\ Window \in Nat
    <2>1. TrackerMoves /\ TrackerTypeOK /\ TrackerTypeOK' /\ PeakInv'
      BY StepMoves, MovesKeepType, MovesKeepPeak DEF GateTypeOK
    <2>2. GateTypeOK'
      BY StepKeepsType
    <2>3. QED
      BY <2>1, <2>2, TimeAdvances
      DEF GateTypeOK, TrackerTypeOK, GateAssumption, TrackerAssumption
  <1> SUFFICES ASSUME restarts' = 0
               PROVE  LossInv'
    BY DEF LossInv
  <1> DEFINE peak == PeakBankroll(truth, anchor)
  <1>2. restarts = 0
    BY <1>1, StepMoves, RestartsGrow DEF GateTypeOK
  <1>3. /\ given = truth /\ (~seeded => truth = <<>>) /\ AboveThreshold(wallet, peak)
        /\ pc \notin {"top", "settle"} => CurrentBankroll <= wallet
        /\ pc = "admitted" /\ Peak > 0 => ~Drawdown(CurrentBankroll)
    BY <1>2 DEF LossInv, EpisodeLossIsBounded, AboveThreshold
  <1>4. peak \in Nat /\ CurrentBankroll \in Nat
    BY <1>1, PeakTyped, CurrentIsNat
  \* The steps that leave the samples and the time alone.
  <1>5. ASSUME UNCHANGED <<anchor, sampleVars>>
        PROVE  /\ given' = truth' /\ (~seeded' => truth' = <<>>)
               /\ CurrentBankroll' = CurrentBankroll /\ peak' = peak
               /\ Peak' = Peak
               /\ Drawdown(CurrentBankroll)' = Drawdown(CurrentBankroll)
    BY <1>3, <1>5 DEF sampleVars, CurrentBankroll, PeakBankroll, Counted, Peak, Drawdown
  <1>6. ASSUME UNCHANGED <<anchor, sampleVars>>, wallet <= wallet',
               pc' \notin {"top", "settle"} => pc \notin {"top", "settle"},
               pc' = "admitted" /\ Peak > 0 => ~Drawdown(CurrentBankroll)
        PROVE  LossInv'
    <2>1. AboveThreshold(wallet', peak)
      BY <1>1, <1>3, <1>4, <1>6, BoundedKeeps
    <2>2. EpisodeLossIsBounded'
      BY <1>5, <1>6, <2>1 DEF AboveThreshold, EpisodeLossIsBounded
    <2>3. pc' \notin {"top", "settle"} => CurrentBankroll' <= wallet'
      BY <1>1, <1>3, <1>4, <1>5, <1>6
    <2>4. pc' = "admitted" /\ Peak' > 0 => ~Drawdown(CurrentBankroll)'
      BY <1>5, <1>6
    <2>5. QED
      BY <1>5, <1>6, <2>2, <2>3, <2>4 DEF LossInv
  <1>7. CASE StartIteration
    <2>1. UNCHANGED <<sampleVars, wallet>> /\ pc' = "settle"
      BY <1>7 DEF StartIteration, Go, Advance, trackerVars, betVars
    <2>2. /\ given' = truth' /\ (~seeded' => truth' = <<>>)
          /\ truth' = truth /\ initial' = initial
      BY <1>3, <2>1 DEF sampleVars
    <2>3. PeakBankroll(truth, anchor') <= peak /\ PeakBankroll(truth, anchor') \in Nat
      <3>1. CASE truth = <<>>
        BY <1>4, <3>1 DEF PeakBankroll
      <3>2. CASE truth # <<>>
        BY <1>1, <3>2, PeakFalls, PeakIsMax
      <3>3. QED
        BY <3>1, <3>2
    <2>4. peak' = PeakBankroll(truth, anchor')
      BY <2>2 DEF PeakBankroll, Counted
    <2>5. AboveThreshold(wallet, PeakBankroll(truth, anchor'))
      BY <1>1, <1>3, <1>4, <2>3, BoundedKeeps
    <2>6. EpisodeLossIsBounded'
      BY <2>1, <2>4, <2>5 DEF AboveThreshold, EpisodeLossIsBounded
    <2>7. QED
      BY <2>1, <2>2, <2>6 DEF LossInv
  <1>8. CASE Preflight
    <2>1. /\ RecordSettlement(wallet) /\ wallet' = wallet
          /\ pc' \in {"paused", "checks"}
      BY <1>8 DEF Preflight, Go, betVars
    <2>2. /\ given' = truth' /\ truth' = Recorded(truth, wallet)
          /\ anchor' = anchor /\ initial' = initial
      BY <1>3, <2>1 DEF RecordSettlement, Recorded
    <2>3. CurrentBankroll' = wallet
      BY <1>1, <2>1, RecordedIsCurrent
    <2>4. (seeded => truth # <<>>) /\ (~seeded => truth = <<>>)
      <3>1. seeded => truth # <<>>
        BY <1>1, <1>3, SeededKnows
      <3>2. QED
        BY <1>3, <3>1
    <2>5. truth' # <<>> /\ seeded'
      <3>1. seeded'
        BY <2>1 DEF RecordSettlement
      <3>2. QED
        BY <1>1, <2>2, <2>4, <3>1, RecordedTyped
    <2>6. peak' = PeakBankroll(truth', anchor)
      BY <2>2, <2>5 DEF PeakBankroll, Counted
    <2>7. peak' \in Nat /\ (peak' <= peak \/ peak' = wallet)
      <3>1. PeakBankroll(truth', anchor) \in Nat
        BY <1>1, PeakTyped
      <3>2. \/ PeakBankroll(Recorded(truth, wallet), anchor) <= PeakBankroll(truth, anchor)
            \/ PeakBankroll(Recorded(truth, wallet), anchor) = wallet
        BY <1>1, <2>4, RecordedPeak
      <3>3. QED
        BY <2>2, <2>6, <3>1, <3>2
    <2> HIDE DEF peak
    <2>8. AboveThreshold(wallet, peak')
      <3>1. CASE peak' <= peak
        BY <1>1, <1>3, <1>4, <2>7, <3>1, BoundedKeeps
      <3>2. CASE peak' = wallet
        BY <1>1, <3>2, BoundedAtPeak
      <3>3. QED
        BY <2>7, <3>1, <3>2
    <2>9. EpisodeLossIsBounded'
      BY <2>1, <2>8 DEF AboveThreshold, EpisodeLossIsBounded, peak
    <2>10. QED
      BY <1>1, <2>1, <2>2, <2>3, <2>5, <2>9 DEF LossInv
  <1>9. CASE Reseed
    <2>1. /\ ResetPeakBaseline /\ wallet' = wallet /\ pc = "reseed" /\ pc' = "clear"
      BY <1>9 DEF Reseed, Go, betVars
    <2> DEFINE x == Reseeded(CurrentBankroll, anchor)
    <2>2. x \in Sample /\ x.bankroll = CurrentBankroll
      BY <1>1, <1>4, TakenTyped DEF Reseeded
    <2>3. /\ given' = <<x>> /\ truth' = <<x>> /\ entries' = <<x>> /\ seeded'
          /\ anchor' = anchor
      BY <2>1 DEF ResetPeakBaseline
    <2> HIDE DEF x
    <2>4. CurrentBankroll' = CurrentBankroll
      BY <2>2, <2>3 DEF CurrentBankroll, Last
    <2>5. peak' = CurrentBankroll
      <3>1. PeakBankroll(<<x>>, anchor) = CurrentBankroll /\ <<x>> # <<>>
        BY <1>1, <2>2, PeakOfOne
      <3>2. peak' = PeakBankroll(<<x>>, anchor)
        BY <2>3, <3>1 DEF PeakBankroll, Counted
      <3>3. QED
        BY <3>1, <3>2
    <2>6. CurrentBankroll <= wallet
      BY <1>3, <2>1
    <2>7. AboveThreshold(wallet, CurrentBankroll)
      BY <1>1, <1>4, <2>6, BoundedAtPeak
    <2>8. EpisodeLossIsBounded'
      BY <2>1, <2>5, <2>7 DEF AboveThreshold, EpisodeLossIsBounded
    <2>9. QED
      BY <2>1, <2>3, <2>4, <2>6, <2>8 DEF LossInv
  <1>10. CASE Admit
    <2>1. /\ UNCHANGED trackerVars /\ wallet' = wallet /\ pc = "checks" /\ pc' = "admitted"
      BY <1>10 DEF Admit, Go, betVars
    <2>2. UNCHANGED <<anchor, sampleVars>>
      BY <2>1 DEF trackerVars
    <2>3. PICK f \in InFlight : ~Trips(f) /\ ~Exposed(f)
      BY <1>10 DEF Admit
    <2>4. f \in Nat
      BY InFlightTyped
    <2>5. ASSUME Peak > 0
          PROVE  ~Drawdown(CurrentBankroll)
      <3>1. CASE f = 0
        <4>1. ~Drawdown(CurrentBankroll + 0)
          BY <2>3, <2>5, <3>1 DEF Trips
        <4>2. CurrentBankroll + 0 = CurrentBankroll
          BY <1>4
        <4>3. QED
          BY <4>1, <4>2
      <3>2. CASE f > 0
        BY <2>3, <2>5, <3>2 DEF Exposed
      <3>3. QED
        BY <2>4, <3>1, <3>2
    <2>6. QED
      BY <1>1, <1>6, <2>1, <2>2, <2>5
  <1>11. CASE PlaceBet
    <2>1. UNCHANGED trackerVars /\ pc = "admitted" /\ pc' = "top"
      BY <1>11 DEF PlaceBet, Go
    <2>2. UNCHANGED <<anchor, sampleVars>>
      BY <2>1 DEF trackerVars
    <2>3. CASE UNCHANGED betVars
      BY <1>1, <1>6, <2>1, <2>2, <2>3 DEF betVars
    <2>4. CASE wallet >= Stake /\ wallet' = wallet - Stake
      <3>1. CurrentBankroll <= wallet
        BY <1>3, <2>1
      <3>2. Peak = peak
        BY <1>1, <1>3, PeakHolds DEF Peak, PeakIsWindowMax
      <3>3. peak > 0 => ~((peak - CurrentBankroll) * TripDen >= TripNum * peak)
        BY <1>3, <2>1, <3>2 DEF Drawdown
      <3> HIDE DEF peak
      <3>4. AboveThreshold(wallet - Stake, peak)
        BY <1>1, <1>4, <2>4, <3>1, <3>3, BoundedAfterBet
      <3>5. EpisodeLossIsBounded'
        BY <1>5, <2>2, <2>4, <3>4 DEF AboveThreshold, EpisodeLossIsBounded, peak
      <3>6. QED
        BY <1>5, <2>1, <2>2, <3>5 DEF LossInv
    <2>5. QED
      BY <1>11, <2>3, <2>4 DEF PlaceBet
  <1>12. CASE \/ \E p \in PnL : SettleShadow(p)
              \/ PreflightFails \/ PoolNotReady \/ ConsumeFlag \/ ShadowEvaluate
    <2>1. UNCHANGED <<anchor, sampleVars>> /\ wallet' = wallet /\ pc' # "admitted"
      BY <1>12 DEF SettleShadow, PreflightFails, PoolNotReady, ConsumeFlag, ShadowEvaluate,
             Go, trackerVars, betVars
    <2>2. pc' \notin {"top", "settle"} => pc \notin {"top", "settle"}
      BY <1>12 DEF SettleShadow, PreflightFails, PoolNotReady, ConsumeFlag, ShadowEvaluate, Go
    <2>3. QED
      BY <1>1, <1>6, <2>1, <2>2
  <1>13. CASE \/ Tick \/ Extend \/ Unpause \/ FireBreaker
    <2>1. UNCHANGED <<anchor, sampleVars>> /\ wallet' = wallet /\ pc' # "admitted"
      BY <1>13 DEF Tick, TickCooldown, Extend, Unpause, FireBreaker, SetPaused, Go, betVars
    <2>2. pc' \notin {"top", "settle"} => pc \notin {"top", "settle"}
      BY <1>13 DEF Tick, Extend, Unpause, FireBreaker, Go
    <2>3. QED
      BY <1>1, <1>6, <2>1, <2>2
  <1>14. CASE Recovered \/ ClearShadow \/ StartShadow \/ Decline
    <2>1. UNCHANGED <<anchor, sampleVars>> /\ wallet' = wallet /\ pc' # "admitted"
      BY <1>14 DEF Recovered, ClearShadow, StartShadow, Decline, Go, trackerVars, betVars
    <2>2. pc' \notin {"top", "settle"} => pc \notin {"top", "settle"}
      BY <1>14 DEF Recovered, ClearShadow, StartShadow, Decline, Go
    <2>3. QED
      BY <1>1, <1>6, <2>1, <2>2
  <1>15. CASE BetEnds \/ OperatorFlags \/ UNCHANGED vars
    <2>1. UNCHANGED <<anchor, sampleVars, pc>> /\ wallet <= wallet'
      BY <1>1, <1>15 DEF BetEnds, OperatorFlags, vars, trackerVars, betVars
    <2>2. QED
      BY <1>3, <1>6, <2>1
  <1>16. CASE Restart
    BY <1>1, <1>16 DEF Restart, RestartTracker, TrackerTypeOK
  <1>17. QED
    BY <1>7, <1>8, <1>9, <1>10, <1>11, <1>12, <1>13, <1>14, <1>15, <1>16 DEF Next

\* However the stakes in flight end, the balance stays above the threshold of the true
\* rolling peak less one stake, as long as the process does not restart (Checks 3 and 4
\* of decide_open_round): every bet is checked against a balance the wallet has.
THEOREM LossSound == Spec => [](restarts = 0 => EpisodeLossIsBounded)
  <1>1. Init => PeakInv /\ LossInv
    <2> SUFFICES ASSUME Init PROVE PeakInv /\ LossInv
      OBVIOUS
    <2>1. PeakInv
      BY PeakStarts DEF Init
    <2>2. truth = <<>> /\ given = <<>> /\ wallet = initial /\ pc = "top" /\ wallet \in Nat
      BY TrackerAssumption DEF Init, TrackerInit, TrackerAssumption
    <2>3. AboveThreshold(wallet, wallet)
      BY <2>2, GateAssumption, BoundedAtPeak
    <2>4. EpisodeLossIsBounded
      BY <2>2, <2>3 DEF EpisodeLossIsBounded, AboveThreshold, PeakBankroll
    <2>5. QED
      BY <2>1, <2>2, <2>4 DEF LossInv
  <1>2. GateTypeOK /\ PeakInv /\ LossInv /\ [Next]_vars => PeakInv' /\ LossInv'
    BY TrackerAssumption, GateAssumption, StepMoves, MovesKeepPeak, StepKeepsLoss DEF GateTypeOK
  <1>3. LossInv => (restarts = 0 => EpisodeLossIsBounded)
    BY DEF LossInv
  <1>4. QED
    BY <1>1, <1>2, <1>3, GateTyped, PTL DEF Spec
=============================================================================
