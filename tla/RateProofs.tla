----------------------------- MODULE RateProofs -----------------------------
(***************************************************************************)
(* The fetches of a round and the rate alarms over them, for every window, *)
(* rate and number of rounds: no signal is computed from anything but the  *)
(* whole window, rates count rounds, and the alarms follow the rates.      *)
(***************************************************************************)
EXTENDS RateAlarms, FiniteSetTheorems, SequenceTheorems, WellFoundedInduction, TLAPS

-----------------------------------------------------------------------------
(* What an answer is worth.                                                *)

LEMMA AnswerRows ==
    ASSUME NEW resp \in Responses, resp.kind = "rows"
    PROVE  /\ resp.rows \in Seq(Rows) /\ resp.rows \in [1 .. Len(resp.rows) -> Rows]
           /\ Len(resp.rows) \in Nat
  <1>1. resp \in [kind : {"rows"}, rows : UNION {[1 .. n -> Rows] : n \in 0 .. Bars + 1}]
    BY DEF Responses
  <1>2. resp.rows \in UNION {[1 .. n -> Rows] : n \in 0 .. Bars + 1}
    BY <1>1
  <1>3. PICK n \in 0 .. Bars + 1 : resp.rows \in [1 .. n -> Rows]
    BY <1>2
  <1>4. n \in Nat
    BY FetchAssumption
  <1>5. resp.rows \in Seq(Rows)
    BY <1>3, <1>4, SeqDef
  <1>6. QED
    BY <1>5, LenProperties

\* Rows in steps of one, from the first to the last of the window, are the window.
LEMMA StepsAreWhole ==
    ASSUME NEW old, DOMAIN old = 1 .. Bars, \A i \in 1 .. Bars : old[i] \in Int,
           old[1] = 1, \A i \in 2 .. Bars : old[i] = old[i - 1] + 1
    PROVE  \A i \in 1 .. Bars : old[i] = i
  <1> DEFINE Bad == {i \in 1 .. Bars : old[i] # i}
  <1>1. SUFFICES ASSUME Bad # {} PROVE FALSE
    OBVIOUS
  <1>2. Bad \subseteq Nat /\ Bars \in Nat
    BY FetchAssumption
  <1>3. PICK i \in Bad : \A y \in Bad : ~(<<y, i>> \in OpToRel(<, Nat))
    BY <1>1, <1>2, NatLessThanWellFounded, WFMin
  <1>4. \A y \in Bad : ~(y < i)
    BY <1>2, <1>3, Zenon DEF OpToRel
  <1>5. i \in 1 .. Bars /\ old[i] # i
    BY <1>3
  <1> DEFINE j == i - 1
  <1>6. i # 1
    BY <1>5
  <1>7. i \in 2 .. Bars /\ j \in 1 .. Bars /\ j < i /\ i = j + 1
    BY <1>2, <1>5, <1>6
  <1>8. old[j] = j
    BY <1>4, <1>7
  <1> HIDE DEF j
  <1>9. old[i] = old[j] + 1
    BY <1>7 DEF j
  <1>10. QED
    BY <1>5, <1>7, <1>8, <1>9

\* An answer that becomes a signal is the window.
LEMMA OkIsWindow ==
    ASSUME NEW resp \in Responses, Fetched(resp) = "ok"
    PROVE  IsWindow(resp) /\ HasNoHole(resp)
  <1>1. Classified(resp) = "success" /\ PassesChecks(resp.rows)
    BY DEF Fetched
  <1>2. resp.kind = "rows" /\ Len(resp.rows) = Bars
    BY <1>1 DEF Classified, Responses
  <1> DEFINE rows == resp.rows
             old  == Reverse(rows)
  <1>3. rows \in [1 .. Bars -> Rows] /\ Bars \in Nat /\ Bars > 1 /\ Len(rows) = Bars
    BY <1>2, AnswerRows, FetchAssumption
  <1>4. old = [i \in 1 .. Bars |-> rows[Bars - i + 1]]
    BY <1>3 DEF Reverse
  <1>5. /\ old[1] = 1 /\ \A i \in 2 .. Len(old) : old[i] = old[i - 1] + 1
        /\ \A i \in DOMAIN old : old[i] \notin {Blank, Garbled}
    BY <1>1 DEF PassesChecks
  <1> HIDE DEF rows
  <1>6. Rows \subseteq Int
    BY <1>3 DEF Rows, Blank, Garbled
  <1>7. \A i \in 1 .. Bars : Bars - i + 1 \in 1 .. Bars
    BY <1>3
  <1>8. DOMAIN old = 1 .. Bars /\ \A i \in 1 .. Bars : old[i] = rows[Bars - i + 1]
    BY <1>4
  <1>9. \A i \in 1 .. Bars : old[i] \in Int
    BY <1>3, <1>6, <1>7, <1>8
  <1> HIDE DEF old
  <1>10. Len(old) = Bars
    <2>1. old \in [1 .. Bars -> Int]
      BY <1>4, <1>8, <1>9
    <2>2. old \in Seq(Int)
      BY <1>3, <2>1, SeqDef
    <2>3. QED
      BY <1>3, <1>8, <2>2, LenProperties
  <1>11. \A i \in 1 .. Bars : old[i] = i
    BY <1>5, <1>8, <1>9, <1>10, StepsAreWhole
  <1>12. \A i \in 1 .. Bars : rows[i] = Bars + 1 - i
    <2>1. ASSUME NEW i \in 1 .. Bars PROVE rows[i] = Bars + 1 - i
      <3> DEFINE k == Bars - i + 1
      <3>1. k \in 1 .. Bars /\ Bars - k + 1 = i /\ k = Bars + 1 - i
        BY <1>3
      <3> HIDE DEF k
      <3>2. old[k] = k /\ old[k] = rows[Bars - k + 1]
        BY <1>8, <1>11, <3>1
      <3>3. QED
        BY <3>1, <3>2
    <2>2. QED
      BY <2>1
  <1>13. rows = [i \in 1 .. Bars |-> Bars + 1 - i]
    BY <1>3, <1>12
  <1>14. IsWindow(resp)
    BY <1>2, <1>13 DEF IsWindow, rows
  <1>15. Range(rows) = 1 .. Bars
    <2>1. Range(rows) \subseteq 1 .. Bars
      BY <1>3, <1>13 DEF Range
    <2>2. ASSUME NEW t \in 1 .. Bars PROVE t \in Range(rows)
      <3> DEFINE i == Bars + 1 - t
      <3>1. i \in 1 .. Bars /\ Bars + 1 - i = t
        BY <1>3
      <3> HIDE DEF i
      <3>2. rows[i] = t /\ i \in DOMAIN rows
        BY <1>3, <1>12, <3>1
      <3>3. QED
        BY <3>2 DEF Range
    <2>3. QED
      BY <2>1, <2>2
  <1>16. HasNoHole(resp)
    BY <1>2, <1>3, <1>15 DEF HasNoHole, Times, Window, rows
  <1>17. QED
    BY <1>14, <1>16

\* An answer that is excused as late lacks only the end of the window.
LEMMA LateHasNoHole ==
    ASSUME NEW resp \in Responses, Fetched(resp) = "late"
    PROVE  HasNoHole(resp)
  <1>1. Classified(resp) = "insufficient" /\ MissingPosition(resp.rows) = "tail"
    BY DEF Fetched
  <1>2. resp.kind = "rows"
    BY <1>1 DEF Classified, Responses
  <1> DEFINE rows == resp.rows
             n == Stamped(rows)
  <1>3. n <= Bars /\ Times(rows) = 1 .. n
    BY <1>1 DEF MissingPosition
  <1>4. Bars \in Nat /\ n \in Nat
    <2>1. rows \in [1 .. Len(rows) -> Rows] /\ Len(rows) \in Nat
      BY <1>2, AnswerRows
    <2>2. IsFiniteSet(1 .. Len(rows))
      BY <2>1, FS_Interval
    <2>3. IsFiniteSet({i \in DOMAIN rows : rows[i] # Blank})
      BY <2>1, <2>2, FS_Subset
    <2>4. QED
      BY <2>3, FS_CardinalityType, FetchAssumption DEF Stamped
  <1> HIDE DEF n
  <1>5. ASSUME NEW t \in Times(rows) PROVE 1 .. t \subseteq Range(rows) /\ t \in Window
    <2>1. t \in 1 .. n
      BY <1>3
    <2>2. 1 .. t \subseteq 1 .. n /\ t \in 1 .. Bars
      BY <1>3, <1>4, <2>1
    <2>3. Times(rows) \subseteq Range(rows)
      BY DEF Times
    <2>4. QED
      BY <1>3, <2>2, <2>3 DEF Window
  <1>6. QED
    BY <1>2, <1>5 DEF HasNoHole

\* A round that has a signal has the window of every symbol, and one that is a publish
\* delay has no hole in any.
LEMMA EvaluationsAreWhole ==
    ASSUME NEW r \in Evaluations
    PROVE  /\ r.class \in {"none", "publish_delay", "fetch_failure"}
           /\ r.class = "none" => r.window
           /\ r.class = "publish_delay" => r.noHole
  <1>1. PICK a \in [Symbols -> {x \in Answers : x.got # "fatal"}] :
           r = [class |-> TransientClass({a[s].got : s \in Symbols}),
                window |-> \A s \in Symbols : a[s].window,
                noHole |-> \A s \in Symbols : a[s].noHole]
    BY Zenon DEF Evaluations
  <1> DEFINE got == {a[s].got : s \in Symbols}
             whole == \A s \in Symbols : a[s].window
             holeless == \A s \in Symbols : a[s].noHole
  <1>2. /\ r.class = TransientClass(got)
        /\ r.window = whole /\ r.noHole = holeless
    BY <1>1
  <1>3. ASSUME NEW s \in Symbols
        PROVE  /\ a[s].got \in {"ok", "late", "failed"}
               /\ a[s].got = "ok" => a[s].window /\ a[s].noHole
               /\ a[s].got = "late" => a[s].noHole
    <2>1. a[s] \in Answers /\ a[s].got # "fatal"
      BY <1>1
    <2>2. PICK resp \in Responses :
             a[s] = [got |-> Fetched(resp), window |-> IsWindow(resp), noHole |-> HasNoHole(resp)]
      BY <2>1, Zenon DEF Answers
    <2>3. a[s].got = Fetched(resp) /\ a[s].window = IsWindow(resp) /\ a[s].noHole = HasNoHole(resp)
      BY <2>2
    <2>4. Fetched(resp) \in {"ok", "fatal", "late", "failed"}
      BY DEF Fetched
    <2>5. Fetched(resp) = "ok" => IsWindow(resp) /\ HasNoHole(resp)
      BY OkIsWindow
    <2>6. Fetched(resp) = "late" => HasNoHole(resp)
      BY LateHasNoHole
    <2>7. QED
      BY <2>1, <2>3, <2>4, <2>5, <2>6
  <1> HIDE DEF got
  <1>4. r.class \in {"none", "publish_delay", "fetch_failure"}
    BY <1>2 DEF TransientClass
  <1>5. r.class = "none" => "failed" \notin got /\ "late" \notin got
    BY <1>2 DEF TransientClass
  <1>6. r.class = "publish_delay" => "failed" \notin got
    BY <1>2 DEF TransientClass
  <1>7. \A s \in Symbols : a[s].got \in got
    BY DEF got
  <1> HIDE DEF whole, holeless
  <1>8. r.class = "none" => whole
    BY <1>3, <1>5, <1>7 DEF whole
  <1>9. r.class = "publish_delay" => holeless
    BY <1>3, <1>6, <1>7 DEF holeless
  <1>10. QED
    BY <1>2, <1>4, <1>8, <1>9

\* A signal is computed from the very window of every symbol, and a round counts as a
\* publish delay only if no candle of it is missing before one that is there
\* (kline_fetch_window, _missing_position, MomentumGate.evaluate), for windows of any
\* length and any answers.
THEOREM WholeSound == Spec => []WindowsAreWhole
  <1>1. Init => WindowsAreWhole
    BY DEF Init, WindowsAreWhole
  <1>2. WindowsAreWhole /\ [Next]_vars => WindowsAreWhole'
    <2> SUFFICES ASSUME WindowsAreWhole, [Next]_vars PROVE WindowsAreWhole'
      OBVIOUS
    <2>1. CASE Evaluate
      <3>1. fetched' \in Evaluations
        BY <2>1 DEF Evaluate
      <3>2. QED
        BY <3>1, EvaluationsAreWhole DEF WindowsAreWhole
    <2>2. CASE PoolGate \/ RiskSkip \/ Restart \/ UNCHANGED vars
      <3>1. UNCHANGED fetched
        BY <2>2 DEF PoolGate, RiskSkip, Restart, vars, history
      <3>2. QED
        BY <3>1 DEF WindowsAreWhole
    <2>3. QED
      BY <2>1, <2>2 DEF Next
  <1>3. QED
    BY <1>1, <1>2, PTL DEF Spec

-----------------------------------------------------------------------------
(* The windows.                                                            *)

LEMMA Constants ==
    /\ Rounds \in Nat /\ Rounds > 0 /\ MinSamples \in Nat /\ MinSamples > 0 /\ MinSamples <= Rounds
    /\ BurstThreshold \in Nat /\ BurstThreshold > 0
    /\ PublishEnter \in Nat /\ PublishExit \in Nat /\ PublishExit <= PublishEnter
    /\ GenuineEnter \in Nat /\ GenuineExit \in Nat /\ GenuineExit <= GenuineEnter
    /\ PublishRealert \in Nat /\ GenuineRealert \in Nat /\ EndpointRealert \in Nat
  <1>1. \A r \in {<<PublishEnter, PublishExit>>, <<GenuineEnter, GenuineExit>>} :
           r[1] \in 1 .. 1000 /\ r[2] \in 1 .. 1000 /\ r[2] < r[1]
    BY RateAssumption
  <1>2. /\ PublishEnter \in 1 .. 1000 /\ PublishExit \in 1 .. 1000 /\ PublishExit < PublishEnter
        /\ GenuineEnter \in 1 .. 1000 /\ GenuineExit \in 1 .. 1000 /\ GenuineExit < GenuineEnter
    BY <1>1
  <1>3. QED
    BY <1>2, RateAssumption

LEMMA MaxOfTwo ==
    ASSUME NEW a \in Int, NEW b \in Int
    PROVE  Max({a, b}) = IF b > a THEN b ELSE a
  <1> DEFINE top == IF b > a THEN b ELSE a
  <1>1. top \in {a, b} /\ \A y \in {a, b} : top >= y
    OBVIOUS
  <1>2. \A x \in {a, b} : (\A y \in {a, b} : x >= y) => x = top
    OBVIOUS
  <1> HIDE DEF top
  <1>3. Max({a, b}) = top
    BY <1>1, <1>2, Zenon DEF Max
  <1>4. QED
    BY <1>3 DEF top

\* The end of a sequence that a window has room for.
LEMMA RecentIs ==
    ASSUME NEW S, NEW s \in Seq(S)
    PROVE  LET n == IF Len(s) < Rounds THEN Len(s) ELSE Rounds
           IN  /\ Recent(s) \in Seq(S) /\ Len(Recent(s)) = n /\ n \in Nat
               /\ \A i \in 1 .. n : Recent(s)[i] = s[Len(s) - n + i]
  <1> DEFINE l == Len(s)
             n == IF l < Rounds THEN l ELSE Rounds
             from == l - n + 1
  <1>1. l \in Nat /\ n \in Nat /\ from \in 1 .. l + 1
    <2>1. l \in Nat
      BY LenProperties
    <2>2. Rounds \in Nat /\ Rounds > 0
      BY Constants
    <2> HIDE DEF l
    <2>3. QED
      BY <2>1, <2>2
  <1>2. Max({1, l - Rounds + 1}) = from
    <2>1. l - Rounds + 1 \in Int
      BY <1>1, Constants
    <2>2. Max({1, l - Rounds + 1}) = IF l - Rounds + 1 > 1 THEN l - Rounds + 1 ELSE 1
      BY <2>1, MaxOfTwo
    <2> HIDE DEF l
    <2>3. QED
      BY <1>1, <2>2, Constants
  <1>3. Recent(s) = SubSeq(s, from, l)
    BY <1>2 DEF Recent
  <1> HIDE DEF from, l
  <1>4. /\ SubSeq(s, from, l) \in Seq(S)
        /\ Len(SubSeq(s, from, l)) = IF from <= l THEN l - from + 1 ELSE 0
        /\ \A i \in 1 .. l - from + 1 : SubSeq(s, from, l)[i] = s[from + i - 1]
    BY <1>1, SubSeqProperties DEF l
  <1>5. n = l - from + 1 /\ (from <= l \/ n = 0)
    BY <1>1 DEF from
  <1> HIDE DEF n
  <1>6. \A i \in 1 .. n : from + i - 1 = l - n + i
    BY <1>1, <1>5
  <1>7. Len(Recent(s)) = n /\ Recent(s) \in Seq(S)
    BY <1>1, <1>3, <1>4, <1>5
  <1>8. \A i \in 1 .. n : Recent(s)[i] = s[l - n + i]
    BY <1>3, <1>4, <1>5, <1>6
  <1>9. QED
    BY <1>1, <1>7, <1>8 DEF n, l

\* t is what one more outcome x makes of a window s.
Pushed(s, x, t) ==
    LET n == IF Len(s) < Rounds THEN Len(s) + 1 ELSE Rounds
    IN  /\ Len(t) = n /\ n \in Nat /\ n > 0 /\ n <= Rounds
        /\ t[n] = x
        /\ \A i \in 1 .. n - 1 : t[i] = s[Len(s) + 1 - n + i]

LEMMA RecentAppend ==
    ASSUME NEW S, NEW s \in Seq(S), NEW x \in S, Len(s) <= Rounds
    PROVE  /\ Recent(Append(s, x)) \in Seq(S) /\ Len(Recent(Append(s, x))) <= Rounds
           /\ Pushed(s, x, Recent(Append(s, x)))
  <1> DEFINE l == Len(s)
             a == Append(s, x)
             n == IF l < Rounds THEN l + 1 ELSE Rounds
             t == Recent(a)
  <1>1. l \in Nat /\ l <= Rounds /\ Rounds \in Nat /\ Rounds > 0
    BY Constants, LenProperties
  <1>2. a \in Seq(S) /\ Len(a) = l + 1 /\ a[l + 1] = x /\ \A i \in 1 .. l : a[i] = s[i]
    BY AppendProperties
  <1> HIDE DEF a, l
  <1>3. n \in Nat /\ n > 0 /\ n <= l + 1 /\ n <= Rounds
    BY <1>1
  <1>4. n = IF l + 1 < Rounds THEN l + 1 ELSE Rounds
    BY <1>1
  <1> HIDE DEF n
  <1>5. t \in Seq(S) /\ Len(t) = n /\ \A i \in 1 .. n : t[i] = a[l + 1 - n + i]
    <2> DEFINE m == IF Len(a) < Rounds THEN Len(a) ELSE Rounds
    <2>1. t \in Seq(S) /\ Len(t) = m /\ \A i \in 1 .. m : t[i] = a[Len(a) - m + i]
      BY <1>2, RecentIs
    <2>2. m = n
      BY <1>2, <1>4
    <2> HIDE DEF m, t
    <2>3. QED
      BY <1>1, <1>2, <1>3, <2>1, <2>2
  <1>6. t[n] = x
    <2>1. n \in 1 .. n /\ l + 1 - n + n = l + 1
      BY <1>1, <1>3
    <2>2. QED
      BY <1>2, <1>5, <2>1
  <1>7. ASSUME NEW i \in 1 .. n - 1 PROVE t[i] = s[l + 1 - n + i]
    <2>1. i \in 1 .. n /\ l + 1 - n + i \in 1 .. l
      BY <1>1, <1>3
    <2>2. QED
      BY <1>2, <1>5, <2>1
  <1>8. Pushed(s, x, t)
    BY <1>3, <1>5, <1>6, <1>7 DEF Pushed, n, l
  <1>9. QED
    BY <1>3, <1>5, <1>8 DEF a

WindowTyped(w) ==
    /\ w \in [hits : Seq(BOOLEAN), over : BOOLEAN, lastSeen : Nat]
    /\ Len(w.hits) <= Rounds

\* A round is counted once, and moves the bar once the window is filled.
LEMMA ObserveMoves ==
    ASSUME NEW w, WindowTyped(w), NEW hit \in BOOLEAN, NEW e \in Nat, NEW enter, NEW exit
    PROVE  LET v == Observe(w, hit, e, enter, exit)
           IN  /\ WindowTyped(v) /\ v.lastSeen = e
               /\ w.lastSeen = e => v = w
               /\ w.lastSeen # e =>
                     /\ v.hits = Recent(Append(w.hits, hit))
                     /\ v.over = IF Len(v.hits) < MinSamples THEN w.over
                                 ELSE NextOver(w.over, v.hits, enter, exit)
  <1> DEFINE v == Observe(w, hit, e, enter, exit)
             hits == Recent(Append(w.hits, hit))
             over == IF Len(hits) < MinSamples THEN w.over
                     ELSE NextOver(w.over, hits, enter, exit)
  <1>1. CASE w.lastSeen = e
    <2>1. v = w
      BY <1>1 DEF Observe
    <2>2. QED
      BY <1>1, <2>1
  <1>2. CASE w.lastSeen # e
    <2>1. v = [hits |-> hits, lastSeen |-> e, over |-> over]
      BY <1>2 DEF Observe
    <2>2. hits \in Seq(BOOLEAN) /\ Len(hits) <= Rounds
      BY RecentAppend DEF WindowTyped
    <2>3. over \in BOOLEAN
      <3>1. w.over \in BOOLEAN
        BY DEF WindowTyped
      <3> HIDE DEF hits
      <3> DEFINE in == Reaches(hits, enter)
                 out == Reaches(hits, exit)
      <3>2. in \in BOOLEAN /\ out \in BOOLEAN
        BY DEF Reaches
      <3> HIDE DEF in, out
      <3>4. NextOver(w.over, hits, enter, exit) = IF w.over THEN out ELSE in
        BY DEF NextOver, in, out
      <3>3. QED
        BY <3>1, <3>2, <3>4
    <2> HIDE DEF hits, over
    <2>4. v.hits = hits /\ v.over = over /\ v.lastSeen = e
      BY <2>1
    <2>5. WindowTyped(v)
      BY <2>1, <2>2, <2>3, <2>4 DEF WindowTyped
    <2>6. QED
      BY <1>2, <2>4, <2>5 DEF over, hits
  <1>3. QED
    BY <1>1, <1>2

-----------------------------------------------------------------------------
(* The rounds a window holds.                                              *)

LEMMA AfterCounts ==
    ASSUME NEW F \in SUBSET Nat, IsFiniteSet(F)
    PROVE  /\ \A i \in F : After(F, i) \in Nat
           /\ \A i, j \in F : i < j => After(F, j) < After(F, i)
  <1>1. ASSUME NEW i \in F
        PROVE  IsFiniteSet({j \in F : i < j}) /\ After(F, i) \in Nat
    <2>1. IsFiniteSet({j \in F : i < j})
      BY FS_Subset
    <2>2. QED
      BY <2>1, FS_CardinalityType DEF After
  <1>2. ASSUME NEW i \in F, NEW j \in F, i < j PROVE After(F, j) < After(F, i)
    <2> DEFINE I == {h \in F : i < h}
               J == {h \in F : j < h}
    <2>1. IsFiniteSet(I)
      BY <1>1
    <2>2. J \subseteq I
      <3>1. ASSUME NEW h \in F, j < h PROVE i < h
        <4>1. i \in Nat /\ j \in Nat /\ h \in Nat
          OBVIOUS
        <4>2. QED
          BY <1>2, <3>1, <4>1
      <3>2. QED
        BY <3>1
    <2>3. j \in I /\ j \notin J
      <3>1. j \in Nat
        OBVIOUS
      <3>2. ~(j < j)
        BY <3>1
      <3>3. QED
        BY <1>2, <3>2
    <2> HIDE DEF I, J
    <2>4. Cardinality(J) < Cardinality(I)
      <3>1. /\ IsFiniteSet(J) /\ Cardinality(J) <= Cardinality(I)
            /\ Cardinality(I) = Cardinality(J) => I = J
        BY <2>1, <2>2, FS_Subset
      <3>2. Cardinality(I) \in Nat /\ Cardinality(J) \in Nat
        BY <2>1, <3>1, FS_CardinalityType
      <3>3. I # J
        BY <2>3
      <3>4. QED
        BY <3>1, <3>2, <3>3
    <2>5. QED
      BY <2>4 DEF After, I, J
  <1>3. QED
    BY <1>1, <1>2

\* A new round is later than all the others.
LEMMA AfterAdds ==
    ASSUME NEW F \in SUBSET Nat, IsFiniteSet(F), NEW k \in Nat, \A i \in F : i < k
    PROVE  LET G == F \cup {k}
           IN  /\ G \in SUBSET Nat /\ IsFiniteSet(G)
               /\ \A i \in F : After(G, i) = After(F, i) + 1
               /\ After(G, k) = 0
  <1> DEFINE G == F \cup {k}
  <1>1. G \in SUBSET Nat /\ IsFiniteSet(G)
    BY FS_AddElement
  <1>2. ASSUME NEW i \in F PROVE After(G, i) = After(F, i) + 1
    <2> DEFINE I == {h \in F : i < h}
               J == {h \in G : i < h}
    <2>1. J = I \cup {k} /\ k \notin I
      <3>1. i < k /\ k \notin F
        OBVIOUS
      <3>2. QED
        BY <3>1
    <2>2. IsFiniteSet(I)
      BY FS_Subset
    <2>3. Cardinality(J) = Cardinality(I) + 1
      BY <2>1, <2>2, FS_AddElement
    <2>4. QED
      BY <2>3 DEF After
  <1>3. After(G, k) = 0
    <2>1. {h \in G : k < h} = {}
      <3>1. \A h \in F : h \in Nat /\ h < k
        OBVIOUS
      <3>2. \A h \in F : ~(k < h)
        BY <3>1
      <3>3. ~(k < k)
        OBVIOUS
      <3>4. QED
        BY <3>2, <3>3, Zenon
    <2>2. QED
      BY <2>1, FS_EmptySet DEF After
  <1>4. QED
    BY <1>1, <1>2, <1>3

\* The outcomes of a window are those of the last rounds of F, one for each.
MatchesOf(F, ks, hits, class) ==
    /\ \A i \in LastOf(F) :
          After(F, i) < Len(hits) /\ hits[Len(hits) - After(F, i)] = (ks[i].class = class)
    /\ \A p \in 1 .. Len(hits) : \E i \in LastOf(F) : Len(hits) - After(F, i) = p

LEMMA PushMatches ==
    ASSUME NEW F \in SUBSET Nat, IsFiniteSet(F), NEW k \in Nat, \A i \in F : i < k,
           NEW ks, NEW ls, \A i \in F : ls[i] = ks[i],
           NEW hits \in Seq(BOOLEAN), Len(hits) <= Rounds, NEW class,
           MatchesOf(F, ks, hits, class)
    PROVE  MatchesOf(F \cup {k}, ls, Recent(Append(hits, ls[k].class = class)), class)
  <1> DEFINE G == F \cup {k}
             x == ls[k].class = class
             t == Recent(Append(hits, x))
             l == Len(hits)
             n == IF l < Rounds THEN l + 1 ELSE Rounds
             a(i) == After(F, i)
             b(i) == After(G, i)
  <1>0. l \in Nat /\ l <= Rounds /\ Rounds \in Nat /\ Rounds > 0 /\ x \in BOOLEAN
    BY Constants, LenProperties
  <1>1. /\ Len(t) = n /\ n \in Nat /\ n > 0 /\ n <= Rounds /\ t[n] = x
        /\ \A i \in 1 .. n - 1 : t[i] = hits[l + 1 - n + i]
    <2>1. Pushed(hits, x, t)
      BY <1>0, RecentAppend
    <2> HIDE DEF t, x
    <2>2. QED
      BY <2>1 DEF Pushed
  <1>2. \A i \in F : a(i) \in Nat /\ b(i) = a(i) + 1
    BY AfterCounts, AfterAdds
  <1>3. b(k) = 0
    BY AfterAdds
  <1>4. LastOf(F) = {i \in F : a(i) < Rounds} /\ LastOf(G) = {i \in G : b(i) < Rounds}
    BY DEF LastOf
  <1>5. /\ \A i \in LastOf(F) : a(i) < l /\ hits[l - a(i)] = (ks[i].class = class)
        /\ \A p \in 1 .. l : \E i \in LastOf(F) : l - a(i) = p
    BY Zenon DEF MatchesOf
  <1> HIDE DEF x, t, a, b, l, G
  <1>6. n = (IF l < Rounds THEN l + 1 ELSE Rounds) /\ n <= l + 1
    BY <1>0
  <1> HIDE DEF n
  <1>7. ASSUME NEW i \in LastOf(G)
        PROVE  b(i) < n /\ t[n - b(i)] = (ls[i].class = class)
    <2>1. CASE i = k
      <3>1. b(i) = 0 /\ n - 0 = n
        BY <1>1, <1>3, <2>1
      <3>2. t[n - b(i)] = x
        BY <1>1, <3>1
      <3>3. QED
        BY <1>1, <2>1, <3>1, <3>2 DEF x
    <2>2. CASE i # k
      <3>1. i \in F /\ b(i) < Rounds
        BY <1>4, <2>2 DEF G
      <3> DEFINE c == a(i)
                 q == n - b(i)
      <3>2. c \in Nat /\ b(i) = c + 1
        BY <1>2, <3>1
      <3>3. c < Rounds
        BY <1>0, <3>1, <3>2
      <3>4. i \in LastOf(F)
        BY <1>4, <3>1, <3>3
      <3>5. c < l /\ hits[l - c] = (ks[i].class = class)
        BY <1>5, <3>4
      <3> HIDE DEF c
      <3>6. b(i) < n
        BY <1>0, <1>1, <1>6, <3>1, <3>2, <3>5
      <3>7. q \in 1 .. n - 1 /\ l + 1 - n + q = l - c
        BY <1>0, <1>1, <3>2, <3>6
      <3> HIDE DEF q
      <3>8. t[q] = hits[l + 1 - n + q]
        BY <1>1, <3>7
      <3>9. t[q] = (ks[i].class = class)
        BY <3>5, <3>7, <3>8
      <3>10. ls[i] = ks[i]
        BY <3>1
      <3>11. QED
        BY <3>6, <3>9, <3>10 DEF q
    <2>3. QED
      BY <2>1, <2>2
  <1>8. ASSUME NEW p \in 1 .. n PROVE \E i \in LastOf(G) : n - b(i) = p
    <2>1. CASE p = n
      <3>0. k \in G /\ b(k) < Rounds
        BY <1>0, <1>3 DEF G
      <3>1. k \in LastOf(G) /\ n - b(k) = p
        <4>1. k \in LastOf(G)
          BY <1>4, <3>0
        <4>2. QED
          BY <1>1, <1>3, <2>1, <4>1
      <3>2. QED
        BY <3>1
    <2>2. CASE p # n
      <3> DEFINE q == l + 1 - n + p
      <3>1. q \in 1 .. l /\ l - q = n - 1 - p
        BY <1>0, <1>1, <1>6, <2>2
      <3> HIDE DEF q
      <3>2. PICK i \in LastOf(F) : l - a(i) = q
        BY <1>5, <3>1
      <3>3. i \in F /\ a(i) \in Nat /\ b(i) = a(i) + 1 /\ q \in Int
        <4>1. i \in F
          BY <1>4, <3>2
        <4>2. QED
          BY <1>0, <1>2, <3>1, <4>1
      <3> DEFINE c == a(i)
      <3>4. l - c = q /\ c \in Nat
        BY <3>2, <3>3
      <3>5. b(i) = c + 1
        BY <3>3
      <3> HIDE DEF c
      <3>6. c = l - q
        BY <1>0, <3>3, <3>4
      <3>7. b(i) = n - p
        BY <1>0, <1>1, <3>1, <3>5, <3>6
      <3>8. n - p < Rounds /\ n - (n - p) = p
        BY <1>0, <1>1
      <3>9. i \in LastOf(G)
        BY <1>4, <3>3, <3>7, <3>8 DEF G
      <3>10. QED
        BY <3>7, <3>8, <3>9
    <2>3. QED
      BY <2>1, <2>2
  <1>9. Len(t) = n
    BY <1>1
  <1>10. MatchesOf(G, ls, t, class)
    BY <1>7, <1>8, <1>9, Zenon DEF MatchesOf, b
  <1>11. QED
    BY <1>10 DEF G, t, x

LEMMA SameNumber ==
    ASSUME NEW S, NEW T, IsFiniteSet(T), NEW f \in [S -> T],
           \A x, y \in S : f[x] = f[y] => x = y, \A y \in T : \E x \in S : f[x] = y
    PROVE  IsFiniteSet(S) /\ Cardinality(S) = Cardinality(T)
  <1>1. f \in Injection(S, T)
    BY DEF Injection, IsInjective
  <1>2. f \in Surjection(S, T)
    BY Zenon DEF Surjection
  <1>3. QED
    BY <1>1, <1>2, FS_Injection

\* So a window tells the outcome of every one of its rounds, and has as many hits as
\* rounds of the class.
LEMMA MatchesCount ==
    ASSUME NEW F \in SUBSET Nat, IsFiniteSet(F), NEW ks, NEW hits \in Seq(BOOLEAN), NEW class,
           MatchesOf(F, ks, hits, class)
    PROVE  /\ IsFiniteSet(LastOf(F)) /\ Len(hits) = Cardinality(LastOf(F))
           /\ Hits(hits) = Cardinality({i \in LastOf(F) : ks[i].class = class})
  <1> DEFINE l == Len(hits)
             L == LastOf(F)
             f == [i \in L |-> l - After(F, i)]
             A == {i \in L : ks[i].class = class}
             B == {p \in DOMAIN hits : hits[p]}
             g == [i \in A |-> f[i]]
  <1>1. l \in Nat /\ DOMAIN hits = 1 .. l /\ \A p \in 1 .. l : hits[p] \in BOOLEAN
    BY LenProperties
  <1>2. L \subseteq F
    BY DEF LastOf
  <1>3. \A i \in L : After(F, i) \in Nat
    BY <1>2, AfterCounts
  <1>4. /\ \A i \in L : After(F, i) < l /\ hits[l - After(F, i)] = (ks[i].class = class)
        /\ \A p \in 1 .. l : \E i \in L : l - After(F, i) = p
    BY Zenon DEF MatchesOf
  <1> HIDE DEF L, l
  <1>5. ASSUME NEW i \in L, NEW j \in L, After(F, i) = After(F, j) PROVE i = j
    <2>1. i \in F /\ j \in F /\ i \in Nat /\ j \in Nat
      BY <1>2
    <2>2. ~(i < j) /\ ~(j < i)
      <3> DEFINE a == After(F, i)
                 b == After(F, j)
      <3>1. a = b /\ a \in Nat
        BY <1>3, <1>5
      <3>2. (i < j => b < a) /\ (j < i => a < b)
        BY <2>1, AfterCounts
      <3> HIDE DEF a, b
      <3>3. QED
        BY <3>1, <3>2
    <2>3. QED
      BY <2>1, <2>2
  <1>6. ASSUME NEW i \in L
        PROVE  l - After(F, i) \in 1 .. l /\ f[i] = l - After(F, i)
    <2> DEFINE a == After(F, i)
    <2>1. a \in Nat /\ a < l
      BY <1>3, <1>4
    <2>2. f[i] = l - a
      OBVIOUS
    <2> HIDE DEF a, f
    <2>3. l - a \in 1 .. l
      BY <1>1, <2>1
    <2>4. QED
      BY <2>2, <2>3 DEF a
  <1>7. ASSUME NEW i \in L, NEW j \in L, f[i] = f[j] PROVE i = j
    <2> DEFINE a == After(F, i)
               b == After(F, j)
    <2>1. a \in Nat /\ b \in Nat
      BY <1>3
    <2>2. l - a = l - b
      BY <1>6, <1>7
    <2> HIDE DEF a, b
    <2>3. a = b
      BY <1>1, <2>1, <2>2
    <2>4. QED
      BY <1>5, <2>3 DEF a, b
  <1>8. \A p \in 1 .. l : \E i \in L : f[i] = p
    BY <1>4, <1>6
  <1>9. f \in [L -> 1 .. l]
    BY <1>6
  <1> HIDE DEF f
  <1>10. IsFiniteSet(L) /\ Cardinality(L) = l
    <2>1. IsFiniteSet(1 .. l) /\ Cardinality(1 .. l) = l
      BY <1>1, FS_Interval
    <2>2. QED
      BY <1>7, <1>8, <1>9, <2>1, SameNumber
  <1>11. \A i \in L : hits[f[i]] = (ks[i].class = class)
    BY <1>4, <1>6
  <1>12. IsFiniteSet(B)
    <2>1. IsFiniteSet(1 .. l) /\ B \subseteq 1 .. l
      BY <1>1, FS_Interval
    <2>2. QED
      BY <2>1, FS_Subset
  <1>13. g \in [A -> B]
    <2>1. \A i \in A : f[i] \in B
      BY <1>1, <1>9, <1>11
    <2>2. QED
      BY <2>1
  <1>14. \A i \in A : g[i] = f[i]
    OBVIOUS
  <1>15. \A i, j \in A : g[i] = g[j] => i = j
    BY <1>7, <1>14
  <1>16. \A p \in B : \E i \in A : g[i] = p
    <2>1. ASSUME NEW p \in B PROVE \E i \in A : g[i] = p
      <3>1. p \in 1 .. l /\ hits[p]
        BY <1>1
      <3>2. PICK i \in L : f[i] = p
        BY <1>8, <3>1
      <3>3. i \in A
        BY <1>11, <3>1, <3>2
      <3>4. QED
        BY <1>14, <3>2, <3>3
    <2>2. QED
      BY <2>1
  <1> HIDE DEF A, B, g
  <1>17. Cardinality(A) = Cardinality(B)
    BY <1>12, <1>13, <1>15, <1>16, SameNumber
  <1>18. Hits(hits) = Cardinality(A)
    BY <1>17 DEF Hits, B
  <1>19. QED
    BY <1>10, <1>18 DEF A, L, l

LEMMA MatchesTell ==
    ASSUME NEW F \in SUBSET Nat, IsFiniteSet(F), NEW hits \in Seq(BOOLEAN), NEW class,
           MatchesOf(F, klines, hits, class)
    PROVE  Tells(hits, F, class)
  <1>1. Len(hits) = Cardinality(LastOf(F))
    BY MatchesCount
  <1>2. \A i \in LastOf(F) : hits[Len(hits) - After(F, i)] = (klines[i].class = class)
    BY Zenon DEF MatchesOf
  <1>3. QED
    BY <1>1, <1>2, Zenon DEF Tells

-----------------------------------------------------------------------------
(* What an alarm makes of a round.                                         *)

Classes == {"none", "publish_delay", "fetch_failure"}
Never == -1
AlarmSort == [streak : Nat, lastSeen : Nat, lastAlert : Int, alerting : BOOLEAN]

\* b is what the alarm a becomes when it is told, in round e, whether all is well.
Recorded(a, b, ready, e, threshold) ==
    /\ b \in AlarmSort
    /\ ready => /\ b.streak = 0 /\ b.lastSeen = a.lastSeen
                /\ ~b.alerting /\ b.lastAlert = Never
    /\ ~ready /\ a.lastSeen = e => b = a
    /\ ~ready /\ a.lastSeen # e =>
          /\ b.streak = a.streak + 1 /\ b.lastSeen = e
          /\ b.streak >= threshold => b.alerting
          /\ a.alerting => b.alerting
          /\ b.alerting => (a.alerting /\ b.lastAlert = a.lastAlert) \/ b.lastAlert = e

LEMMA AlarmsRecord ==
    ASSUME NEW a \in AlarmSort, NEW ready \in BOOLEAN, NEW e \in Nat
    PROVE  /\ Recorded(a, Publish!Record(a, ready, e, e), ready, e, 1)
           /\ Recorded(a, Genuine!Record(a, ready, e, e), ready, e, 1)
           /\ Recorded(a, Burst!Record(a, ready, e, e), ready, e, BurstThreshold)
           /\ Recorded(a, Endpoint!Record(a, ready, e, e), ready, e, 1)
  <1> DEFINE b == [a EXCEPT !.lastSeen = e, !.streak = @ + 1]
             c == [b EXCEPT !.alerting = TRUE, !.lastAlert = e]
             d == [a EXCEPT !.streak = 0, !.lastAlert = Never, !.alerting = FALSE]
  <1>1. /\ b.streak = a.streak + 1 /\ b.lastSeen = e /\ b.lastAlert = a.lastAlert
        /\ b.alerting = a.alerting
    BY DEF AlarmSort
  <1>2. c.streak = b.streak /\ c.lastSeen = e /\ c.lastAlert = e /\ c.alerting = TRUE
    BY DEF AlarmSort
  <1>3. d.streak = 0 /\ d.lastSeen = a.lastSeen /\ d.lastAlert = Never /\ d.alerting = FALSE
    BY DEF AlarmSort
  <1>4. b \in AlarmSort
    <2>1. a.streak + 1 \in Nat
      BY DEF AlarmSort
    <2>2. QED
      BY <2>1 DEF AlarmSort
  <1>5. c \in AlarmSort
    <2>1. e \in Int
      OBVIOUS
    <2> HIDE DEF b
    <2>2. QED
      BY <1>4, <2>1 DEF AlarmSort
  <1>6. d \in AlarmSort
    <2>1. Never \in Int
      BY DEF Never
    <2>2. QED
      BY <2>1 DEF AlarmSort
  <1>7. a.alerting \in BOOLEAN
    BY DEF AlarmSort
  <1>8. CASE ready
    <2>1. /\ Publish!Record(a, ready, e, e) = d /\ Genuine!Record(a, ready, e, e) = d
          /\ Burst!Record(a, ready, e, e) = d /\ Endpoint!Record(a, ready, e, e) = d
      BY <1>8 DEF Never,
         Publish!Record, Publish!RecordReady, Publish!Never,
         Genuine!Record, Genuine!RecordReady, Genuine!Never,
         Burst!Record, Burst!RecordReady, Burst!Never,
         Endpoint!Record, Endpoint!RecordReady, Endpoint!Never
    <2> HIDE DEF d
    <2>2. Recorded(a, d, ready, e, 1) /\ Recorded(a, d, ready, e, BurstThreshold)
      BY <1>3, <1>6, <1>8 DEF Recorded
    <2>3. QED
      BY <2>1, <2>2
  <1>9. CASE ~ready /\ a.lastSeen = e
    <2>1. /\ Publish!Record(a, ready, e, e) = a /\ Genuine!Record(a, ready, e, e) = a
          /\ Burst!Record(a, ready, e, e) = a /\ Endpoint!Record(a, ready, e, e) = a
      BY <1>9 DEF Publish!Record, Publish!RecordBlocked, Genuine!Record, Genuine!RecordBlocked,
         Burst!Record, Burst!RecordBlocked, Endpoint!Record, Endpoint!RecordBlocked
    <2>2. QED
      BY <1>9, <2>1 DEF Recorded
  <1>10. CASE ~ready /\ a.lastSeen # e
    <2> DEFINE raises(threshold, realert) ==
                 /\ b.streak >= threshold
                 /\ ~b.alerting \/ b.lastAlert = Never \/ e - b.lastAlert >= realert
               next(threshold, realert) == IF raises(threshold, realert) THEN c ELSE b
    <2> HIDE DEF b, c
    <2>1. Publish!Record(a, ready, e, e) = next(1, PublishRealert)
      BY <1>10 DEF Publish!Record, Publish!RecordBlocked, Publish!Raises, Publish!Never, Never, b, c
    <2>2. Genuine!Record(a, ready, e, e) = next(1, GenuineRealert)
      BY <1>10 DEF Genuine!Record, Genuine!RecordBlocked, Genuine!Raises, Genuine!Never, Never, b, c
    <2>3. Burst!Record(a, ready, e, e) = next(BurstThreshold, GenuineRealert)
      BY <1>10 DEF Burst!Record, Burst!RecordBlocked, Burst!Raises, Burst!Never, Never, b, c
    <2>4. Endpoint!Record(a, ready, e, e) = next(1, EndpointRealert)
      BY <1>10 DEF Endpoint!Record, Endpoint!RecordBlocked, Endpoint!Raises, Endpoint!Never, Never, b, c
    <2>5. ASSUME NEW threshold \in Nat, NEW realert
          PROVE  Recorded(a, next(threshold, realert), ready, e, threshold)
      <3> DEFINE up == raises(threshold, realert)
                 f == next(threshold, realert)
      <3>1. up \in BOOLEAN
        OBVIOUS
      <3>2. a.streak + 1 >= threshold /\ ~a.alerting => up
        BY <1>1
      <3>3. f = IF up THEN c ELSE b
        OBVIOUS
      <3> HIDE DEF raises, next, up, f
      <3>4. CASE up
        <4>1. f = c
          BY <3>3, <3>4
        <4>2. QED
          BY <1>1, <1>2, <1>5, <1>10, <4>1 DEF Recorded, f
      <3>5. CASE ~up
        <4>1. f = b
          BY <3>3, <3>5
        <4>2. QED
          BY <1>1, <1>4, <1>7, <1>10, <3>2, <3>5, <4>1 DEF Recorded, f
      <3>6. QED
        BY <3>1, <3>4, <3>5
    <2> HIDE DEF next, raises
    <2>6. QED
      BY <2>1, <2>2, <2>3, <2>4, <2>5, Constants
  <1>11. QED
    BY <1>8, <1>9, <1>10

-----------------------------------------------------------------------------
(* Types.                                                                  *)

Decisions == [of : Nat, class : Classes, ran : BOOLEAN]
Typed ==
    /\ epoch \in Nat /\ (pc = "decide" => epoch > 0) /\ lastClass \in Classes
    /\ WindowTyped(publish) /\ WindowTyped(genuine) /\ WindowTyped(static) /\ WindowTyped(header)
    /\ publishAlarm \in AlarmSort /\ genuineAlarm \in AlarmSort
    /\ burstAlarm \in AlarmSort /\ moveAlarm \in AlarmSort
    /\ klines \in Seq(Decisions) /\ wakes \in Seq(BOOLEAN \X BOOLEAN)
    /\ DOMAIN said = {"publish", "fetch", "move"}

LEMMA NewTyped ==
    /\ WindowTyped(NewWindow) /\ NewWindow.lastSeen = 0 /\ NewWindow.hits = <<>> /\ ~NewWindow.over
    /\ <<>> \in Seq(Decisions) /\ <<>> \in Seq(BOOLEAN \X BOOLEAN) /\ <<>> \in Seq(BOOLEAN)
    /\ \A a \in {Publish!NewAlarm, Genuine!NewAlarm, Burst!NewAlarm, Endpoint!NewAlarm} :
          a \in AlarmSort /\ a.streak = 0 /\ a.lastSeen = 0 /\ a.lastAlert = Never /\ ~a.alerting
  <1>1. <<>> \in Seq(Decisions) /\ <<>> \in Seq(BOOLEAN \X BOOLEAN) /\ <<>> \in Seq(BOOLEAN)
    BY EmptySeq
  <1>2. NewWindow.lastSeen = 0 /\ NewWindow.hits = <<>> /\ ~NewWindow.over
    BY DEF NewWindow
  <1>3. WindowTyped(NewWindow)
    <2>1. NewWindow \in [hits : Seq(BOOLEAN), over : BOOLEAN, lastSeen : Nat]
      BY <1>1 DEF NewWindow
    <2>2. Len(NewWindow.hits) <= Rounds
      <3>1. Len(<<>>) = 0
        BY EmptySeq
      <3>2. QED
        BY <1>2, <3>1, Constants
    <2>3. QED
      BY <2>1, <2>2 DEF WindowTyped
  <1>4. ASSUME NEW a \in {Publish!NewAlarm, Genuine!NewAlarm, Burst!NewAlarm, Endpoint!NewAlarm}
        PROVE  a \in AlarmSort /\ a.streak = 0 /\ a.lastSeen = 0 /\ a.lastAlert = Never /\ ~a.alerting
    <2>1. a = [streak |-> 0, lastSeen |-> 0, lastAlert |-> Never, alerting |-> FALSE]
      BY <1>4 DEF Never, Publish!NewAlarm, Publish!Never, Genuine!NewAlarm, Genuine!Never,
         Burst!NewAlarm, Burst!Never, Endpoint!NewAlarm, Endpoint!Never
    <2>2. Never \in Int
      BY DEF Never
    <2>3. a \in AlarmSort
      BY <2>1, <2>2 DEF AlarmSort
    <2>4. QED
      BY <2>1, <2>3
  <1>5. QED
    BY <1>1, <1>2, <1>3, <1>4

\* An alarm is told of its window once the window is filled.
IsTold(a, b, w, e) ==
    IF Filled(w) THEN Recorded(a, b, ~w.over, e, 1) ELSE b = a

\* What a decision does to the windows and to the alarms.
LEMMA DecisionMoves ==
    ASSUME Typed, NEW class \in Classes, NEW ran \in BOOLEAN, NoteKlines(class, ran)
    PROVE  /\ WindowTyped(publish') /\ WindowTyped(genuine')
           /\ publishAlarm' \in AlarmSort /\ genuineAlarm' \in AlarmSort /\ burstAlarm' \in AlarmSort
           /\ IsTold(publishAlarm, publishAlarm', publish', epoch)
           /\ IsTold(genuineAlarm, genuineAlarm', genuine', epoch)
           /\ class = "publish_delay" => burstAlarm' = burstAlarm
           /\ class # "publish_delay" =>
                 Recorded(burstAlarm, burstAlarm', class # "fetch_failure", epoch, BurstThreshold)
           /\ klines' \in Seq(Decisions) /\ klines' = Append(klines, [of |-> epoch, class |-> class, ran |-> ran])
           /\ DOMAIN said' = {"publish", "fetch", "move"}
  <1> DEFINE k == [of |-> epoch, class |-> class, ran |-> ran]
             delay == class = "publish_delay"
             failure == class = "fetch_failure"
  <1>1. publish' = Observe(publish, delay, epoch, PublishEnter, PublishExit)
    BY DEF NoteKlines
  <1>2. genuine' = Observe(genuine, failure, epoch, GenuineEnter, GenuineExit)
    BY DEF NoteKlines
  <1>3. epoch \in Nat /\ delay \in BOOLEAN /\ failure \in BOOLEAN /\ WindowTyped(publish) /\ WindowTyped(genuine)
    BY DEF Typed
  <1> HIDE DEF delay, failure
  <1>4. WindowTyped(publish') /\ WindowTyped(genuine')
    BY <1>1, <1>2, <1>3, ObserveMoves
  <1>5. publish'.over \in BOOLEAN /\ genuine'.over \in BOOLEAN
    BY <1>4 DEF WindowTyped
  <1>6. /\ publishAlarm' = IF Filled(publish')
                           THEN Publish!Record(publishAlarm, ~publish'.over, epoch, epoch) ELSE publishAlarm
        /\ genuineAlarm' = IF Filled(genuine')
                           THEN Genuine!Record(genuineAlarm, ~genuine'.over, epoch, epoch) ELSE genuineAlarm
        /\ burstAlarm' = BurstNext(class)
        /\ klines' = Append(klines, k)
    BY DEF NoteKlines
  <1>7. publishAlarm \in AlarmSort /\ genuineAlarm \in AlarmSort /\ burstAlarm \in AlarmSort
    BY DEF Typed
  <1>8. IsTold(publishAlarm, publishAlarm', publish', epoch) /\ publishAlarm' \in AlarmSort
    <2> DEFINE ready == ~publish'.over
    <2>1. ready \in BOOLEAN
      OBVIOUS
    <2> HIDE DEF ready
    <2>2. Recorded(publishAlarm, Publish!Record(publishAlarm, ready, epoch, epoch), ready, epoch, 1)
      BY <1>3, <1>7, <2>1, AlarmsRecord
    <2>3. CASE Filled(publish')
      <3>1. Recorded(publishAlarm, publishAlarm', ready, epoch, 1)
        BY <1>6, <2>2, <2>3 DEF ready
      <3>2. QED
        BY <2>3, <3>1 DEF IsTold, Recorded, ready
    <2>4. CASE ~Filled(publish')
      BY <1>6, <1>7, <2>4 DEF IsTold
    <2>5. QED
      BY <2>3, <2>4
  <1>9. IsTold(genuineAlarm, genuineAlarm', genuine', epoch) /\ genuineAlarm' \in AlarmSort
    <2> DEFINE ready == ~genuine'.over
    <2>1. ready \in BOOLEAN
      OBVIOUS
    <2> HIDE DEF ready
    <2>2. Recorded(genuineAlarm, Genuine!Record(genuineAlarm, ready, epoch, epoch), ready, epoch, 1)
      BY <1>3, <1>7, <2>1, AlarmsRecord
    <2>3. CASE Filled(genuine')
      <3>1. Recorded(genuineAlarm, genuineAlarm', ready, epoch, 1)
        BY <1>6, <2>2, <2>3 DEF ready
      <3>2. QED
        BY <2>3, <3>1 DEF IsTold, Recorded, ready
    <2>4. CASE ~Filled(genuine')
      BY <1>6, <1>7, <2>4 DEF IsTold
    <2>5. QED
      BY <2>3, <2>4
  <1>10. /\ class = "publish_delay" => burstAlarm' = burstAlarm
         /\ class # "publish_delay" =>
               Recorded(burstAlarm, burstAlarm', class # "fetch_failure", epoch, BurstThreshold)
         /\ burstAlarm' \in AlarmSort
    <2> DEFINE ready == class # "fetch_failure"
    <2>1. ready \in BOOLEAN
      OBVIOUS
    <2> HIDE DEF ready
    <2>2. Recorded(burstAlarm, Burst!Record(burstAlarm, ready, epoch, epoch), ready, epoch, BurstThreshold)
      BY <1>3, <1>7, <2>1, AlarmsRecord
    <2>3. burstAlarm' = IF class = "publish_delay" THEN burstAlarm
                        ELSE Burst!Record(burstAlarm, ready, epoch, epoch)
      BY <1>6 DEF BurstNext, ready
    <2>4. CASE class = "publish_delay"
      BY <1>7, <2>3, <2>4
    <2>5. CASE class # "publish_delay"
      <3>1. Recorded(burstAlarm, burstAlarm', ready, epoch, BurstThreshold)
        BY <2>2, <2>3, <2>5
      <3>2. QED
        BY <2>5, <3>1 DEF Recorded, ready
    <2>6. QED
      BY <2>4, <2>5
  <1>11. klines' \in Seq(Decisions)
    <2>1. k \in Decisions
      BY <1>3 DEF Decisions
    <2> HIDE DEF k
    <2>2. klines \in Seq(Decisions)
      BY DEF Typed
    <2>3. QED
      BY <1>6, <2>1, <2>2, AppendProperties
  <1>12. DOMAIN said' = DOMAIN said
    BY Zenon DEF NoteKlines
  <1>13. DOMAIN said' = {"publish", "fetch", "move"}
    BY <1>12 DEF Typed
  <1>14. QED
    BY <1>4, <1>6, <1>8, <1>9, <1>10, <1>11, <1>13

LEMMA EndpointMoves ==
    ASSUME Typed, NEW e \in Nat, NEW isStatic \in BOOLEAN, NEW count, NoteEndpoint(e, isStatic, count)
    PROVE  \E failed \in BOOLEAN :
              /\ static' = Observe(static, isStatic, e, StaticEnter, StaticExit)
              /\ header' = Observe(header, failed, e, HeaderEnter, HeaderExit)
              /\ WindowTyped(static') /\ WindowTyped(header') /\ moveAlarm' \in AlarmSort
              /\ moveAlarm' = moveAlarm \/ (\E ready \in BOOLEAN : Recorded(moveAlarm, moveAlarm', ready, e, 1))
              /\ wakes' = IF static.lastSeen = e THEN wakes ELSE Append(wakes, <<isStatic, failed>>)
              /\ wakes' \in Seq(BOOLEAN \X BOOLEAN)
              /\ DOMAIN said' = {"publish", "fetch", "move"}
  <1> DEFINE failed == seenErrors # NoCount /\ count > seenErrors
             ready == ~(static'.over \/ header'.over)
  <1>1. failed \in BOOLEAN /\ ready \in BOOLEAN
    OBVIOUS
  <1>2. /\ static' = Observe(static, isStatic, e, StaticEnter, StaticExit)
        /\ header' = Observe(header, failed, e, HeaderEnter, HeaderExit)
        /\ moveAlarm' = IF Filled(static') \/ Filled(header')
                        THEN Endpoint!Record(moveAlarm, ready, e, e) ELSE moveAlarm
        /\ wakes' = IF static.lastSeen = e THEN wakes ELSE Append(wakes, <<isStatic, failed>>)
    BY DEF NoteEndpoint
  <1> HIDE DEF failed, ready
  <1>3. WindowTyped(static') /\ WindowTyped(header')
    <2>1. WindowTyped(static) /\ WindowTyped(header)
      BY DEF Typed
    <2>2. QED
      BY <1>1, <1>2, <2>1, ObserveMoves
  <1>4. /\ moveAlarm' \in AlarmSort
        /\ moveAlarm' = moveAlarm \/ Recorded(moveAlarm, moveAlarm', ready, e, 1)
    <2>1. moveAlarm \in AlarmSort
      BY DEF Typed
    <2>2. Recorded(moveAlarm, Endpoint!Record(moveAlarm, ready, e, e), ready, e, 1)
      BY <1>1, <2>1, AlarmsRecord
    <2>3. CASE Filled(static') \/ Filled(header')
      <3>1. Recorded(moveAlarm, moveAlarm', ready, e, 1)
        BY <1>2, <2>2, <2>3
      <3>2. QED
        BY <3>1 DEF Recorded
    <2>4. CASE ~(Filled(static') \/ Filled(header'))
      BY <1>2, <2>1, <2>4
    <2>5. QED
      BY <2>3, <2>4
  <1>5. wakes' \in Seq(BOOLEAN \X BOOLEAN)
    <2> DEFINE x == <<isStatic, failed>>
    <2>1. wakes \in Seq(BOOLEAN \X BOOLEAN)
      BY DEF Typed
    <2>2. x \in BOOLEAN \X BOOLEAN
      BY <1>1
    <2> HIDE DEF x
    <2>3. Append(wakes, x) \in Seq(BOOLEAN \X BOOLEAN)
      BY <2>1, <2>2, AppendProperties
    <2>4. wakes' = IF static.lastSeen = e THEN wakes ELSE Append(wakes, x)
      BY <1>2 DEF x
    <2>5. QED
      BY <2>1, <2>3, <2>4
  <1>6. DOMAIN said' = DOMAIN said
    BY Zenon DEF NoteEndpoint
  <1>7. DOMAIN said' = {"publish", "fetch", "move"}
    BY <1>6 DEF Typed
  <1>8. QED
    BY <1>1, <1>2, <1>3, <1>4, <1>5, <1>7

\* What the two decisions have in common.
Decides(class, ran) ==
    /\ pc = "decide" /\ pc' = "top" /\ class \in Classes /\ ran \in BOOLEAN
    /\ NoteKlines(class, ran)
    /\ UNCHANGED <<epoch, poller, wakes>>

LEMMA DecisionsAre ==
    ASSUME Typed, Evaluate \/ RiskSkip
    PROVE  lastClass' \in Classes /\ \E class \in Classes, ran \in BOOLEAN : Decides(class, ran)
  <1>1. CASE Evaluate
    <2>1. PICK r \in Evaluations : lastClass' = r.class /\ NoteKlines(r.class, TRUE)
      BY <1>1 DEF Evaluate
    <2>2. r.class \in Classes
      BY <2>1, EvaluationsAreWhole DEF Classes
    <2>3. pc = "decide" /\ pc' = "top" /\ UNCHANGED <<epoch, poller, wakes>>
      BY <1>1 DEF Evaluate
    <2>4. Decides(r.class, TRUE)
      BY <2>1, <2>2, <2>3 DEF Decides
    <2>5. QED
      BY <2>1, <2>2, <2>4
  <1>2. CASE RiskSkip
    <2>1. lastClass \in Classes /\ lastClass' = lastClass
      BY <1>2 DEF RiskSkip, Typed
    <2>2. Decides(lastClass, FALSE)
      BY <1>2, <2>1 DEF RiskSkip, Decides
    <2>3. QED
      BY <2>1, <2>2
  <1>3. QED
    BY <1>1, <1>2

LEMMA InitTyped == Init => Typed
  <1> SUFFICES ASSUME Init PROVE Typed
    OBVIOUS
  <1>1. epoch = 0 /\ pc = "top" /\ lastClass = "none" /\ DOMAIN said = {"publish", "fetch", "move"}
    BY DEF Init
  <1>2. /\ publish = NewWindow /\ genuine = NewWindow /\ static = NewWindow /\ header = NewWindow
        /\ klines = <<>> /\ wakes = <<>>
    BY DEF Init
  <1>3. {publishAlarm, genuineAlarm, burstAlarm, moveAlarm} \subseteq AlarmSort
    BY NewTyped DEF Init
  <1>4. QED
    BY <1>1, <1>2, <1>3, NewTyped DEF Typed, Classes

LEMMA TypedStep == Typed /\ [Next]_vars => Typed'
  <1> SUFFICES ASSUME Typed, [Next]_vars PROVE Typed'
    OBVIOUS
  <1>1. CASE PoolGate
    <2>1. PICK e \in {epoch, epoch + 1}, isStatic \in BOOLEAN, failed \in BOOLEAN, ready \in BOOLEAN :
             e \in 1 .. LastEpoch /\ epoch' = e /\ NoteEndpoint(e, isStatic, errors + Cost(failed))
      BY <1>1 DEF PoolGate
    <2>2. e \in Nat /\ e > 0
      BY <2>1 DEF Typed
    <2>3. UNCHANGED gate /\ UNCHANGED klines
      BY <1>1 DEF PoolGate
    <2>4. /\ WindowTyped(static') /\ WindowTyped(header') /\ moveAlarm' \in AlarmSort
          /\ wakes' \in Seq(BOOLEAN \X BOOLEAN) /\ DOMAIN said' = {"publish", "fetch", "move"}
      BY <2>1, <2>2, EndpointMoves
    <2>5. QED
      BY <2>1, <2>2, <2>3, <2>4 DEF Typed, gate
  <1>2. CASE Evaluate \/ RiskSkip
    <2>1. PICK class \in Classes, ran \in BOOLEAN : Decides(class, ran)
      BY <1>2, DecisionsAre
    <2>2. lastClass' \in Classes
      BY <1>2, DecisionsAre
    <2>3. NoteKlines(class, ran) /\ pc' # "decide" /\ UNCHANGED <<epoch, static, header, moveAlarm, wakes>>
      BY <2>1 DEF Decides, poller
    <2>4. /\ WindowTyped(publish') /\ WindowTyped(genuine')
          /\ publishAlarm' \in AlarmSort /\ genuineAlarm' \in AlarmSort /\ burstAlarm' \in AlarmSort
          /\ klines' \in Seq(Decisions) /\ DOMAIN said' = {"publish", "fetch", "move"}
      BY <2>3, DecisionMoves
    <2>5. QED
      BY <2>2, <2>3, <2>4 DEF Typed
  <1>3. CASE Restart
    <2>1. epoch' = epoch /\ pc' = "top" /\ lastClass' = "none" /\ DOMAIN said' = DOMAIN said
      BY <1>3 DEF Restart
    <2>2. /\ publish' = NewWindow /\ genuine' = NewWindow /\ static' = NewWindow /\ header' = NewWindow
          /\ klines' = <<>> /\ wakes' = <<>>
      BY <1>3 DEF Restart
    <2>3. {publishAlarm', genuineAlarm', burstAlarm', moveAlarm'} \subseteq AlarmSort
      BY <1>3, NewTyped DEF Restart
    <2>4. QED
      BY <2>1, <2>2, <2>3, NewTyped DEF Typed, Classes
  <1>4. CASE UNCHANGED vars
    BY <1>4 DEF Typed, vars, gate, poller, history
  <1>5. QED
    BY <1>1, <1>2, <1>3, <1>4 DEF Next

-----------------------------------------------------------------------------
(* The rounds that were seen.                                              *)

Seen ==
    /\ publish.lastSeen <= epoch /\ genuine.lastSeen = publish.lastSeen
    /\ \A i \in DOMAIN klines : klines[i].of \in 1 .. publish.lastSeen
    /\ publish.lastSeen # 0 => \E i \in DOMAIN klines : klines[i].of = publish.lastSeen
    /\ header.lastSeen = static.lastSeen

\* A decision is one more of klines, of a round that is new unless the window has seen it.
LEMMA DecisionsAdd ==
    ASSUME Typed, NEW class, NEW ran, Decides(class, ran)
    PROVE  /\ Len(klines) \in Nat /\ Len(klines') = Len(klines) + 1
           /\ DOMAIN klines = 1 .. Len(klines) /\ DOMAIN klines' = 1 .. Len(klines) + 1
           /\ \A i \in DOMAIN klines : klines'[i] = klines[i]
           /\ klines'[Len(klines) + 1].of = epoch /\ klines'[Len(klines) + 1].class = class
  <1> DEFINE k == [of |-> epoch, class |-> class, ran |-> ran]
             n == Len(klines)
  <1>1. klines' = Append(klines, k)
    BY DEF Decides, NoteKlines
  <1>2. klines \in Seq(Decisions) /\ klines' \in Seq(Decisions)
    <2>1. class \in Classes /\ ran \in BOOLEAN /\ epoch \in Nat
      BY DEF Decides, Typed
    <2>2. k \in Decisions
      BY <2>1 DEF Decisions
    <2> HIDE DEF k
    <2>3. klines \in Seq(Decisions)
      BY DEF Typed
    <2>4. QED
      BY <1>1, <2>2, <2>3, AppendProperties
  <1>3. k.of = epoch /\ k.class = class /\ k \in Decisions
    <2>1. class \in Classes /\ ran \in BOOLEAN /\ epoch \in Nat
      BY DEF Decides, Typed
    <2>2. QED
      BY <2>1 DEF Decisions
  <1> HIDE DEF k
  <1>4. /\ n \in Nat /\ DOMAIN klines = 1 .. n
        /\ Len(klines') = n + 1 /\ DOMAIN klines' = 1 .. Len(klines')
        /\ \A i \in 1 .. n : klines'[i] = klines[i]
        /\ klines'[n + 1] = k
    BY <1>1, <1>2, <1>3, AppendProperties, LenProperties
  <1>5. QED
    BY <1>3, <1>4

LEMMA SeenStep == Typed /\ Seen /\ [Next]_vars => Seen'
  <1> SUFFICES ASSUME Typed, Seen, [Next]_vars PROVE Seen'
    OBVIOUS
  <1>0. epoch \in Nat /\ publish.lastSeen \in Nat
    BY DEF Typed, WindowTyped
  <1>1. CASE PoolGate
    <2>1. PICK e \in {epoch, epoch + 1}, isStatic \in BOOLEAN, failed \in BOOLEAN, ready \in BOOLEAN :
             e \in 1 .. LastEpoch /\ epoch' = e /\ NoteEndpoint(e, isStatic, errors + Cost(failed))
      BY <1>1 DEF PoolGate
    <2>2. e \in Nat /\ epoch <= e
      BY <1>0, <2>1
    <2>3. UNCHANGED <<publish, genuine, klines>>
      BY <1>1 DEF PoolGate, gate
    <2>4. static'.lastSeen = e /\ header'.lastSeen = e
      <3>1. WindowTyped(static) /\ WindowTyped(header)
        BY DEF Typed
      <3>2. PICK f \in BOOLEAN : /\ static' = Observe(static, isStatic, e, StaticEnter, StaticExit)
                                 /\ header' = Observe(header, f, e, HeaderEnter, HeaderExit)
        BY <2>1, <2>2, EndpointMoves
      <3>3. QED
        BY <2>2, <3>1, <3>2, ObserveMoves
    <2>5. publish.lastSeen <= epoch'
      BY <1>0, <2>1, <2>2 DEF Seen
    <2>6. QED
      BY <2>3, <2>4, <2>5 DEF Seen
  <1>2. CASE Evaluate \/ RiskSkip
    <2>1. PICK class \in Classes, ran \in BOOLEAN : Decides(class, ran)
      BY <1>2, DecisionsAre
    <2> DEFINE n == Len(klines) + 1
    <2>2. publish'.lastSeen = epoch /\ genuine'.lastSeen = epoch
      <3> DEFINE delay == class = "publish_delay"
                 failure == class = "fetch_failure"
      <3>1. WindowTyped(publish) /\ WindowTyped(genuine) /\ delay \in BOOLEAN /\ failure \in BOOLEAN
        BY DEF Typed
      <3>2. publish' = Observe(publish, delay, epoch, PublishEnter, PublishExit)
        BY <2>1 DEF Decides, NoteKlines
      <3>3. genuine' = Observe(genuine, failure, epoch, GenuineEnter, GenuineExit)
        BY <2>1 DEF Decides, NoteKlines
      <3> HIDE DEF delay, failure
      <3>4. QED
        BY <1>0, <3>1, <3>2, <3>3, ObserveMoves
    <2>3. epoch' = epoch /\ epoch > 0 /\ UNCHANGED <<static, header>>
      BY <2>1 DEF Decides, Typed, poller
    <2>4. /\ n \in Nat /\ n > 0 /\ DOMAIN klines = 1 .. n - 1 /\ DOMAIN klines' = 1 .. n
          /\ \A i \in DOMAIN klines : klines'[i] = klines[i]
          /\ klines'[n].of = epoch
      BY <2>1, DecisionsAdd
    <2> HIDE DEF n
    <2>5. ASSUME NEW i \in DOMAIN klines' PROVE klines'[i].of \in 1 .. epoch
      <3>1. CASE i = n
        BY <1>0, <2>3, <2>4, <3>1
      <3>2. CASE i # n
        <4>1. i \in DOMAIN klines
          BY <2>4, <3>2
        <4>2. klines'[i].of \in 1 .. publish.lastSeen
          BY <2>4, <4>1 DEF Seen
        <4>3. publish.lastSeen <= epoch
          BY DEF Seen
        <4>4. QED
          BY <1>0, <4>2, <4>3
      <3>3. QED
        BY <3>1, <3>2
    <2>6. n \in DOMAIN klines' /\ klines'[n].of = epoch
      BY <2>4
    <2>7. epoch <= epoch' /\ UNCHANGED <<static, header>>
      BY <1>0, <2>3
    <2>8. QED
      BY <2>2, <2>5, <2>6, <2>7 DEF Seen
  <1>3. CASE Restart
    <2>1. /\ publish' = NewWindow /\ genuine' = NewWindow /\ static' = NewWindow /\ header' = NewWindow
          /\ klines' = <<>> /\ epoch' = epoch
      BY <1>3 DEF Restart
    <2>2. DOMAIN klines' = {}
      BY <2>1
    <2>3. QED
      BY <1>0, <2>1, <2>2, NewTyped DEF Seen
  <1>4. CASE UNCHANGED vars
    BY <1>4 DEF Seen, vars, gate, poller, history
  <1>5. QED
    BY <1>1, <1>2, <1>3, <1>4 DEF Next

-----------------------------------------------------------------------------
(* The windows count the rounds.                                           *)

LEMMA FirstsFinite ==
    ASSUME Typed
    PROVE  /\ Firsts \in SUBSET Nat /\ IsFiniteSet(Firsts) /\ Firsts \subseteq DOMAIN klines
           /\ \A i \in Firsts : i < Len(klines) + 1
  <1>1. Len(klines) \in Nat /\ DOMAIN klines = 1 .. Len(klines)
    BY LenProperties DEF Typed
  <1>2. Firsts \subseteq 1 .. Len(klines)
    BY <1>1 DEF Firsts
  <1>3. IsFiniteSet(1 .. Len(klines))
    BY <1>1, FS_Interval
  <1>4. IsFiniteSet(Firsts)
    BY <1>2, <1>3, FS_Subset
  <1>5. QED
    BY <1>1, <1>2, <1>4

\* A decision about a round that the window has not seen is the first of its round, and
\* any other is not.
LEMMA FirstsGrow ==
    ASSUME Typed, Seen, NEW class, NEW ran, Decides(class, ran)
    PROVE  Firsts' = IF publish.lastSeen = epoch THEN Firsts ELSE Firsts \cup {Len(klines) + 1}
  <1> DEFINE n == Len(klines) + 1
  <1>1. /\ n \in Nat /\ n > 0 /\ DOMAIN klines = 1 .. n - 1 /\ DOMAIN klines' = 1 .. n
        /\ \A i \in 1 .. n - 1 : klines'[i] = klines[i]
        /\ klines'[n].of = epoch
    BY DecisionsAdd
  <1>2. epoch \in Nat /\ epoch > 0 /\ publish.lastSeen \in Nat
    BY DEF Typed, WindowTyped, Decides
  <1> HIDE DEF n
  <1>3. ASSUME NEW i \in 1 .. n - 1 PROVE i \in Firsts' <=> i \in Firsts
    <2>1. \A j \in 1 .. i - 1 : j \in 1 .. n - 1
      BY <1>1
    <2>2. \A j \in 1 .. i - 1 : klines'[j] = klines[j]
      BY <1>1, <2>1
    <2>3. klines'[i] = klines[i] /\ i \in DOMAIN klines /\ i \in DOMAIN klines'
      BY <1>1
    <2>4. QED
      BY <2>2, <2>3 DEF Firsts
  <1>4. n \in Firsts' <=> publish.lastSeen # epoch
    <2>1. n \in Firsts' <=> \A j \in 1 .. n - 1 : klines[j].of # epoch
      BY <1>1 DEF Firsts
    <2>2. CASE publish.lastSeen = epoch
      <3>1. \E j \in 1 .. n - 1 : klines[j].of = epoch
        BY <1>1, <1>2, <2>2 DEF Seen
      <3>2. QED
        BY <2>1, <2>2, <3>1
    <2>3. CASE publish.lastSeen # epoch
      <3>1. publish.lastSeen < epoch
        BY <1>2, <2>3 DEF Seen
      <3>2. \A j \in 1 .. n - 1 : klines[j].of \in 1 .. publish.lastSeen
        BY <1>1 DEF Seen
      <3>3. \A j \in 1 .. n - 1 : klines[j].of # epoch
        BY <1>2, <3>1, <3>2
      <3>4. QED
        BY <2>1, <2>3, <3>3
    <2>4. QED
      BY <2>2, <2>3
  <1>5. Firsts \subseteq 1 .. n - 1 /\ Firsts' \subseteq 1 .. n
    BY <1>1 DEF Firsts
  <1>6. \A i \in 1 .. n : i = n \/ i \in 1 .. n - 1
    BY <1>1
  <1>7. n \notin 1 .. n - 1
    BY <1>1
  <1>8. Firsts' = IF publish.lastSeen = epoch THEN Firsts ELSE Firsts \cup {n}
    <2> DEFINE F == Firsts
    <2>1. PICK G : G = Firsts'
      OBVIOUS
    <2>2. /\ F \subseteq 1 .. n - 1 /\ G \subseteq 1 .. n
          /\ \A i \in 1 .. n - 1 : i \in G <=> i \in F
          /\ n \in G <=> publish.lastSeen # epoch
      BY <1>3, <1>4, <1>5, <2>1
    <2> HIDE DEF F
    <2>3. \A i : i \in F => i \in 1 .. n - 1
      BY <2>2
    <2>4. \A i : i \in G => i \in 1 .. n - 1 \/ i = n
      BY <1>6, <2>2
    <2>5. CASE publish.lastSeen = epoch
      <3>1. \A i : i \in G <=> i \in F
        BY <2>2, <2>3, <2>4, <2>5
      <3>2. G = F
        BY <3>1
      <3>3. QED
        BY <2>1, <2>5, <3>2 DEF F
    <2>6. CASE publish.lastSeen # epoch
      <3>1. \A i : i \in G <=> i \in F \cup {n}
        BY <2>2, <2>3, <2>4, <2>6
      <3>2. G = F \cup {n}
        BY <3>1
      <3>3. QED
        BY <2>1, <2>6, <3>2 DEF F
    <2>7. QED
      BY <2>5, <2>6
  <1>9. QED
    BY <1>8 DEF n

\* A decision keeps each of the two windows true to klines.
LEMMA CountsNext ==
    ASSUME Typed, Seen, NEW class \in Classes, NEW ran, Decides(class, ran),
           NEW w, WindowTyped(w), w.lastSeen = publish.lastSeen,
           NEW v, NEW of, NEW enter, NEW exit, v = Observe(w, class = of, epoch, enter, exit),
           MatchesOf(Firsts, klines, w.hits, of)
    PROVE  MatchesOf(Firsts', klines', v.hits, of)
  <1> DEFINE F == Firsts
             ks == klines
             n == Len(klines) + 1
             hit == class = of
  <1>1. F \in SUBSET Nat /\ IsFiniteSet(F) /\ F \subseteq DOMAIN ks /\ \A i \in F : i < n
    BY FirstsFinite
  <1>2. /\ n \in Nat /\ n > 0 /\ \A i \in DOMAIN ks : klines'[i] = ks[i]
        /\ klines'[n].class = class
    BY DecisionsAdd
  <1>3. epoch \in Nat /\ hit \in BOOLEAN
    BY DEF Typed
  <1>4. PICK ls : ls = klines'
    OBVIOUS
  <1>5. \A i \in F : ls[i] = ks[i]
    BY <1>1, <1>2, <1>4
  <1> DEFINE hits == w.hits
  <1>6. hits \in Seq(BOOLEAN) /\ Len(hits) <= Rounds
    BY DEF WindowTyped
  <1> HIDE DEF F, ks, n
  <1>7. CASE publish.lastSeen = epoch
    <2>1. Firsts' = F
      BY <1>7, FirstsGrow DEF F
    <2>2. v = w
      BY <1>7 DEF Observe
    <2>3. MatchesOf(F, ls, hits, of)
      <3>1. MatchesOf(F, ks, hits, of)
        BY DEF F, ks
      <3>2. \A i \in LastOf(F) : ls[i] = ks[i]
        BY <1>5 DEF LastOf
      <3> HIDE DEF hits
      <3>3. QED
        BY <3>1, <3>2, Zenon DEF MatchesOf
    <2>4. QED
      BY <1>4, <2>1, <2>2, <2>3
  <1>8. CASE publish.lastSeen # epoch
    <2>1. Firsts' = F \cup {n}
      BY <1>8, FirstsGrow DEF F, n
    <2>2. v.hits = Recent(Append(hits, hit))
      <3>1. w.lastSeen # epoch /\ v = Observe(w, hit, epoch, enter, exit)
        BY <1>8
      <3> HIDE DEF hit
      <3>2. QED
        BY <1>3, <3>1, ObserveMoves
    <2>3. hit = (ls[n].class = of)
      BY <1>2, <1>4
    <2>4. MatchesOf(F, ks, hits, of)
      BY DEF F, ks
    <2> HIDE DEF hit, hits
    <2>5. MatchesOf(F \cup {n}, ls, Recent(Append(hits, ls[n].class = of)), of)
      BY <1>1, <1>2, <1>5, <1>6, <2>4, PushMatches
    <2>6. v.hits = Recent(Append(hits, ls[n].class = of))
      BY <2>2, <2>3
    <2>7. QED
      BY <1>4, <2>1, <2>5, <2>6
  <1>9. QED
    BY <1>7, <1>8

\* One of the two windows of the endpoint, read off the history.
Column(w, c) == [i \in DOMAIN Recent(w) |-> Recent(w)[i][c]]

LEMMA ColumnIs ==
    ASSUME NEW w \in Seq(BOOLEAN \X BOOLEAN), NEW c \in {1, 2}
    PROVE  LET n == IF Len(w) < Rounds THEN Len(w) ELSE Rounds
           IN  /\ n \in Nat /\ Len(w) \in Nat
               /\ Column(w, c) = [i \in 1 .. n |-> w[Len(w) - n + i][c]]
               /\ \A i \in 1 .. n : w[Len(w) - n + i][c] \in BOOLEAN
  <1> DEFINE r == Recent(w)
             l == Len(w)
             n == IF l < Rounds THEN l ELSE Rounds
  <1>1. r \in Seq(BOOLEAN \X BOOLEAN) /\ Len(r) = n /\ n \in Nat /\ \A i \in 1 .. n : r[i] = w[l - n + i]
    BY RecentIs
  <1>2. l \in Nat
    BY LenProperties
  <1> HIDE DEF r, n, l
  <1>3. DOMAIN r = 1 .. n /\ \A i \in 1 .. n : r[i] \in BOOLEAN \X BOOLEAN
    BY <1>1, LenProperties, ElementOfSeq
  <1>4. Column(w, c) = [i \in 1 .. n |-> r[i][c]]
    BY <1>3 DEF Column, r
  <1>5. \A i \in 1 .. n : w[l - n + i] \in BOOLEAN \X BOOLEAN /\ r[i][c] = w[l - n + i][c]
    BY <1>1, <1>3
  <1>6. \A i \in 1 .. n : w[l - n + i][c] \in BOOLEAN
    BY <1>5
  <1>7. Column(w, c) = [i \in 1 .. n |-> w[l - n + i][c]]
    BY <1>4, <1>5
  <1>8. QED
    BY <1>1, <1>2, <1>6, <1>7 DEF n, l

LEMMA ColumnPush ==
    ASSUME NEW w \in Seq(BOOLEAN \X BOOLEAN), NEW x \in BOOLEAN \X BOOLEAN, NEW c \in {1, 2}
    PROVE  Recent(Append(Column(w, c), x[c])) = Column(Append(w, x), c)
  <1> DEFINE l == Len(w)
             m == IF l < Rounds THEN l ELSE Rounds
             n == IF m < Rounds THEN m + 1 ELSE Rounds
             a == Append(w, x)
             col == Column(w, c)
             t == Recent(Append(col, x[c]))
  <1>1. m \in Nat /\ l \in Nat /\ col = [i \in 1 .. m |-> w[l - m + i][c]]
        /\ \A i \in 1 .. m : w[l - m + i][c] \in BOOLEAN
    BY ColumnIs
  <1>2. Rounds \in Nat /\ Rounds > 0 /\ m <= Rounds /\ m <= l
    <2>1. Rounds \in Nat /\ Rounds > 0
      BY Constants
    <2> HIDE DEF l
    <2>2. QED
      BY <1>1, <2>1
  <1>3. a \in Seq(BOOLEAN \X BOOLEAN) /\ Len(a) = l + 1 /\ a[l + 1] = x /\ \A i \in 1 .. l : a[i] = w[i]
    BY AppendProperties
  <1> HIDE DEF col, a
  <1>4. col \in Seq(BOOLEAN) /\ Len(col) = m /\ x[c] \in BOOLEAN
    <2>1. col \in [1 .. m -> BOOLEAN]
      <3> HIDE DEF m, l
      <3>1. QED
        BY <1>1
    <2>2. col \in Seq(BOOLEAN)
      <3>1. m \in Nat
        BY <1>1
      <3> HIDE DEF m
      <3>2. QED
        BY <2>1, <3>1
    <2>3. DOMAIN col = 1 .. m
      BY <2>1
    <2> HIDE DEF m
    <2>4. QED
      BY <1>1, <2>2, <2>3, LenProperties
  <1>5. Pushed(col, x[c], t) /\ t \in Seq(BOOLEAN)
    <2> HIDE DEF m
    <2>1. QED
      BY <1>2, <1>4, RecentAppend
  <1> HIDE DEF t
  <1>6. /\ Len(t) = n /\ n \in Nat /\ n > 0 /\ t[n] = x[c]
        /\ \A i \in 1 .. n - 1 : t[i] = col[m + 1 - n + i]
    <2>1. Len(col) = m
      BY <1>4
    <2> HIDE DEF m
    <2>2. QED
      BY <1>5, <2>1 DEF Pushed
  <1>7. n = IF l + 1 < Rounds THEN l + 1 ELSE Rounds
    <2> HIDE DEF l
    <2>1. QED
      BY <1>1, <1>2
  <1>8. Column(a, c) = [i \in 1 .. n |-> a[l + 1 - n + i][c]]
    <2> DEFINE k == IF Len(a) < Rounds THEN Len(a) ELSE Rounds
    <2>1. Column(a, c) = [i \in 1 .. k |-> a[Len(a) - k + i][c]]
      BY <1>3, ColumnIs
    <2>2. k = n /\ Len(a) = l + 1
      BY <1>3, <1>7
    <2> DEFINE g == Len(a)
    <2>3. Column(a, c) = [i \in 1 .. k |-> a[g - k + i][c]] /\ g = l + 1
      BY <2>1, <2>2
    <2> HIDE DEF k, n, l, g
    <2>4. \A i \in 1 .. n : g - k + i = l + 1 - n + i
      <3>1. g = l + 1 /\ k = n /\ l \in Nat /\ n \in Nat
        BY <1>1, <1>6, <2>2, <2>3
      <3>2. QED
        BY <3>1
    <2>5. 1 .. k = 1 .. n
      BY <2>2
    <2>6. QED
      BY <2>3, <2>4, <2>5
  <1> HIDE DEF l
  <1>9. m + 1 >= n /\ n <= l + 1
    BY <1>1, <1>2
  <1> HIDE DEF m, n
  <1>10. ASSUME NEW i \in 1 .. n PROVE t[i] = a[l + 1 - n + i][c]
    <2>1. CASE i = n
      <3>1. l + 1 - n + i = l + 1
        BY <1>1, <1>6, <2>1
      <3>2. QED
        BY <1>3, <1>6, <2>1, <3>1
    <2>2. CASE i # n
      <3> DEFINE j == m + 1 - n + i
                 h == l + 1 - n + i
      <3>1. i \in 1 .. n - 1 /\ j \in 1 .. m /\ l - m + j = h /\ h \in 1 .. l
        BY <1>1, <1>2, <1>6, <1>9, <2>2
      <3>2. t[i] = col[j]
        BY <1>6, <3>1
      <3> HIDE DEF j, h
      <3>3. col[j] = w[h][c]
        BY <1>1, <3>1
      <3>4. a[h] = w[h]
        BY <1>3, <3>1
      <3>5. QED
        BY <3>2, <3>3, <3>4 DEF h
    <2>3. QED
      BY <2>1, <2>2
  <1>11. DOMAIN t = 1 .. n /\ t = [i \in 1 .. n |-> t[i]]
    <2>1. DOMAIN t = 1 .. Len(t)
      BY <1>5, LenProperties
    <2>2. t = [i \in DOMAIN t |-> t[i]]
      BY <1>5, <1>6, LenProperties
    <2>3. QED
      BY <1>6, <2>1, <2>2
  <1>12. t = [i \in 1 .. n |-> a[l + 1 - n + i][c]]
    BY <1>10, <1>11, Zenon
  <1>13. QED
    BY <1>8, <1>12 DEF t, a, col

Counted ==
    /\ MatchesOf(Firsts, klines, publish.hits, "publish_delay")
    /\ MatchesOf(Firsts, klines, genuine.hits, "fetch_failure")
    /\ static.hits = Column(wakes, 1) /\ header.hits = Column(wakes, 2)

LEMMA NewCounted ==
    /\ klines = <<>> => Firsts = {}
    /\ \A ks, class : MatchesOf({}, ks, <<>>, class)
    /\ Column(<<>>, 1) = <<>> /\ Column(<<>>, 2) = <<>>
  <1>1. klines = <<>> => Firsts = {}
    BY DEF Firsts
  <1>2. \A ks, class : MatchesOf({}, ks, <<>>, class)
    <2>1. LastOf({}) = {}
      BY DEF LastOf
    <2>2. Len(<<>>) = 0 /\ 1 .. 0 = {}
      OBVIOUS
    <2>3. QED
      BY <2>1, <2>2 DEF MatchesOf
  <1>3. ASSUME NEW c \in {1, 2} PROVE Column(<<>>, c) = <<>>
    <2> DEFINE e == <<>>
    <2>1. e \in Seq(BOOLEAN \X BOOLEAN) /\ Len(e) = 0
      BY NewTyped
    <2> HIDE DEF e
    <2>2. Recent(e) \in Seq(BOOLEAN \X BOOLEAN) /\ Len(Recent(e)) = 0
      <3> DEFINE n == IF Len(e) < Rounds THEN Len(e) ELSE Rounds
      <3>1. Recent(e) \in Seq(BOOLEAN \X BOOLEAN) /\ Len(Recent(e)) = n
        BY <2>1, RecentIs
      <3>2. n = 0
        BY <2>1, Constants
      <3> HIDE DEF n
      <3>3. QED
        BY <3>1, <3>2
    <2>3. DOMAIN Recent(e) = {}
      BY <2>2, LenProperties
    <2>4. Column(e, c) = <<>>
      BY <2>3 DEF Column
    <2>5. QED
      BY <2>4 DEF e
  <1>4. QED
    BY <1>1, <1>2, <1>3

LEMMA CountedStep == Typed /\ Seen /\ Counted /\ [Next]_vars => Counted'
  <1> SUFFICES ASSUME Typed, Seen, Counted, [Next]_vars PROVE Counted'
    OBVIOUS
  <1>1. CASE PoolGate
    <2>1. PICK e \in {epoch, epoch + 1}, isStatic \in BOOLEAN, odds \in BOOLEAN, ready \in BOOLEAN :
             e \in 1 .. LastEpoch /\ epoch' = e /\ NoteEndpoint(e, isStatic, errors + Cost(odds))
      BY <1>1 DEF PoolGate
    <2>2. e \in Nat
      BY <2>1 DEF Typed
    <2>3. UNCHANGED <<publish, genuine, klines>>
      BY <1>1 DEF PoolGate, gate
    <2>4. PICK failed \in BOOLEAN :
             /\ static' = Observe(static, isStatic, e, StaticEnter, StaticExit)
             /\ header' = Observe(header, failed, e, HeaderEnter, HeaderExit)
             /\ wakes' = IF static.lastSeen = e THEN wakes ELSE Append(wakes, <<isStatic, failed>>)
      BY <2>1, <2>2, EndpointMoves
    <2>5. Firsts' = Firsts
      BY <2>3 DEF Firsts
    <2>6. static'.hits = Column(wakes', 1) /\ header'.hits = Column(wakes', 2)
      <3>1. CASE static.lastSeen = e
        <4>1. header.lastSeen = e
          BY <3>1 DEF Seen
        <4>2. static' = static /\ header' = header /\ wakes' = wakes
          BY <2>4, <3>1, <4>1 DEF Observe
        <4>3. QED
          BY <4>2 DEF Counted
      <3>2. CASE static.lastSeen # e
        <4> DEFINE x == <<isStatic, failed>>
        <4>1. header.lastSeen # e /\ WindowTyped(static) /\ WindowTyped(header)
          BY <3>2 DEF Seen, Typed
        <4>2. static'.hits = Recent(Append(static.hits, isStatic))
          BY <2>2, <2>4, <3>2, <4>1, ObserveMoves
        <4>3. header'.hits = Recent(Append(header.hits, failed))
          BY <2>2, <2>4, <4>1, ObserveMoves
        <4>4. x \in BOOLEAN \X BOOLEAN /\ x[1] = isStatic /\ x[2] = failed
          OBVIOUS
        <4>5. wakes' = Append(wakes, x) /\ wakes \in Seq(BOOLEAN \X BOOLEAN)
          BY <2>4, <3>2 DEF Typed
        <4> HIDE DEF x
        <4>6. /\ Recent(Append(Column(wakes, 1), x[1])) = Column(Append(wakes, x), 1)
              /\ Recent(Append(Column(wakes, 2), x[2])) = Column(Append(wakes, x), 2)
          BY <4>4, <4>5, ColumnPush
        <4>7. QED
          BY <4>2, <4>3, <4>4, <4>5, <4>6 DEF Counted
      <3>3. QED
        BY <3>1, <3>2
    <2>7. QED
      BY <2>3, <2>5, <2>6 DEF Counted
  <1>2. CASE Evaluate \/ RiskSkip
    <2>1. PICK class \in Classes, ran \in BOOLEAN : Decides(class, ran)
      BY <1>2, DecisionsAre
    <2>2. publish' = Observe(publish, class = "publish_delay", epoch, PublishEnter, PublishExit)
      BY <2>1 DEF Decides, NoteKlines
    <2>3. genuine' = Observe(genuine, class = "fetch_failure", epoch, GenuineEnter, GenuineExit)
      BY <2>1 DEF Decides, NoteKlines
    <2>4. WindowTyped(publish) /\ WindowTyped(genuine) /\ genuine.lastSeen = publish.lastSeen
      BY DEF Typed, Seen
    <2>5. MatchesOf(Firsts', klines', publish'.hits, "publish_delay")
      <3>1. PICK v : v = publish'
        OBVIOUS
      <3>2. v = Observe(publish, class = "publish_delay", epoch, PublishEnter, PublishExit)
        BY <2>2, <3>1
      <3>3. MatchesOf(Firsts', klines', v.hits, "publish_delay")
        BY <2>1, <2>4, <3>2, CountsNext DEF Counted
      <3>4. QED
        BY <3>1, <3>3
    <2>6. MatchesOf(Firsts', klines', genuine'.hits, "fetch_failure")
      <3>1. PICK v : v = genuine'
        OBVIOUS
      <3>2. v = Observe(genuine, class = "fetch_failure", epoch, GenuineEnter, GenuineExit)
        BY <2>3, <3>1
      <3>3. MatchesOf(Firsts', klines', v.hits, "fetch_failure")
        BY <2>1, <2>4, <3>2, CountsNext DEF Counted
      <3>4. QED
        BY <3>1, <3>3
    <2>7. UNCHANGED <<static, header, wakes>>
      BY <2>1 DEF Decides, poller
    <2>8. QED
      BY <2>5, <2>6, <2>7 DEF Counted
  <1>3. CASE Restart
    <2>1. /\ publish' = NewWindow /\ genuine' = NewWindow /\ static' = NewWindow /\ header' = NewWindow
          /\ klines' = <<>> /\ wakes' = <<>>
      BY <1>3 DEF Restart
    <2>2. Firsts' = {}
      BY <2>1 DEF Firsts
    <2>3. QED
      BY <2>1, <2>2, NewCounted, NewTyped DEF Counted
  <1>4. CASE UNCHANGED vars
    <2>1. UNCHANGED <<publish, genuine, static, header, klines, wakes>>
      BY <1>4 DEF vars, gate, poller, history
    <2>2. Firsts' = Firsts
      BY <2>1 DEF Firsts
    <2>3. QED
      BY <2>1, <2>2 DEF Counted
  <1>5. QED
    BY <1>1, <1>2, <1>3, <1>4 DEF Next

LEMMA CountedInvariant == Spec => [](Typed /\ Seen /\ Counted)
  <1>1. Init => Typed /\ Seen /\ Counted
    <2> SUFFICES ASSUME Init PROVE Typed /\ Seen /\ Counted
      OBVIOUS
    <2>1. /\ publish = NewWindow /\ genuine = NewWindow /\ static = NewWindow /\ header = NewWindow
          /\ klines = <<>> /\ wakes = <<>> /\ epoch = 0
      BY DEF Init
    <2>2. Typed
      BY InitTyped
    <2>3. Seen
      <3>1. DOMAIN klines = {}
        BY <2>1
      <3>2. QED
        BY <2>1, <3>1, NewTyped DEF Seen
    <2>4. Counted
      BY <2>1, NewCounted, NewTyped DEF Counted
    <2>5. QED
      BY <2>2, <2>3, <2>4
  <1>2. Typed /\ Seen /\ Counted /\ [Next]_vars => (Typed /\ Seen /\ Counted)'
    BY TypedStep, SeenStep, CountedStep
  <1>3. QED
    BY <1>1, <1>2, PTL DEF Spec

\* Every window holds the last rounds of this process, each once (RateWindow.observe and
\* its callers in engine.py), whatever the rates and however long the windows are.
THEOREM WindowsSound == Spec => []WindowsCountRounds
  <1>1. Typed /\ Seen /\ Counted => WindowsCountRounds
    <2> SUFFICES ASSUME Typed, Seen, Counted PROVE WindowsCountRounds
      OBVIOUS
    <2>1. publish.hits \in Seq(BOOLEAN) /\ genuine.hits \in Seq(BOOLEAN)
      BY DEF Typed, WindowTyped
    <2>2. Firsts \in SUBSET Nat /\ IsFiniteSet(Firsts)
      BY FirstsFinite
    <2>3. /\ Tells(publish.hits, Firsts, "publish_delay")
          /\ Tells(genuine.hits, Firsts, "fetch_failure")
      <3> DEFINE F == Firsts
                 p == publish.hits
                 g == genuine.hits
      <3>1. MatchesOf(F, klines, p, "publish_delay") /\ MatchesOf(F, klines, g, "fetch_failure")
        BY DEF Counted
      <3>2. F \in SUBSET Nat /\ IsFiniteSet(F) /\ p \in Seq(BOOLEAN) /\ g \in Seq(BOOLEAN)
        BY <2>1, <2>2
      <3> HIDE DEF F, p, g
      <3>3. Tells(p, F, "publish_delay") /\ Tells(g, F, "fetch_failure")
        BY <3>1, <3>2, MatchesTell
      <3>4. QED
        BY <3>3 DEF F, p, g
    <2>4. /\ static.hits = [i \in DOMAIN Recent(wakes) |-> Recent(wakes)[i][1]]
          /\ header.hits = [i \in DOMAIN Recent(wakes) |-> Recent(wakes)[i][2]]
      BY Zenon DEF Counted, Column
    <2>5. QED
      BY <2>3, <2>4, Zenon DEF WindowsCountRounds
  <1>2. QED
    BY <1>1, CountedInvariant, PTL

-----------------------------------------------------------------------------
(* The alarms follow the rates.                                            *)

LEMMA HitsTyped ==
    ASSUME NEW hits \in Seq(BOOLEAN)
    PROVE  Hits(hits) \in Nat
  <1>1. Len(hits) \in Nat /\ DOMAIN hits = 1 .. Len(hits)
    BY LenProperties
  <1>2. IsFiniteSet(1 .. Len(hits))
    BY <1>1, FS_Interval
  <1>3. IsFiniteSet({i \in DOMAIN hits : hits[i]})
    BY <1>1, <1>2, FS_Subset
  <1>4. QED
    BY <1>3, FS_CardinalityType DEF Hits

\* Who is above the one rate is above the other.
LEMMA ReachesLower ==
    ASSUME NEW hits \in Seq(BOOLEAN), NEW enter \in Nat, NEW exit \in Nat, exit <= enter,
           Reaches(hits, enter)
    PROVE  Reaches(hits, exit)
  <1> DEFINE h == Hits(hits)
             l == Len(hits)
  <1>1. h \in Nat /\ l \in Nat
    BY HitsTyped, LenProperties
  <1>2. 1000 * h >= enter * l
    BY DEF Reaches
  <1> HIDE DEF h, l
  <1> DEFINE d == enter - exit
  <1>3. d \in Nat /\ enter = exit + d
    OBVIOUS
  <1> HIDE DEF d
  <1>4. enter * l = exit * l + d * l /\ d * l >= 0 /\ exit * l \in Int /\ d * l \in Int
    BY <1>1, <1>3
  <1>5. 1000 * h >= exit * l
    BY <1>1, <1>2, <1>4
  <1>6. QED
    BY <1>5 DEF Reaches, h, l

\* An alarm of a window says whether the window is over the bar, once it is filled.
Rate(a, w, enter) ==
    /\ ~Filled(w) => ~w.over /\ ~a.alerting
    /\ Filled(w) => (a.alerting <=> w.over) /\ (Reaches(w.hits, enter) => w.over)
    /\ a.lastSeen <= w.lastSeen
    /\ a.lastSeen = w.lastSeen /\ a.lastSeen # 0 => a.alerting
    /\ a.alerting <=> a.lastAlert # Never

LEMMA RateNext ==
    ASSUME NEW a \in AlarmSort, NEW b \in AlarmSort, NEW w, WindowTyped(w), NEW v,
           NEW e \in Nat, e > 0, w.lastSeen <= e,
           NEW hit \in BOOLEAN, NEW enter \in Nat, NEW exit \in Nat, exit <= enter,
           v = Observe(w, hit, e, enter, exit), IsTold(a, b, v, e), Rate(a, w, enter)
    PROVE  /\ Rate(b, v, enter)
           /\ a.alerting /\ ~b.alerting => ~Reaches(v.hits, exit)
  <1> DEFINE in == Reaches(v.hits, enter)
             out == Reaches(v.hits, exit)
  <1>1. WindowTyped(v) /\ v.lastSeen = e
    BY ObserveMoves
  <1>2. /\ w.over \in BOOLEAN /\ v.over \in BOOLEAN /\ w.lastSeen \in Nat
        /\ v.hits \in Seq(BOOLEAN) /\ w.hits \in Seq(BOOLEAN)
    BY <1>1 DEF WindowTyped
  <1>3. in \in BOOLEAN /\ out \in BOOLEAN /\ (in => out)
    <2>1. in \in BOOLEAN /\ out \in BOOLEAN
      BY DEF Reaches
    <2>2. in => out
      BY <1>2, ReachesLower
    <2>3. QED
      BY <2>1, <2>2
  <1>4. a.lastSeen \in Nat /\ a.alerting \in BOOLEAN /\ b.alerting \in BOOLEAN /\ a.streak \in Nat
    BY DEF AlarmSort
  <1>5. /\ Filled(v) \in BOOLEAN /\ Filled(w) \in BOOLEAN
        /\ Filled(w) => Filled(v)
        /\ Filled(v) /\ w.lastSeen = e => v = w
        /\ w.lastSeen # e => v.over = IF Filled(v) THEN IF w.over THEN out ELSE in ELSE w.over
    <2>1. CASE w.lastSeen = e
      <3>1. v = w
        BY <2>1, ObserveMoves
      <3>2. QED
        BY <2>1, <3>1 DEF Filled
    <2>2. CASE w.lastSeen # e
      <3>1. /\ v.hits = Recent(Append(w.hits, hit))
            /\ v.over = IF Len(v.hits) < MinSamples THEN w.over
                        ELSE NextOver(w.over, v.hits, enter, exit)
        BY <2>2, ObserveMoves
      <3> DEFINE l == Len(w.hits)
                 m == Len(v.hits)
      <3>2. l \in Nat /\ m \in Nat /\ l <= Rounds
        BY <1>2, LenProperties DEF WindowTyped
      <3>3. m = IF l < Rounds THEN l + 1 ELSE Rounds
        <4>1. Len(w.hits) <= Rounds
          BY DEF WindowTyped
        <4>2. Pushed(w.hits, hit, v.hits)
          BY <1>2, <3>1, <4>1, RecentAppend
        <4>3. QED
          BY <4>2 DEF Pushed
      <3>4. (Filled(w) <=> l >= MinSamples) /\ (Filled(v) <=> m >= MinSamples)
        BY DEF Filled
      <3>9. Filled(v) \in BOOLEAN /\ Filled(w) \in BOOLEAN
        BY DEF Filled
      <3>5. v.over = IF m < MinSamples THEN w.over ELSE IF w.over THEN out ELSE in
        BY <3>1 DEF NextOver
      <3> HIDE DEF l, m, in, out
      <3>6. (m < MinSamples <=> ~Filled(v)) /\ (l >= MinSamples => m >= MinSamples)
        BY <3>2, <3>3, <3>4, Constants
      <3>7. Filled(w) => Filled(v)
        BY <3>4, <3>6
      <3>8. QED
        BY <2>2, <3>5, <3>6, <3>7, <3>9
    <2>3. QED
      BY <2>1, <2>2
  <1>6. Rate(b, v, enter) <=>
           /\ ~Filled(v) => ~v.over /\ ~b.alerting
           /\ Filled(v) => (b.alerting <=> v.over) /\ (in => v.over)
           /\ b.lastSeen <= e
           /\ b.lastSeen = e /\ b.lastSeen # 0 => b.alerting
           /\ b.alerting <=> b.lastAlert # Never
    BY <1>1 DEF Rate
  <1>7. /\ ~Filled(w) => ~w.over /\ ~a.alerting
        /\ Filled(w) => (a.alerting <=> w.over)
        /\ a.lastSeen <= w.lastSeen
        /\ a.lastSeen = w.lastSeen /\ a.lastSeen # 0 => a.alerting
        /\ a.alerting <=> a.lastAlert # Never
    BY DEF Rate
  <1>8. Filled(w) /\ w.lastSeen = e => (in => w.over)
    BY <1>5 DEF Rate
  <1> HIDE DEF in, out
  <1>9. e # Never
    BY DEF Never
  <1>10. CASE ~Filled(v)
    <2>1. b = a
      BY <1>10 DEF IsTold
    <2>2. ~Filled(w) /\ ~a.alerting /\ ~w.over /\ v.over = w.over
      <3>1. ~Filled(w)
        BY <1>5, <1>10
      <3>2. w.lastSeen = e => v = w
        BY ObserveMoves
      <3>3. QED
        BY <1>5, <1>7, <1>10, <3>1, <3>2
    <2>3. a.lastSeen <= e /\ (a.lastSeen = e => a.lastSeen = w.lastSeen)
      BY <1>2, <1>4, <1>7
    <2>4. Rate(b, v, enter)
      BY <1>6, <1>7, <1>10, <2>1, <2>2, <2>3
    <2>5. QED
      BY <2>2, <2>4
  <1>11. CASE Filled(v)
    <2>1. Recorded(a, b, ~v.over, e, 1)
      BY <1>11 DEF IsTold
    <2>2. in => v.over
      BY <1>3, <1>5, <1>8, <1>11
    <2>3. a.lastSeen <= e /\ (a.lastSeen = e => a.lastSeen = w.lastSeen /\ w.lastSeen = e)
      BY <1>2, <1>4, <1>7
    <2>4. a.alerting => w.over
      BY <1>7
    <2>5. CASE v.over
      <3>1. CASE a.lastSeen = e
        <4>1. b = a
          BY <2>1, <2>5, <3>1 DEF Recorded
        <4>2. a.alerting
          BY <1>7, <2>3, <3>1
        <4>3. QED
          BY <1>6, <1>7, <1>11, <2>2, <2>5, <3>1, <4>1, <4>2
      <3>2. CASE a.lastSeen # e
        <4>1. /\ b.streak = a.streak + 1 /\ b.lastSeen = e
              /\ b.streak >= 1 => b.alerting
              /\ b.alerting => (a.alerting /\ b.lastAlert = a.lastAlert) \/ b.lastAlert = e
          BY <2>1, <2>5, <3>2 DEF Recorded
        <4>2. b.alerting
          BY <1>4, <4>1
        <4>3. b.lastAlert # Never
          BY <1>7, <1>9, <4>1, <4>2
        <4>4. QED
          BY <1>6, <1>11, <2>2, <2>5, <4>1, <4>2, <4>3
      <3>3. QED
        BY <3>1, <3>2
    <2>6. CASE ~v.over
      <3>1. b.lastSeen = a.lastSeen /\ ~b.alerting /\ b.lastAlert = Never
        BY <2>1, <2>6 DEF Recorded
      <3>2. ~(a.lastSeen = e)
        <4>1. SUFFICES ASSUME a.lastSeen = e PROVE FALSE
          OBVIOUS
        <4>2. a.alerting /\ v = w
          BY <1>5, <1>7, <1>11, <2>3, <4>1
        <4>3. QED
          BY <2>4, <2>6, <4>2
      <3>3. Rate(b, v, enter)
        BY <1>6, <1>11, <2>2, <2>3, <2>6, <3>1, <3>2
      <3>4. a.alerting => ~out
        BY <1>5, <1>11, <2>4, <2>6
      <3>5. QED
        BY <3>3, <3>4 DEF out
    <2>7. QED
      BY <1>2, <2>5, <2>6
  <1>12. QED
    BY <1>5, <1>10, <1>11

\* What the operator was told last is whether the alarm is up.
Spoken ==
    /\ (said["publish"] = "blocked") <=> publishAlarm.alerting
    /\ (said["move"] = "blocked") <=> moveAlarm.alerting
    /\ moveAlarm.alerting <=> moveAlarm.lastAlert # Never
Rated ==
    /\ Rate(publishAlarm, publish, PublishEnter)
    /\ Rate(genuineAlarm, genuine, GenuineEnter)
    /\ Spoken

LEMMA WordIs ==
    ASSUME NEW a \in AlarmSort, NEW b \in AlarmSort, NEW before,
           (before = "blocked") <=> a.alerting,
           a.alerting <=> a.lastAlert # Never, b.alerting <=> b.lastAlert # Never
    PROVE  /\ (LastWord(Publish!EventOf(a, b), before) = "blocked") <=> b.alerting
           /\ (LastWord(Endpoint!EventOf(a, b), before) = "blocked") <=> b.alerting
  <1> DEFINE event == IF b.alerting /\ b.lastAlert # a.lastAlert THEN <<"blocked">>
                      ELSE IF a.alerting /\ ~b.alerting THEN <<"recovered">> ELSE <<>>
  <1>1. Publish!EventOf(a, b) = event /\ Endpoint!EventOf(a, b) = event
    BY DEF Publish!EventOf, Endpoint!EventOf
  <1>2. /\ LastWord(<<"blocked">>, before) = "blocked"
        /\ LastWord(<<"recovered">>, before) = "recovered"
        /\ LastWord(<<>>, before) = before
    BY DEF LastWord, Last
  <1>3. CASE b.alerting /\ b.lastAlert # a.lastAlert
    BY <1>1, <1>2, <1>3
  <1>4. CASE b.alerting /\ b.lastAlert = a.lastAlert
    <2>1. a.alerting /\ event = <<>>
      BY <1>4
    <2>2. QED
      BY <1>1, <1>2, <1>4, <2>1
  <1>5. CASE ~b.alerting /\ a.alerting
    BY <1>1, <1>2, <1>5
  <1>6. CASE ~b.alerting /\ ~a.alerting
    <2>1. event = <<>>
      BY <1>6
    <2>2. QED
      BY <1>1, <1>2, <1>6, <2>1
  <1>7. QED
    BY <1>3, <1>4, <1>5, <1>6 DEF AlarmSort

LEMMA NewRate ==
    ASSUME NEW a \in {Publish!NewAlarm, Genuine!NewAlarm}, NEW enter
    PROVE  Rate(a, NewWindow, enter)
  <1>1. Len(NewWindow.hits) = 0
    BY NewTyped, EmptySeq
  <1>2. ~Filled(NewWindow)
    BY <1>1, Constants DEF Filled
  <1>3. QED
    BY <1>2, NewTyped DEF Rate

\* In a decision each of the two alarms follows its window.
LEMMA DecisionRates ==
    ASSUME Typed, Seen, Rated, NEW class \in Classes, NEW ran \in BOOLEAN, Decides(class, ran)
    PROVE  /\ Rate(publishAlarm', publish', PublishEnter)
           /\ Rate(genuineAlarm', genuine', GenuineEnter)
           /\ publishAlarm.alerting /\ ~publishAlarm'.alerting => ~Reaches(publish'.hits, PublishExit)
           /\ genuineAlarm.alerting /\ ~genuineAlarm'.alerting => ~Reaches(genuine'.hits, GenuineExit)
  <1> DEFINE delay == class = "publish_delay"
             failure == class = "fetch_failure"
  <1>1. /\ publish' = Observe(publish, delay, epoch, PublishEnter, PublishExit)
        /\ genuine' = Observe(genuine, failure, epoch, GenuineEnter, GenuineExit)
    BY DEF Decides, NoteKlines
  <1>2. /\ WindowTyped(publish) /\ WindowTyped(genuine) /\ epoch \in Nat /\ epoch > 0
        /\ publishAlarm \in AlarmSort /\ genuineAlarm \in AlarmSort
    BY DEF Typed, Decides
  <1>3. publish.lastSeen <= epoch /\ genuine.lastSeen <= epoch
    BY DEF Seen
  <1>4. /\ publishAlarm' \in AlarmSort /\ genuineAlarm' \in AlarmSort
        /\ IsTold(publishAlarm, publishAlarm', publish', epoch)
        /\ IsTold(genuineAlarm, genuineAlarm', genuine', epoch)
    BY DecisionMoves DEF Decides
  <1>5. delay \in BOOLEAN /\ failure \in BOOLEAN
    OBVIOUS
  <1> HIDE DEF delay, failure
  <1>6. PICK p, g, pa, ga : p = publish' /\ g = genuine' /\ pa = publishAlarm' /\ ga = genuineAlarm'
    OBVIOUS
  <1>7. /\ p = Observe(publish, delay, epoch, PublishEnter, PublishExit)
        /\ IsTold(publishAlarm, pa, p, epoch) /\ pa \in AlarmSort
        /\ Rate(publishAlarm, publish, PublishEnter)
    BY <1>1, <1>4, <1>6 DEF Rated
  <1>8. /\ Rate(pa, p, PublishEnter)
        /\ publishAlarm.alerting /\ ~pa.alerting => ~Reaches(p.hits, PublishExit)
    BY <1>2, <1>3, <1>5, <1>7, RateNext, Constants
  <1>9. /\ g = Observe(genuine, failure, epoch, GenuineEnter, GenuineExit)
        /\ IsTold(genuineAlarm, ga, g, epoch) /\ ga \in AlarmSort
        /\ Rate(genuineAlarm, genuine, GenuineEnter)
    BY <1>1, <1>4, <1>6 DEF Rated
  <1>10. /\ Rate(ga, g, GenuineEnter)
         /\ genuineAlarm.alerting /\ ~ga.alerting => ~Reaches(g.hits, GenuineExit)
    BY <1>2, <1>3, <1>5, <1>9, RateNext, Constants
  <1>11. QED
    BY <1>6, <1>8, <1>10

LEMMA RatedStep == Typed /\ Seen /\ Rated /\ [Next]_vars => Rated'
  <1> SUFFICES ASSUME Typed, Seen, Rated, [Next]_vars PROVE Rated'
    OBVIOUS
  <1>0. Typed'
    BY TypedStep
  <1>1. CASE PoolGate
    <2>1. PICK e \in {epoch, epoch + 1}, isStatic \in BOOLEAN, odds \in BOOLEAN, ready \in BOOLEAN :
             e \in 1 .. LastEpoch /\ epoch' = e /\ NoteEndpoint(e, isStatic, errors + Cost(odds))
      BY <1>1 DEF PoolGate
    <2>2. e \in Nat
      BY <2>1 DEF Typed
    <2>3. UNCHANGED <<publish, genuine, publishAlarm, genuineAlarm>>
      BY <1>1 DEF PoolGate, gate
    <2>4. moveAlarm' = moveAlarm \/ \E r \in BOOLEAN : Recorded(moveAlarm, moveAlarm', r, e, 1)
      BY <2>1, <2>2, EndpointMoves
    <2>5. moveAlarm \in AlarmSort /\ moveAlarm' \in AlarmSort
      BY <1>0 DEF Typed
    <2>6. moveAlarm.alerting <=> moveAlarm.lastAlert # Never
      BY DEF Rated, Spoken
    <2>7. moveAlarm'.alerting <=> moveAlarm'.lastAlert # Never
      <3>1. CASE moveAlarm' = moveAlarm
        BY <2>6, <3>1
      <3>2. ASSUME NEW r \in BOOLEAN, Recorded(moveAlarm, moveAlarm', r, e, 1)
            PROVE  moveAlarm'.alerting <=> moveAlarm'.lastAlert # Never
        <4>1. e # Never
          BY <2>2 DEF Never
        <4>2. CASE r
          BY <3>2, <4>2 DEF Recorded
        <4>3. CASE ~r /\ moveAlarm.lastSeen = e
          BY <2>6, <3>2, <4>3 DEF Recorded
        <4>4. CASE ~r /\ moveAlarm.lastSeen # e
          <5>1. /\ moveAlarm'.streak = moveAlarm.streak + 1
                /\ moveAlarm'.streak >= 1 => moveAlarm'.alerting
                /\ moveAlarm'.alerting =>
                      (moveAlarm.alerting /\ moveAlarm'.lastAlert = moveAlarm.lastAlert)
                         \/ moveAlarm'.lastAlert = e
            BY <3>2, <4>4 DEF Recorded
          <5>2. moveAlarm'.alerting
            BY <2>5, <5>1 DEF AlarmSort
          <5>3. QED
            BY <2>6, <4>1, <5>1, <5>2
        <4>5. QED
          BY <4>2, <4>3, <4>4
      <3>3. QED
        BY <2>4, <3>1, <3>2
    <2>8. /\ said'["publish"] = said["publish"]
          /\ said'["move"] = LastWord(Endpoint!EventOf(moveAlarm, moveAlarm'), said["move"])
      <3>1. said' = [said EXCEPT !["move"] = LastWord(Endpoint!EventOf(moveAlarm, moveAlarm'), @)]
        BY <2>1 DEF NoteEndpoint
      <3>2. "move" \in DOMAIN said /\ "publish" \in DOMAIN said
        BY DEF Typed
      <3>3. QED
        BY <3>1, <3>2
    <2>9. (said'["move"] = "blocked") <=> moveAlarm'.alerting
      <3>1. PICK b : b = moveAlarm'
        OBVIOUS
      <3>2. (said["move"] = "blocked") <=> moveAlarm.alerting
        BY DEF Rated, Spoken
      <3>3. (LastWord(Endpoint!EventOf(moveAlarm, b), said["move"]) = "blocked") <=> b.alerting
        BY <2>5, <2>6, <2>7, <3>1, <3>2, WordIs
      <3>4. QED
        BY <2>8, <3>1, <3>3
    <2>10. Spoken'
      BY <2>3, <2>7, <2>8, <2>9 DEF Rated, Spoken
    <2>11. QED
      BY <2>3, <2>10 DEF Rated
  <1>2. CASE Evaluate \/ RiskSkip
    <2>1. PICK class \in Classes, ran \in BOOLEAN : Decides(class, ran)
      BY <1>2, DecisionsAre
    <2>2. Rate(publishAlarm', publish', PublishEnter) /\ Rate(genuineAlarm', genuine', GenuineEnter)
      BY <2>1, DecisionRates
    <2>3. UNCHANGED moveAlarm /\ NoteKlines(class, ran)
      BY <2>1 DEF Decides, poller
    <2>4. /\ said'["publish"] = LastWord(Publish!EventOf(publishAlarm, publishAlarm'), said["publish"])
          /\ said'["move"] = said["move"]
      <3> DEFINE word == LastWord(Publish!EventOf(publishAlarm, publishAlarm'), said["publish"])
                 mid == [said EXCEPT !["publish"] = word]
                 last == LastWord(Genuine!EventOf(genuineAlarm, genuineAlarm')
                                     \o Burst!EventOf(burstAlarm, burstAlarm'), mid["fetch"])
      <3>1. said' = [mid EXCEPT !["fetch"] = last]
        BY <2>3, Zenon DEF NoteKlines
      <3>2. "move" \in DOMAIN said /\ "publish" \in DOMAIN said
        BY DEF Typed
      <3> HIDE DEF word, last
      <3>3. mid["publish"] = word /\ mid["move"] = said["move"] /\ DOMAIN mid = DOMAIN said
        BY <3>2
      <3> HIDE DEF mid
      <3>4. QED
        BY <3>1, <3>2, <3>3 DEF word
    <2>5. (said'["publish"] = "blocked") <=> publishAlarm'.alerting
      <3>1. PICK b : b = publishAlarm'
        OBVIOUS
      <3>2. /\ (said["publish"] = "blocked") <=> publishAlarm.alerting
            /\ publishAlarm.alerting <=> publishAlarm.lastAlert # Never
        BY DEF Rated, Spoken, Rate
      <3>3. publishAlarm \in AlarmSort /\ b \in AlarmSort /\ (b.alerting <=> b.lastAlert # Never)
        BY <1>0, <2>2, <3>1 DEF Typed, Rate
      <3>4. (LastWord(Publish!EventOf(publishAlarm, b), said["publish"]) = "blocked") <=> b.alerting
        BY <3>2, <3>3, WordIs
      <3>5. QED
        BY <2>4, <3>1, <3>4
    <2>6. Spoken'
      BY <2>3, <2>4, <2>5 DEF Rated, Spoken
    <2>7. QED
      BY <2>2, <2>6 DEF Rated
  <1>3. CASE Restart
    <2>1. /\ publish' = NewWindow /\ genuine' = NewWindow
          /\ publishAlarm' = Publish!NewAlarm /\ genuineAlarm' = Genuine!NewAlarm
          /\ moveAlarm' = Endpoint!NewAlarm
      BY <1>3 DEF Restart
    <2>2. said'["publish"] = "none" /\ said'["move"] = "none"
      <3>1. said' = [s \in DOMAIN said |-> "none"]
        BY <1>3 DEF Restart
      <3>2. QED
        BY <3>1 DEF Typed
    <2>3. Rate(publishAlarm', publish', PublishEnter) /\ Rate(genuineAlarm', genuine', GenuineEnter)
      BY <2>1, NewRate
    <2>4. Spoken'
      BY <2>1, <2>2, NewTyped DEF Spoken
    <2>5. QED
      BY <2>3, <2>4 DEF Rated
  <1>4. CASE UNCHANGED vars
    BY <1>4 DEF Rated, Spoken, vars, gate, poller, history
  <1>5. QED
    BY <1>1, <1>2, <1>3, <1>4 DEF Next

LEMMA RatedInvariant == Spec => []Rated
  <1>1. Init => Rated
    <2> SUFFICES ASSUME Init PROVE Rated
      OBVIOUS
    <2>1. /\ publish = NewWindow /\ genuine = NewWindow
          /\ publishAlarm = Publish!NewAlarm /\ genuineAlarm = Genuine!NewAlarm
          /\ moveAlarm = Endpoint!NewAlarm
          /\ said["publish"] = "none" /\ said["move"] = "none"
      BY DEF Init
    <2>2. Rate(publishAlarm, publish, PublishEnter) /\ Rate(genuineAlarm, genuine, GenuineEnter)
      BY <2>1, NewRate
    <2>3. Spoken
      BY <2>1, NewTyped DEF Spoken
    <2>4. QED
      BY <2>2, <2>3 DEF Rated
  <1>2. Typed /\ Seen /\ Counted /\ Rated /\ [Next]_vars => Rated'
    BY RatedStep
  <1>3. QED
    BY <1>1, <1>2, CountedInvariant, PTL DEF Spec

\* Hysteresis as the operator sees it, for any rates with the lower one below the other
\* (RateWindow.observe, _note_kline_gate_outcome, _note_endpoint_move_outcome): an alarm is
\* up at the bar, goes down only below the lower one or with the process, and the last word
\* on delays and on the endpoint is true.
THEOREM RatesFollowed == Spec => AlarmsFollowTheRate
  <1> DEFINE Told == /\ (said["publish"] = "blocked") <=> publishAlarm.alerting
                     /\ (said["move"] = "blocked") <=> moveAlarm.alerting
             Kept == /\ Follows(publishAlarm, publishAlarm', publish'.hits, PublishEnter, PublishExit)
                     /\ Follows(genuineAlarm, genuineAlarm', genuine'.hits, GenuineEnter, GenuineExit)
  <1>1. Typed /\ Seen /\ Rated /\ Rated' /\ [Next]_vars =>
           [/\ Follows(publishAlarm, publishAlarm', publish'.hits, PublishEnter, PublishExit)
            /\ Follows(genuineAlarm, genuineAlarm', genuine'.hits, GenuineEnter, GenuineExit)
            /\ (said'["publish"] = "blocked") <=> publishAlarm'.alerting
            /\ (said'["move"] = "blocked") <=> moveAlarm'.alerting]_vars
    <2> SUFFICES ASSUME Typed, Seen, Rated, Rated', Next
                 PROVE  Kept /\ Told'
      OBVIOUS
    <2>1. Told'
      BY DEF Rated, Spoken
    <2>2. /\ Len(publish'.hits) >= MinSamples /\ Reaches(publish'.hits, PublishEnter) => publishAlarm'.alerting
          /\ Len(genuine'.hits) >= MinSamples /\ Reaches(genuine'.hits, GenuineEnter) => genuineAlarm'.alerting
      BY DEF Rated, Rate, Filled
    <2>3. /\ publishAlarm.alerting /\ ~publishAlarm'.alerting =>
                publish'.hits = <<>> \/ ~Reaches(publish'.hits, PublishExit)
          /\ genuineAlarm.alerting /\ ~genuineAlarm'.alerting =>
                genuine'.hits = <<>> \/ ~Reaches(genuine'.hits, GenuineExit)
      <3>1. CASE Evaluate \/ RiskSkip
        <4>1. PICK class \in Classes, ran \in BOOLEAN : Decides(class, ran)
          BY <3>1, DecisionsAre
        <4>2. QED
          BY <4>1, DecisionRates
      <3>2. CASE PoolGate
        BY <3>2 DEF PoolGate, gate
      <3>3. CASE Restart
        BY <3>3, NewTyped DEF Restart
      <3>4. QED
        BY <3>1, <3>2, <3>3 DEF Next
    <2>4. Kept
      BY <2>2, <2>3 DEF Follows
    <2>5. QED
      BY <2>1, <2>4
  <1>2. QED
    BY <1>1, CountedInvariant, RatedInvariant, PTL DEF Spec, AlarmsFollowTheRate

\* However delays and failures are mixed, rounds lost to either in as large a part as the
\* two bars together have one of the two alarms up.
THEOREM LossHeard == Spec => []LossIsNeverSilent
  <1>1. Typed /\ Seen /\ Counted /\ Rated => LossIsNeverSilent
    <2> SUFFICES ASSUME Typed, Seen, Counted, Rated PROVE LossIsNeverSilent
      OBVIOUS
    <2> DEFINE F == Firsts
               L == LastOf(F)
               late == {i \in L : klines[i].class = "publish_delay"}
               failed == {i \in L : klines[i].class = "fetch_failure"}
               lost == {i \in L : klines[i].class # "none"}
               all == Cardinality(L)
               p == publish.hits
               g == genuine.hits
    <2>1. /\ F \in SUBSET Nat /\ IsFiniteSet(F) /\ p \in Seq(BOOLEAN) /\ g \in Seq(BOOLEAN)
          /\ \A i \in L : klines[i].class \in Classes
      <3>1. F \subseteq DOMAIN klines /\ F \in SUBSET Nat /\ IsFiniteSet(F)
        BY FirstsFinite
      <3>2. \A i \in DOMAIN klines : klines[i] \in Decisions
        BY LenProperties DEF Typed
      <3>3. L \subseteq F
        BY DEF LastOf
      <3> HIDE DEF L, F
      <3>4. \A i \in L : klines[i].class \in Classes
        BY <3>1, <3>2, <3>3 DEF Decisions
      <3>5. QED
        BY <3>1, <3>4 DEF Typed, WindowTyped
    <2>2. MatchesOf(F, klines, p, "publish_delay") /\ MatchesOf(F, klines, g, "fetch_failure")
      BY DEF Counted
    <2> HIDE DEF F, p, g
    <2>3. /\ IsFiniteSet(L) /\ Len(p) = all /\ Len(g) = all
          /\ Hits(p) = Cardinality(late) /\ Hits(g) = Cardinality(failed)
      BY <2>1, <2>2, MatchesCount
    <2> HIDE DEF L
    <2>4. Cardinality(lost) = Cardinality(late) + Cardinality(failed)
      <3>1. lost = late \cup failed /\ late \cap failed = {}
        BY <2>1 DEF Classes
      <3>2. IsFiniteSet(late) /\ IsFiniteSet(failed)
        BY <2>3, FS_Subset
      <3> HIDE DEF lost, late, failed
      <3>3. Cardinality(lost) = Cardinality(late) + Cardinality(failed) - Cardinality(late \cap failed)
        BY <3>1, <3>2, FS_Union
      <3>4. Cardinality(late \cap failed) = 0
        BY <3>1, FS_EmptySet
      <3>5. Cardinality(late) \in Nat /\ Cardinality(failed) \in Nat
        BY <3>2, FS_CardinalityType
      <3>6. QED
        BY <3>3, <3>4, <3>5
    <2> HIDE DEF lost, late, failed, all
    <2>5. ASSUME all >= MinSamples, 1000 * Cardinality(lost) >= (PublishEnter + GenuineEnter) * all
          PROVE  publishAlarm.alerting \/ genuineAlarm.alerting
      <3> DEFINE hp == Hits(p)
                 hg == Hits(g)
      <3>1. hp \in Nat /\ hg \in Nat /\ all \in Nat /\ Cardinality(lost) = hp + hg
        BY <2>1, <2>3, <2>4, HitsTyped, LenProperties
      <3> HIDE DEF hp, hg
      <3>2. (PublishEnter + GenuineEnter) * all = PublishEnter * all + GenuineEnter * all
        BY <3>1, Constants
      <3>3. PublishEnter * all \in Int /\ GenuineEnter * all \in Int
        BY <3>1, Constants
      <3>4. 1000 * (hp + hg) >= PublishEnter * all + GenuineEnter * all
        BY <2>5, <3>1, <3>2
      <3>5. 1000 * hp >= PublishEnter * all \/ 1000 * hg >= GenuineEnter * all
        BY <3>1, <3>3, <3>4
      <3>6. Reaches(p, PublishEnter) \/ Reaches(g, GenuineEnter)
        BY <2>3, <3>5 DEF Reaches, hp, hg
      <3>7. Filled(publish) /\ Filled(genuine)
        BY <2>3, <2>5 DEF Filled, p, g
      <3>8. QED
        BY <3>6, <3>7 DEF Rated, Rate, p, g
    <2>6. QED
      BY <2>5, Zenon DEF LossIsNeverSilent, all, lost, L, F
  <1>2. QED
    BY <1>1, CountedInvariant, RatedInvariant, PTL

-----------------------------------------------------------------------------
(* Rounds that fail one after the other.                                   *)

Clean == {i \in DOMAIN klines : klines[i].class = "none"}
Since == {i \in DOMAIN klines : \A j \in Clean : j < i}
Failing == {i \in Since \cap Firsts : klines[i].class = "fetch_failure"}

BurstInv ==
    /\ burstAlarm.streak >= Cardinality(Failing)
    /\ burstAlarm.streak >= BurstThreshold => burstAlarm.alerting
    /\ burstAlarm.lastSeen <= publish.lastSeen

LEMMA FailingFinite ==
    ASSUME Typed
    PROVE  IsFiniteSet(Failing) /\ Cardinality(Failing) \in Nat
  <1>1. IsFiniteSet(Firsts) /\ Failing \subseteq Firsts
    BY FirstsFinite DEF Failing
  <1>2. QED
    BY <1>1, FS_Subset, FS_CardinalityType

\* A decision adds no more than itself, and that only if it is the first of its round and
\* fails; a clean one leaves none.
LEMMA FailingGrows ==
    ASSUME Typed, Seen, NEW class, NEW ran, Decides(class, ran)
    PROVE  /\ Failing' \subseteq Failing \cup {Len(klines) + 1}
           /\ class # "fetch_failure" \/ publish.lastSeen = epoch => Failing' \subseteq Failing
           /\ class = "none" => Failing' = {}
  <1> DEFINE n == Len(klines) + 1
  <1>1. /\ n \in Nat /\ n > 0 /\ DOMAIN klines = 1 .. n - 1 /\ DOMAIN klines' = 1 .. n
        /\ \A i \in 1 .. n - 1 : klines'[i] = klines[i]
        /\ klines'[n].class = class
    BY DecisionsAdd
  <1>2. Firsts' = IF publish.lastSeen = epoch THEN Firsts ELSE Firsts \cup {n}
    BY FirstsGrow
  <1>3. Firsts \subseteq 1 .. n - 1
    BY <1>1 DEF Firsts
  <1> HIDE DEF n
  <1>4. Clean \subseteq Clean'
    BY <1>1 DEF Clean
  <1>5. ASSUME NEW i \in Failing', i # n PROVE i \in Failing
    <2>1. i \in 1 .. n - 1
      BY <1>1, <1>5 DEF Failing, Since
    <2>2. i \in Firsts
      BY <1>2, <1>5 DEF Failing
    <2>3. \A j \in Clean : j < i
      BY <1>4, <1>5 DEF Failing, Since
    <2>4. klines[i].class = "fetch_failure"
      BY <1>1, <1>5, <2>1 DEF Failing
    <2>5. QED
      BY <1>1, <2>1, <2>2, <2>3, <2>4 DEF Failing, Since
  <1>6. n \in Failing' => class = "fetch_failure" /\ publish.lastSeen # epoch
    <2>1. n \notin 1 .. n - 1
      BY <1>1
    <2>2. n \notin Firsts
      BY <1>3, <2>1
    <2>3. QED
      BY <1>1, <1>2, <2>2 DEF Failing
  <1>7. class = "none" => Failing' = {}
    <2>1. SUFFICES ASSUME class = "none", NEW i \in Failing' PROVE FALSE
      OBVIOUS
    <2>2. n \in Clean'
      BY <1>1, <2>1 DEF Clean
    <2>3. n < i /\ i \in 1 .. n
      BY <1>1, <2>1, <2>2 DEF Failing, Since
    <2>4. QED
      BY <1>1, <2>3
  <1>8. QED
    BY <1>5, <1>6, <1>7 DEF n

LEMMA BurstStep == Typed /\ Seen /\ BurstInv /\ [Next]_vars => BurstInv'
  <1> SUFFICES ASSUME Typed, Seen, BurstInv, [Next]_vars PROVE BurstInv'
    OBVIOUS
  <1>0. Typed' /\ epoch \in Nat /\ publish.lastSeen \in Nat /\ publish.lastSeen <= epoch
    BY TypedStep DEF Typed, WindowTyped, Seen
  <1>1. CASE PoolGate \/ UNCHANGED vars
    <2>1. UNCHANGED <<klines, publish, burstAlarm>>
      BY <1>1 DEF PoolGate, vars, gate, history
    <2>2. Failing' = Failing
      BY <2>1 DEF Failing, Since, Clean, Firsts
    <2>3. QED
      BY <2>1, <2>2 DEF BurstInv
  <1>2. CASE Evaluate \/ RiskSkip
    <2>1. PICK class \in Classes, ran \in BOOLEAN : Decides(class, ran)
      BY <1>2, DecisionsAre
    <2>2. publish'.lastSeen = epoch
      <3>1. publish' = Observe(publish, class = "publish_delay", epoch, PublishEnter, PublishExit)
        BY <2>1 DEF Decides, NoteKlines
      <3>2. WindowTyped(publish)
        BY DEF Typed
      <3> DEFINE delay == class = "publish_delay"
      <3>3. delay \in BOOLEAN /\ publish' = Observe(publish, delay, epoch, PublishEnter, PublishExit)
        BY <3>1
      <3> HIDE DEF delay
      <3>4. QED
        BY <1>0, <3>2, <3>3, ObserveMoves
    <2> DEFINE a == burstAlarm
               few == Cardinality(Failing)
    <2>3. PICK b, many : b = burstAlarm' /\ many = Cardinality(Failing')
      OBVIOUS
    <2>4. a \in AlarmSort /\ b \in AlarmSort /\ few \in Nat /\ many \in Nat
      <3> DEFINE n == Len(klines) + 1
      <3>1. IsFiniteSet(Failing \cup {n})
        BY FailingFinite, FS_AddElement
      <3>2. Failing' \subseteq Failing \cup {n}
        BY <2>1, FailingGrows
      <3> HIDE DEF n
      <3>3. IsFiniteSet(Failing')
        BY <3>1, <3>2, FS_Subset
      <3>4. Cardinality(Failing') \in Nat
        BY <3>3, FS_CardinalityType
      <3>5. QED
        BY <1>0, <2>3, <3>4, FailingFinite DEF Typed
    <2>5. /\ class = "publish_delay" => b = a
          /\ class # "publish_delay" => Recorded(a, b, class # "fetch_failure", epoch, BurstThreshold)
      BY <2>1, <2>3, DecisionMoves DEF Decides
    <2>6. /\ many <= few + 1
          /\ class # "fetch_failure" \/ publish.lastSeen = epoch => many <= few
          /\ class = "none" => many = 0
      <3> DEFINE n == Len(klines) + 1
      <3>1. PICK N : N = Failing'
        OBVIOUS
      <3>2. /\ N \subseteq Failing \cup {n}
            /\ class # "fetch_failure" \/ publish.lastSeen = epoch => N \subseteq Failing
            /\ class = "none" => N = {}
        BY <2>1, <3>1, FailingGrows
      <3>3. IsFiniteSet(Failing)
        BY FailingFinite
      <3> HIDE DEF n
      <3>4. IsFiniteSet(Failing \cup {n}) /\ Cardinality(Failing \cup {n}) <= few + 1
        <4>1. IsFiniteSet(Failing \cup {n})
          BY <3>3, FS_AddElement
        <4>2. Cardinality(Failing \cup {n}) = IF n \in Failing THEN few ELSE few + 1
          BY <3>3, FS_AddElement
        <4>3. QED
          BY <2>4, <4>1, <4>2
      <3>5. Cardinality(N) <= Cardinality(Failing \cup {n}) /\ Cardinality(Failing \cup {n}) \in Nat
        BY <3>2, <3>4, FS_Subset, FS_CardinalityType
      <3>6. N \subseteq Failing => Cardinality(N) <= few
        BY <3>3, FS_Subset
      <3>7. N = {} => Cardinality(N) = 0
        BY FS_EmptySet
      <3>8. many = Cardinality(N)
        BY <2>3, <3>1
      <3> HIDE DEF few
      <3>9. QED
        BY <2>4, <3>2, <3>4, <3>5, <3>6, <3>7, <3>8
    <2>7. a.streak >= few /\ (a.streak >= BurstThreshold => a.alerting) /\ a.lastSeen <= publish.lastSeen
      BY DEF BurstInv
    <2>8. a.streak \in Nat /\ b.streak \in Nat /\ a.lastSeen \in Nat
      BY <2>4 DEF AlarmSort
    <2> HIDE DEF a, few
    <2>9. b.streak >= many /\ (b.streak >= BurstThreshold => b.alerting) /\ b.lastSeen <= epoch
      <3>1. CASE class = "publish_delay"
        BY <1>0, <2>4, <2>5, <2>6, <2>7, <2>8, <3>1
      <3>2. CASE class = "none"
        <4>1. b.streak = 0 /\ b.lastSeen = a.lastSeen
          BY <2>5, <3>2 DEF Recorded
        <4>2. QED
          BY <1>0, <2>6, <2>7, <2>8, <3>2, <4>1, Constants
      <3>3. CASE class = "fetch_failure" /\ a.lastSeen = epoch
        <4>1. b = a
          BY <2>5, <3>3 DEF Recorded
        <4>2. publish.lastSeen = epoch
          BY <1>0, <2>7, <3>3
        <4>3. many <= few
          BY <2>6, <4>2
        <4>4. QED
          BY <1>0, <2>4, <2>7, <2>8, <4>1, <4>3
      <3>4. CASE class = "fetch_failure" /\ a.lastSeen # epoch
        <4>1. /\ b.streak = a.streak + 1 /\ b.lastSeen = epoch
              /\ b.streak >= BurstThreshold => b.alerting
          BY <2>5, <3>4 DEF Recorded
        <4>2. QED
          BY <1>0, <2>4, <2>6, <2>7, <2>8, <4>1
      <3>5. QED
        BY <2>1, <3>1, <3>2, <3>3, <3>4 DEF Classes
    <2>10. QED
      BY <2>2, <2>3, <2>9 DEF BurstInv
  <1>3. CASE Restart
    <2>1. publish' = NewWindow /\ burstAlarm' = Burst!NewAlarm /\ klines' = <<>>
      BY <1>3 DEF Restart
    <2>2. Failing' = {}
      BY <2>1 DEF Failing, Since
    <2>3. burstAlarm'.streak = 0 /\ burstAlarm'.lastSeen = 0 /\ publish'.lastSeen = 0
      BY <2>1, NewTyped
    <2>4. Cardinality(Failing') = 0
      BY <2>2, FS_EmptySet
    <2>5. QED
      BY <2>3, <2>4, Constants DEF BurstInv
  <1>4. QED
    BY <1>1, <1>2, <1>3 DEF Next

\* Rounds that fail for good raise the burst alarm at its threshold, whatever delays lie
\* between, until a fetch is clean (_note_kline_gate_outcome, PoolGateAlarm.record).
THEOREM BurstsSound == Spec => []BurstsAreSeen
  <1>1. Init => BurstInv
    <2> SUFFICES ASSUME Init PROVE BurstInv
      OBVIOUS
    <2>1. publish = NewWindow /\ burstAlarm = Burst!NewAlarm /\ klines = <<>>
      BY DEF Init
    <2>2. Failing = {}
      BY <2>1 DEF Failing, Since
    <2>3. burstAlarm.streak = 0 /\ burstAlarm.lastSeen = 0 /\ publish.lastSeen = 0
      BY <2>1, NewTyped
    <2>4. Cardinality(Failing) = 0
      BY <2>2, FS_EmptySet
    <2>5. QED
      BY <2>3, <2>4, Constants DEF BurstInv
  <1>2. Typed /\ BurstInv => BurstsAreSeen
    <2> SUFFICES ASSUME Typed, BurstInv PROVE BurstsAreSeen
      OBVIOUS
    <2>1. Cardinality(Failing) >= BurstThreshold => burstAlarm.alerting
      <3>1. Cardinality(Failing) \in Nat /\ burstAlarm.streak \in Nat
        BY FailingFinite DEF Typed, AlarmSort
      <3>2. QED
        BY <3>1, Constants DEF BurstInv
    <2>2. QED
      BY <2>1, Zenon DEF BurstsAreSeen, Failing, Since, Clean
  <1>3. Typed /\ Seen /\ Counted /\ BurstInv /\ [Next]_vars => BurstInv'
    BY BurstStep
  <1>4. QED
    BY <1>1, <1>2, <1>3, CountedInvariant, PTL DEF Spec
=============================================================================
