---------------------------- MODULE MonitorProofs ----------------------------
(* The four promises of WeeklyMonitor, for every value of the constants,       *)
(* whatever fails, is killed or is done by hand: the unit is off by the time    *)
(* the last weak week is booked and after a season of blind Sundays, a blind    *)
(* Sunday keeps its makeup runs armed, and the streak of weak weeks is exact.   *)
EXTENDS WeeklyMonitor, FiniteSetTheorems, TLAPS

\* What the proofs need to know of the types, without the bounds of TypeOK.
UnitStates == [enabled : BOOLEAN, running : BOOLEAN]
States == [weak : Nat, base : Nat, last : Nat, blind : Nat, torn : BOOLEAN]
Contexts == [key : Nat, retry : BOOLEAN, blindWeek : BOOLEAN]
UnderWay == {"evidence", "marker", "decide", "act", "enable", "save"}
Runs ==
    [pc : UnderWay, ctx : Contexts, cycle : Nat, synced : BOOLEAN, fresh : BOOLEAN,
     cooldown : BOOLEAN, next : States,
     action : {"none", "disable", "enable", "override", "start", "blocked"}]
Endings == [pc : {"idle"}, ended : {"done", "crashed", "killed"}]

Typed ==
    /\ day \in Nat \ {0} /\ {marker, owed, dark} \subseteq Nat /\ paused \in BOOLEAN
    /\ unit \in UnitStates /\ st \in States /\ run \in Runs \cup Endings

LEMMA WeeksBegin ==
    ASSUME NEW d \in Nat \ {0} PROVE IsoWeek(d) \in Nat \ {0}
  <1>1. WeekLen \in Nat /\ WeekLen > 0
    BY MonitorAssumption
  <1>2. d + WeekLen - 1 \in Nat /\ d + WeekLen - 1 >= WeekLen
    BY <1>1
  <1>3. (d + WeekLen - 1) \div WeekLen \in Nat /\ (d + WeekLen - 1) \div WeekLen >= 1
    BY <1>1, <1>2
  <1>4. QED
    BY <1>3 DEF IsoWeek

\* A run books numbers.
LEMMA BookingTyped ==
    ASSUME Typed, run.pc \in UnderWay, NEW w
    PROVE  Booking(w) \in States
  <1>1. st \in States /\ run.ctx.key \in Nat
    BY DEF Typed, Runs, Endings, Contexts, UnderWay
  <1>2. \A again, hit \in BOOLEAN :
           /\ Booked(st.weak, st.base, again, hit).count \in Nat
           /\ Booked(st.weak, st.base, again, hit).base \in Nat
    BY <1>1 DEF Booked, States
  <1>3. WeakWeek(w) \in BOOLEAN
    BY DEF WeakWeek
  <1>4. QED
    BY <1>1, <1>2, <1>3 DEF Booking, States
LEMMA InitTyped == Init => Typed
  BY MonitorAssumption DEF Init, Typed, UnitStates, States, Endings, Ended

LEMMA BegunTyped ==
    ASSUME Cycle \in Nat, RunContext \in Contexts, st \in States,
           NEW sync \in BOOLEAN, Begin(sync)
    PROVE  run' \in Runs \cup Endings
  <1>1. CASE st.torn
    BY <1>1 DEF Begin, Crashed, Ended, Endings
  <1>2. CASE ~st.torn
    <2> DEFINE c == Cycle
               r == RunContext
    <2>1. run' = [pc |-> "evidence", ctx |-> r, cycle |-> c, synced |-> sync,
                  fresh |-> FALSE, cooldown |-> FALSE, action |-> "none", next |-> st]
      BY <1>2 DEF Begin
    <2>2. c \in Nat /\ r \in Contexts
      OBVIOUS
    <2> HIDE DEF c, r
    <2>3. QED
      BY ONLY <2>1, <2>2, st \in States DEF Runs, UnderWay
  <1>3. QED
    BY <1>1, <1>2

\* A run begins with the numbers the disk and the calendar hold.
LEMMA BeginTyped == ASSUME Typed, NEW sync \in BOOLEAN, Begin(sync) PROVE Typed'
  <1>1. /\ day \in Nat \ {0} /\ marker \in Nat /\ owed \in Nat /\ dark \in Nat /\ st \in States
        /\ run \in Runs \cup Endings
    BY DEF Typed
  <1>1a. st \in States
    BY DEF Typed
  <1>2. Cycle \in Nat /\ RunContext \in Contexts
    <2>1. IsoWeek(day) \in Nat
      BY <1>1, WeeksBegin
    <2>2. QED
      BY <1>1, <2>1 DEF Cycle, RunContext, Contexts
  <1>3. /\ UNCHANGED <<day, unit, st, paused>>
        /\ run' \in Runs \cup Endings
        /\ marker' \in Nat /\ owed' \in Nat /\ dark' \in Nat
    <2>1. UNCHANGED <<day, unit, st, paused>> /\ marker' \in Nat /\ owed' \in Nat /\ dark' \in Nat
      BY <1>1 DEF Begin
    <2>2. run' \in Runs \cup Endings
      BY <1>2, <1>1a, BegunTyped
    <2>3. QED
      BY <2>1, <2>2
  <1>4. QED
    BY <1>3 DEF Typed

\* A unit that is switched stays a unit.
LEMMA UnitTyped ==
    ASSUME Typed
    PROVE  /\ \A b \in BOOLEAN : [unit EXCEPT !.running = b] \in UnitStates
           /\ \A b \in BOOLEAN : [unit EXCEPT !.enabled = b] \in UnitStates
           /\ \A b \in BOOLEAN : [enabled |-> b, running |-> b] \in UnitStates
  <1>1. unit \in UnitStates
    BY DEF Typed
  <1>2. QED
    BY <1>1 DEF UnitStates

\* A run under way is a record of its own.
LEMMA RunTyped == ASSUME Typed, run.pc \in UnderWay PROVE run \in Runs
  BY DEF Typed, Endings, UnderWay

LEMMA StepTyped == ASSUME Typed, Next PROVE Typed'
  <1> USE DEF history
  <1>0. /\ day \in Nat \ {0} /\ marker \in Nat /\ owed \in Nat /\ dark \in Nat /\ st \in States
        /\ run \in Runs \cup Endings /\ unit \in UnitStates /\ paused \in BOOLEAN
    BY DEF Typed
  <1>1. CASE Cron \/ Manual
    <2>1. ASSUME NEW sync \in BOOLEAN, Begin(sync) PROVE Typed'
      BY <2>1, BeginTyped
    <2>2. CASE UNCHANGED <<day, unit, paused, flag, marker, st, run, history>>
      BY <1>0, <2>2 DEF Typed
    <2>3. QED
      BY <1>1, <2>1, <2>2 DEF Cron, Manual
  <1>2. CASE Evidence
    <2>1. PICK fresh \in BOOLEAN :
             /\ run' = [run EXCEPT !.pc = "marker", !.fresh = fresh]
             /\ \/ /\ st' = [st EXCEPT !.blind = IF fresh THEN 0
                                                 ELSE IF run.ctx.blindWeek THEN @ + 1 ELSE @]
                   /\ dark' = IF fresh THEN 0 ELSE dark
                \/ UNCHANGED <<st, dark>>
      BY <1>2 DEF Evidence
    <2>2. run' \in Runs
      <3>1. run \in Runs
        BY <1>2, RunTyped DEF Evidence, UnderWay
      <3>2. QED
        BY <2>1, <3>1 DEF Runs, UnderWay
    <2>3. st' \in States
      BY <1>0, <2>1 DEF States
    <2>4. UNCHANGED <<day, unit, paused, marker, owed>> /\ dark' \in Nat
      BY <1>0, <1>2, <2>1 DEF Evidence
    <2>5. QED
      BY <1>0, <2>2, <2>3, <2>4 DEF Typed
  <1>3. CASE MarkRetry
    <2>1. run' \in Runs
      <3>1. run \in Runs /\ run' = [run EXCEPT !.pc = "decide"]
        BY <1>3, RunTyped DEF MarkRetry, UnderWay
      <3>2. QED
        BY <3>1 DEF Runs, UnderWay
    <2>2. run.ctx.key \in Nat /\ run.cycle \in Nat
      BY <1>0, <1>3 DEF MarkRetry, Runs, Endings, Contexts
    <2>3. UNCHANGED <<day, unit, paused, st, dark>> /\ marker' \in Nat /\ owed' \in Nat
      BY <1>0, <1>3, <2>2 DEF MarkRetry, Mark
    <2>4. QED
      BY <1>0, <2>1, <2>3 DEF Typed
  <1>4. CASE Decide
    <2>1. PICK w \in Evaluations, profit \in BOOLEAN, trusted \in Reliances, seen \in Readings :
             run' = DecidedRun(w, profit, trusted, seen)
      BY <1>4 DEF Decide
    <2> DEFINE consec == IF run.fresh THEN Booking(w).weak ELSE st.weak
               b == Booking(w)
               a == Action(Positive(w, profit), Negative(w, consec), trusted, seen)
    <2>2. run' = [run EXCEPT !.pc = "act", !.cooldown = paused, !.next = b, !.action = a]
      BY <2>1 DEF DecidedRun
    <2>3. b \in States
      BY <1>4, BookingTyped DEF Decide, UnderWay
    <2>4. a \in {"none", "disable", "enable", "override", "start", "blocked"}
      BY DEF Action
    <2>5. run \in Runs
      BY <1>4, RunTyped DEF Decide, UnderWay
    <2> HIDE DEF a, b
    <2>6. run' \in Runs
      BY <1>0, <2>2, <2>3, <2>4, <2>5 DEF Runs, UnderWay
    <2>7. UNCHANGED <<day, unit, paused, marker, st, owed, dark>>
      BY <1>4 DEF Decide
    <2>8. QED
      BY <1>0, <2>6, <2>7 DEF Typed
  <1>5. CASE SystemdSilent
    <2>1. PICK w \in Windows : run' = [run EXCEPT !.pc = "save", !.next = Booking(w)]
      BY <1>5 DEF SystemdSilent
    <2>2. run' \in Runs
      <3>1. run \in Runs /\ Booking(w) \in States
        BY <1>5, BookingTyped, RunTyped DEF SystemdSilent, UnderWay
      <3>2. QED
        BY <2>1, <3>1 DEF Runs, UnderWay
    <2>3. UNCHANGED <<day, unit, paused, marker, st, owed, dark>>
      BY <1>5 DEF SystemdSilent
    <2>4. QED
      BY <1>0, <2>2, <2>3 DEF Typed
  <1>6. CASE ActDisable \/ ActStart \/ ActEnable
    <2>1. run \in Runs /\ run' = [run EXCEPT !.pc = "save"]
      BY <1>6, RunTyped DEF ActDisable, ActStart, ActEnable, UnderWay
    <2>2. run' \in Runs
      BY <2>1 DEF Runs, UnderWay
    <2>3. unit' \in UnitStates
      BY <1>0, <1>6, UnitTyped DEF ActDisable, ActStart, ActEnable
    <2>4. UNCHANGED <<day, paused, marker, st, owed, dark>>
      BY <1>6 DEF ActDisable, ActStart, ActEnable
    <2>5. QED
      BY <1>0, <2>2, <2>3, <2>4 DEF Typed
  <1>7. CASE ActFlag \/ ActNone
    <2>1. run \in Runs /\ run' \in {[run EXCEPT !.pc = "save"], [run EXCEPT !.pc = "enable"]}
      BY <1>7, RunTyped DEF ActFlag, ActNone, UnderWay
    <2>2. run' \in Runs
      BY <2>1 DEF Runs, UnderWay
    <2>3. UNCHANGED <<day, unit, paused, marker, st, owed, dark>>
      BY <1>7 DEF ActFlag, ActNone
    <2>4. QED
      BY <1>0, <2>2, <2>3 DEF Typed
  <1>9. CASE Save
    <2>1. run' \in Endings /\ UNCHANGED <<day, unit, paused, marker, owed, dark>>
      BY <1>9 DEF Save, Ended, Endings
    <2>2. run.next \in States
      BY <1>0, <1>9 DEF Save, Runs, Endings
    <2>3. st' \in States
      BY <1>0, <1>9, <2>2 DEF Save
    <2>4. QED
      BY <1>0, <2>1, <2>3 DEF Typed
  <1>10. CASE Unusable \/ Kill
    <2>1. run' \in Endings /\ UNCHANGED <<day, unit, paused, marker, owed, dark>>
      BY <1>10 DEF Unusable, Kill, Crashed, Ended, Endings
    <2>2. st' \in States
      BY <1>0, <1>10 DEF Unusable, Kill, States
    <2>3. QED
      BY <1>0, <2>1, <2>2 DEF Typed
  <1>11. CASE Suspend \/ Release \/ ConsumeFlag
    <2>1. UNCHANGED <<day, unit, marker, st, run, owed, dark>>
      BY <1>11 DEF Suspend, Release, ConsumeFlag
    <2>2. paused' \in {TRUE, FALSE, day - flag > FlagDays}
      BY <1>11 DEF Suspend, Release, ConsumeFlag
    <2>3. (day - flag > FlagDays) \in BOOLEAN
      OBVIOUS
    <2>4. paused' \in BOOLEAN
      BY ONLY <2>2, <2>3
    <2>5. QED
      BY <1>0, <2>1, <2>4 DEF Typed
  <1>12. CASE BotDies \/ Operator
    <2>1. UNCHANGED <<day, paused, marker, st, run, owed, dark>>
      BY <1>12 DEF BotDies, Operator
    <2>2. unit' \in UnitStates
      BY <1>12, UnitTyped DEF BotDies, Operator
    <2>3. QED
      BY <1>0, <2>1, <2>2 DEF Typed
  <1>13. CASE NextDay
    <2>1. UNCHANGED <<unit, paused, marker, st, run, owed, dark>> /\ day' = day + 1
      BY <1>13 DEF NextDay
    <2>2. QED
      BY <1>0, <2>1 DEF Typed
  <1>14. QED
    BY <1>1, <1>2, <1>3, <1>4, <1>5, <1>6, <1>7, <1>9, <1>10, <1>11, <1>12, <1>13 DEF Next

\* The variables of the monitor keep their types.
THEOREM TypesKept == Spec => []Typed
  <1>1. Typed /\ [Next]_vars => Typed'
    <2> SUFFICES ASSUME Typed, [Next]_vars PROVE Typed'
      OBVIOUS
    <2>1. CASE Next
      BY <2>1, StepTyped
    <2>2. CASE UNCHANGED vars
      BY <2>2 DEF vars, history, Typed
    <2>3. QED
      BY <2>1, <2>2
  <1>2. QED
    BY InitTyped, <1>1, PTL DEF Spec

-------------------------------------------------------------------------------
(* The unit is off by the time the last weak week is booked *)

Excused == "weak" \in excuses
LongStreak == run.fresh /\ run.next.weak >= WeakLimit

\* WeakWeeksStop holds before and after a booking because a run that is to book the
\* last weak week has chosen to stop the unit, and has done so before it saves. A run
\* that starts the unit books no such week, and none is on disk.
StopInv ==
    /\ WeakWeeksStop
    /\ run.pc = "act" /\ LongStreak /\ On(unit) => run.action = "disable" \/ Excused
    /\ run.pc = "act" /\ run.action = "start" =>
           ~LongStreak /\ (st.weak >= WeakLimit => Excused)
    /\ run.pc = "save" /\ LongStreak /\ On(unit) => Excused

LEMMA InitStops == Init => StopInv
  BY MonitorAssumption DEF Init, StopInv, WeakWeeksStop, Ended

\* Between runs, and at the places where nothing is decided, only the first part of
\* StopInv says anything.
LEMMA StopsElsewhere ==
    ASSUME StopInv, run'.pc \notin {"act", "save"}, st'.weak = st.weak,
           On(unit') => On(unit) \/ Excused', Excused => Excused'
    PROVE  StopInv'
  BY DEF StopInv, WeakWeeksStop, On, Excused

\* A decision keeps StopInv: negative evidence comes before everything else.
LEMMA DecideStops == ASSUME Typed, StopInv, Decide PROVE StopInv'
  <1>1. PICK w \in Evaluations, profit \in BOOLEAN, trusted \in Reliances, seen \in Readings :
           /\ run' = DecidedRun(w, profit, trusted, seen)
           /\ excuses' = IF On(unit) /\ ~On(seen) THEN excuses \union {"weak", "blind"} ELSE excuses
    BY DEF Decide
  <1> DEFINE consec == IF run.fresh THEN Booking(w).weak ELSE st.weak
             b == Booking(w)
             a == Action(Positive(w, profit), Negative(w, consec), trusted, seen)
  <1>2. run' = [run EXCEPT !.pc = "act", !.cooldown = paused, !.next = b, !.action = a]
    BY <1>1 DEF DecidedRun
  <1>3. b \in States /\ run \in Runs /\ UNCHANGED <<unit, st>>
    BY BookingTyped, RunTyped DEF Decide, UnderWay
  <1>3a. (Excused => Excused') /\ (On(unit) => On(seen) \/ Excused')
    BY <1>1 DEF Excused
  <1>4. consec >= WeakLimit /\ On(seen) => a = "disable"
    <2>1. consec >= WeakLimit => Negative(w, consec)
      BY DEF Negative
    <2>2. \A p, t : \A n \in BOOLEAN : n /\ On(seen) => Action(p, n, t, seen) = "disable"
      BY DEF Action
    <2>3. Negative(w, consec) \in BOOLEAN
      BY DEF Negative
    <2>4. QED
      BY <2>1, <2>2, <2>3
  <1>5. a = "start" => On(seen) /\ On(unit)
    BY DEF Action, On, Readings
  <1>6. consec = IF run.fresh THEN b.weak ELSE st.weak
    OBVIOUS
  <1> HIDE DEF a, b, consec
  <1>7. run'.pc = "act" /\ run'.fresh = run.fresh /\ run'.next = b /\ run'.action = a
    BY <1>2, <1>3 DEF Runs
  <1>8. LongStreak' => consec >= WeakLimit
    BY <1>6, <1>7 DEF LongStreak
  <1>9. LongStreak' /\ On(unit') => run'.action = "disable" \/ Excused'
    BY <1>3, <1>3a, <1>4, <1>7, <1>8
  <1>10. run'.action = "start" => ~LongStreak' /\ (st'.weak >= WeakLimit => Excused')
    BY <1>3, <1>3a, <1>4, <1>5, <1>7, <1>8 DEF StopInv, WeakWeeksStop, Excused
  <1>11. WeakWeeksStop'
    BY <1>3, <1>3a DEF StopInv, WeakWeeksStop, Excused
  <1>12. QED
    BY <1>7, <1>9, <1>10, <1>11 DEF StopInv

LEMMA StepStops == ASSUME Typed, StopInv, Next PROVE StopInv'
  <1> USE DEF history
  <1>1. CASE Cron \/ Manual
    <2>1. ASSUME NEW sync \in BOOLEAN, Begin(sync) PROVE StopInv'
      <3>1. run'.pc \in {"evidence", "idle"} /\ UNCHANGED <<unit, st>> /\ (Excused => Excused')
        BY <2>1 DEF Begin, Crashed, Cut, Ended, Excused
      <3>2. QED
        BY <3>1, StopsElsewhere
    <2>2. CASE UNCHANGED <<day, unit, paused, flag, marker, st, run, history>>
      BY <2>2 DEF StopInv, WeakWeeksStop, LongStreak, Excused
    <2>3. QED
      BY <1>1, <2>1, <2>2 DEF Cron, Manual
  <1>2. CASE Evidence \/ MarkRetry
    <2>1. run \in Runs /\ st \in States
      BY <1>2, RunTyped DEF Evidence, MarkRetry, UnderWay, Typed
    <2>2. run'.pc \in {"marker", "decide"}
      BY <1>2, <2>1 DEF Evidence, MarkRetry, Runs
    <2>3. st'.weak = st.weak /\ UNCHANGED unit /\ (Excused => Excused')
      BY <1>2, <2>1 DEF Evidence, MarkRetry, States, Excused
    <2>4. QED
      BY <2>2, <2>3, StopsElsewhere
  <1>3. CASE Unusable \/ Kill
    <2>1. st \in States
      BY DEF Typed
    <2>2. run'.pc = "idle" /\ st'.weak = st.weak /\ UNCHANGED unit /\ (Excused => Excused')
      BY <1>3, <2>1 DEF Unusable, Kill, Crashed, Cut, Ended, States, Excused
    <2>3. QED
      BY <2>2, StopsElsewhere
  <1>4. CASE Decide
    BY <1>4, DecideStops
  <1>5. CASE SystemdSilent
    <2>1. run \in Runs
      BY <1>5, RunTyped DEF SystemdSilent, UnderWay
    <2>2. run'.pc = "save" /\ Excused'
      BY <1>5, <2>1 DEF SystemdSilent, Runs, Excused
    <2>3. QED
      BY <2>2 DEF StopInv, WeakWeeksStop, Excused
  <1>6. CASE ActDisable \/ ActEnable
    <2>1. run \in Runs
      BY <1>6, RunTyped DEF ActDisable, ActEnable, UnderWay
    <2>2. run'.pc = "save"
      BY <1>6, <2>1 DEF ActDisable, ActEnable, Runs
    <2>3. ~On(unit') \/ Excused'
      BY <1>6 DEF ActDisable, ActEnable, On, Excused
    <2>4. QED
      BY <2>2, <2>3 DEF StopInv, WeakWeeksStop, Excused
  <1>7. CASE ActFlag \/ ActNone
    <2>1. run \in Runs
      BY <1>7, RunTyped DEF ActFlag, ActNone, UnderWay
    <2>2. run'.pc \in {"enable", "save"} /\ run'.fresh = run.fresh /\ run'.next = run.next
      BY <1>7, <2>1 DEF ActFlag, ActNone, Runs
    <2>3. UNCHANGED <<unit, st, excuses>> /\ run.pc = "act" /\ run.action # "disable"
      BY <1>7 DEF ActFlag, ActNone
    <2>4. QED
      BY <2>2, <2>3 DEF StopInv, WeakWeeksStop, LongStreak, Excused
  <1>8. CASE ActStart
    <2>1. run \in Runs
      BY <1>8, RunTyped DEF ActStart, UnderWay
    <2>2. run'.pc = "save" /\ run'.fresh = run.fresh /\ run'.next = run.next
      BY <1>8, <2>1 DEF ActStart, Runs
    <2>3. UNCHANGED <<st, excuses>> /\ run.pc = "act" /\ run.action = "start"
      BY <1>8 DEF ActStart
    <2>4. QED
      BY <2>2, <2>3 DEF StopInv, WeakWeeksStop, LongStreak, Excused
  <1>9. CASE Save
    <2>1. run'.pc = "idle" /\ UNCHANGED unit
      BY <1>9 DEF Save, Ended
    <2>2. st' = IF run.fresh THEN run.next ELSE st
      BY <1>9 DEF Save
    <2>3. st'.weak >= WeakLimit => (Excused => Excused')
      <3>1. st' \in States /\ WeakLimit \in Nat
        BY <2>2, <1>9, RunTyped, MonitorAssumption DEF Save, Typed, Runs, UnderWay
      <3>2. QED
        BY <1>9, <3>1 DEF Save, Excused, States
    <2>4. QED
      BY <1>9, <2>1, <2>2, <2>3 DEF Save, StopInv, WeakWeeksStop, LongStreak, Excused
  <1>10. CASE Suspend \/ Release \/ ConsumeFlag \/ NextDay
    <2>1. UNCHANGED <<unit, st, run, excuses>>
      BY <1>10 DEF Suspend, Release, ConsumeFlag, NextDay
    <2>2. QED
      BY <2>1 DEF StopInv, WeakWeeksStop, LongStreak, Excused
  <1>11. CASE BotDies \/ Operator
    <2>1. unit \in UnitStates /\ UNCHANGED <<st, run>>
      BY <1>11 DEF BotDies, Operator, Typed
    <2>2. (Excused => Excused') /\ (On(unit') => On(unit) \/ Excused')
      BY <1>11, <2>1 DEF BotDies, Operator, Excused, On, UnitStates
    <2>3. QED
      BY <2>1, <2>2 DEF StopInv, WeakWeeksStop, LongStreak, Excused
  <1>12. QED
    BY <1>1, <1>2, <1>3, <1>4, <1>5, <1>6, <1>7, <1>8, <1>9, <1>10, <1>11 DEF Next

\* No WeakLimit-th weak week is on disk with the unit still on (act on the decision,
\* then save state.json), whichever runs crash, are killed or are started by hand.
THEOREM UnitStops == Spec => []WeakWeeksStop
  <1>1. Typed /\ StopInv /\ [Next]_vars => StopInv'
    <2> SUFFICES ASSUME Typed, StopInv, [Next]_vars PROVE StopInv'
      OBVIOUS
    <2>1. CASE UNCHANGED vars
      BY <2>1 DEF vars, history, StopInv, WeakWeeksStop, LongStreak, Excused
    <2>2. QED
      BY <2>1, StepStops
  <1>2. StopInv => WeakWeeksStop
    BY DEF StopInv
  <1>3. QED
    BY InitStops, TypesKept, <1>1, <1>2, PTL DEF Spec

-------------------------------------------------------------------------------
(* A blind Sunday keeps its makeup runs armed *)

\* Until the marker is written a run has nothing to show for a blind Sunday.
Blinding == {"evidence", "marker"}
\* Nothing was cut short since the last fresh evidence, and everything synced.
Whole == "cut" \notin excuses

\* What a run knows of the marker at each of its places: it was cleared or is the one
\* this run makes up for; then it is what the evidence of this run says. The week a run
\* is for is, as long as the last Sunday is blind, the week of that Sunday.
RetryInv ==
    /\ BlindSundayIsRetried
    /\ dark > 0 => counted # 0
    /\ run.pc \in UnderWay =>
        /\ run.ctx.key # 0 /\ marker \in {0, run.ctx.key}
        /\ Whole => run.synced
        /\ Whole /\ dark > 0 => run.ctx.key = counted
    /\ run.pc \in Blinding => run.ctx.retry \/ marker = 0
    /\ run.pc = "marker" /\ run.synced /\ run.fresh => dark = 0
    /\ run.pc \in UnderWay \ Blinding /\ run.synced =>
           IF run.fresh THEN marker = 0 /\ dark = 0 ELSE marker = run.ctx.key

LEMMA InitRetries == Init => RetryInv
  <1> SUFFICES ASSUME Init PROVE RetryInv
    OBVIOUS
  <1>1. run.pc = "idle" /\ dark = 0
    BY DEF Init, Ended
  <1>2. QED
    BY <1>1 DEF RetryInv, BlindSundayIsRetried, UnderWay, Blinding

\* Steps that leave alone the marker, the calendar and what a run knows of them.
LEMMA RetryFrame ==
    ASSUME RetryInv, UNCHANGED <<run, marker, dark, counted>>, Whole' => Whole
    PROVE  RetryInv'
  BY DEF RetryInv, BlindSundayIsRetried, Whole

LEMMA BeginRetries ==
    ASSUME Typed, RetryInv, run.pc = "idle", NEW sync \in BOOLEAN, Begin(sync)
    PROVE  RetryInv'
  <1>1. day # 0 /\ day \in Nat /\ marker \in Nat /\ dark \in Nat
    BY DEF Typed
  <1>2. /\ Sunday(day) => counted' = day /\ marker' = 0
        /\ ~Sunday(day) => UNCHANGED <<marker, dark, counted>>
    BY DEF Begin
  <1>3. dark' > 0 => counted' # 0
    BY <1>1, <1>2 DEF RetryInv
  <1>4. CASE st.torn
    <2>1. run'.pc = "idle" /\ ~Whole'
      BY <1>4 DEF Begin, Crashed, Cut, Ended, Whole
    <2>2. QED
      BY <1>3, <2>1 DEF RetryInv, BlindSundayIsRetried, Whole, UnderWay, Blinding
  <1>5. CASE ~st.torn
    <2> DEFINE c == Cycle
               r == RunContext
    <2>1. /\ run' = [pc |-> "evidence", ctx |-> r, cycle |-> c, synced |-> sync,
                     fresh |-> FALSE, cooldown |-> FALSE, action |-> "none", next |-> st]
          /\ (Whole' => Whole /\ sync)
      BY <1>5 DEF Begin, Cut, Whole
    <2>2. /\ r.retry <=> marker # 0 /\ ~Sunday(day)
          /\ r.key = IF marker # 0 /\ ~Sunday(day) THEN marker ELSE day
      BY DEF RunContext
    <2> HIDE DEF c, r
    <2>3. run'.pc = "evidence" /\ run'.ctx = r /\ run'.synced = sync
      BY <2>1
    <2>4. r.key # 0 /\ marker' \in {0, r.key} /\ (r.retry \/ marker' = 0)
      BY <1>1, <1>2, <2>2
    <2>5. Whole' /\ dark' > 0 => r.key = counted'
      <3>1. CASE Sunday(day)
        BY <1>2, <2>2, <3>1
      <3>2. CASE ~Sunday(day)
        <4>1. Whole /\ dark > 0 => marker = counted /\ counted # 0
          BY DEF RetryInv, BlindSundayIsRetried, Whole
        <4>2. QED
          BY <1>2, <2>1, <2>2, <3>2, <4>1
      <3>3. QED
        BY <3>1, <3>2
    <2>6. BlindSundayIsRetried'
      BY <2>3 DEF BlindSundayIsRetried
    <2>7. QED
      BY <1>3, <2>1, <2>3, <2>4, <2>5, <2>6 DEF RetryInv, UnderWay, Blinding
  <1>6. QED
    BY <1>4, <1>5

\* A run that goes on keeps its week and its evidence.
LEMMA GoesOn ==
    ASSUME Typed,
           SystemdSilent \/ Decide \/ ActDisable \/ ActFlag \/ ActEnable \/ ActStart \/ ActNone
    PROVE  /\ run.pc \in {"decide", "act", "enable"} /\ run'.pc \in {"act", "enable", "save"}
           /\ run'.ctx = run.ctx /\ run'.synced = run.synced /\ run'.fresh = run.fresh
           /\ UNCHANGED <<marker, dark, counted>> /\ (Whole' <=> Whole)
  <1> USE DEF history
  <1>1. run.pc \in {"decide", "act", "enable"} /\ UNCHANGED <<marker, dark, counted>>
    BY DEF SystemdSilent, Decide, ActDisable, ActFlag, ActEnable, ActStart, ActNone
  <1>1a. Whole' <=> Whole
    <2>1. \/ UNCHANGED excuses
          \/ excuses' = excuses \union {"weak", "blind"}
          \/ excuses' = excuses \ {"weak", "blind"}
          \/ excuses' = excuses \union {"weak"}
      BY DEF SystemdSilent, Decide, ActDisable, ActFlag, ActEnable, ActStart, ActNone
    <2>2. QED
      BY <2>1 DEF Whole
  <1>2. run \in Runs
    BY <1>1, RunTyped DEF UnderWay
  <1>3. CASE SystemdSilent
    <2>1. PICK b : run' = [run EXCEPT !.pc = "save", !.next = b]
      BY <1>3 DEF SystemdSilent
    <2>2. QED
      BY <1>1, <1>1a, <1>2, <2>1 DEF Runs
  <1>4. CASE Decide
    <2>1. PICK w, profit, trusted, seen : run' = DecidedRun(w, profit, trusted, seen)
      BY <1>4 DEF Decide
    <2>2. PICK b, a :
             run' = [run EXCEPT !.pc = "act", !.cooldown = paused, !.next = b, !.action = a]
      BY <2>1 DEF DecidedRun
    <2>3. QED
      BY <1>1, <1>1a, <1>2, <2>2 DEF Runs
  <1>5. CASE ActDisable \/ ActFlag \/ ActEnable \/ ActStart \/ ActNone
    <2>1. run' \in {[run EXCEPT !.pc = "save"], [run EXCEPT !.pc = "enable"]}
      BY <1>5 DEF ActDisable, ActFlag, ActEnable, ActStart, ActNone
    <2>2. QED
      BY <1>1, <1>1a, <1>2, <2>1 DEF Runs
  <1>6. QED
    BY <1>1, <1>3, <1>4, <1>5

LEMMA EvidenceRetries == ASSUME Typed, RetryInv, Evidence PROVE RetryInv'
  <1>1. PICK fresh \in BOOLEAN :
           /\ run' = [run EXCEPT !.pc = "marker", !.fresh = fresh]
           /\ run.synced => dark' = IF fresh THEN 0 ELSE dark
           /\ run.synced => excuses' = IF fresh THEN excuses \ {"blind", "cut"} ELSE excuses
           /\ ~run.synced => UNCHANGED <<dark, excuses>>
    BY DEF Evidence
  <1>2. run \in Runs /\ run.pc = "evidence" /\ UNCHANGED <<marker, counted>>
    BY RunTyped DEF Evidence, UnderWay
  <1>3. /\ run'.pc = "marker" /\ run'.ctx = run.ctx /\ run'.synced = run.synced
        /\ run'.fresh = fresh
    BY <1>1, <1>2 DEF Runs
  <1>4. run.synced /\ fresh => dark' = 0
    BY <1>1
  <1>5. ~(run.synced /\ fresh) => UNCHANGED <<dark, excuses>>
    BY <1>1, <1>2 DEF Runs
  <1>6. Whole' => run.synced
    BY <1>2, <1>5 DEF RetryInv, Whole, UnderWay
  <1>7. Whole' /\ dark' > 0 => run.ctx.key = counted'
    BY <1>2, <1>4, <1>5 DEF RetryInv, Whole, UnderWay
  <1>8. dark' > 0 => counted' # 0
    BY <1>2, <1>4, <1>5 DEF RetryInv
  <1>9. /\ run.ctx.key # 0 /\ marker' \in {0, run.ctx.key}
        /\ run.ctx.retry \/ marker' = 0
    BY <1>2 DEF RetryInv, UnderWay, Blinding
  <1>10. BlindSundayIsRetried'
    BY <1>3 DEF BlindSundayIsRetried
  <1>11. QED
    BY <1>3, <1>4, <1>6, <1>7, <1>8, <1>9, <1>10 DEF RetryInv, UnderWay, Blinding

LEMMA MarkRetries == ASSUME Typed, RetryInv, MarkRetry PROVE RetryInv'
  <1>1. run \in Runs /\ run.pc = "marker" /\ run' = [run EXCEPT !.pc = "decide"]
    BY RunTyped DEF MarkRetry, UnderWay
  <1>2. /\ run'.pc = "decide" /\ run'.ctx = run.ctx /\ run'.synced = run.synced
        /\ run'.fresh = run.fresh
    BY <1>1 DEF Runs
  <1>3. UNCHANGED <<dark, counted, excuses>>
    BY DEF MarkRetry
  <1>4. /\ run.ctx.key # 0 /\ marker \in {0, run.ctx.key}
        /\ run.ctx.retry \/ marker = 0
        /\ Whole => run.synced
        /\ Whole /\ dark > 0 => run.ctx.key = counted
        /\ run.synced /\ run.fresh => dark = 0
        /\ dark > 0 => counted # 0
    BY <1>1 DEF RetryInv, UnderWay, Blinding
  <1>5. /\ marker' \in {0, run.ctx.key}
        /\ run.synced => IF run.fresh THEN marker' = 0 ELSE marker' = run.ctx.key
    BY <1>4 DEF MarkRetry, Mark
  <1>6. BlindSundayIsRetried'
    BY <1>2 DEF BlindSundayIsRetried
  <1>7. QED
    BY <1>2, <1>3, <1>4, <1>5, <1>6 DEF RetryInv, UnderWay, Blinding, Whole

\* A run that has marked its week leaves the marker as it is, whether it is killed or not.
LEMMA EndRetries == ASSUME Typed, RetryInv, Save \/ Unusable \/ Kill PROVE RetryInv'
  <1>1. run'.pc = "idle" /\ UNCHANGED <<marker, dark, counted>>
    BY DEF Save, Unusable, Kill, Crashed, Ended
  <1>2. CASE Unusable \/ (Kill /\ run.pc \in Blinding)
    <2>1. ~Whole'
      BY <1>2 DEF Unusable, Kill, Crashed, Cut, Whole, Blinding
    <2>2. QED
      BY <1>1, <2>1 DEF RetryInv, BlindSundayIsRetried, Whole, UnderWay, Blinding
  <1>3. CASE Save \/ (Kill /\ run.pc \notin Blinding)
    <2>1. run.pc = "idle" \/ (run \in Runs /\ run.pc \in UnderWay \ Blinding)
      <3>1. run.pc \notin Blinding
        BY <1>3 DEF Save, Blinding
      <3>2. QED
        BY <3>1 DEF Typed, Runs, Endings
    <2>2. Whole' => Whole
      BY <1>3 DEF Save, Kill, Whole, Blinding
    <2>3. Whole /\ dark > 0 => marker = counted
      <3>1. CASE run.pc = "idle"
        BY <3>1 DEF RetryInv, BlindSundayIsRetried, Whole
      <3>2. CASE run \in Runs /\ run.pc \in UnderWay \ Blinding
        BY <3>2 DEF RetryInv, Runs
      <3>3. QED
        BY <2>1, <3>1, <3>2
    <2>5. QED
      BY <1>1, <2>2, <2>3 DEF RetryInv, BlindSundayIsRetried, Whole, UnderWay, Blinding
  <1>4. QED
    BY <1>2, <1>3

LEMMA StepRetries == ASSUME Typed, RetryInv, Next PROVE RetryInv'
  <1> USE DEF history
  <1>1. CASE Cron \/ Manual
    <2>1. CASE UNCHANGED <<day, unit, paused, flag, marker, st, run, history>>
      BY <2>1, RetryFrame DEF Whole
    <2>2. QED
      BY <1>1, <2>1, BeginRetries DEF Cron, Manual
  <1>2. CASE SystemdSilent \/ Decide \/ ActDisable \/ ActFlag \/ ActEnable \/ ActStart \/ ActNone
    <2>1. /\ run.pc \in {"decide", "act", "enable"} /\ run'.pc \in {"act", "enable", "save"}
          /\ run'.ctx = run.ctx /\ run'.synced = run.synced /\ run'.fresh = run.fresh
          /\ UNCHANGED <<marker, dark, counted>> /\ (Whole' <=> Whole)
      BY <1>2, GoesOn
    <2>2. BlindSundayIsRetried'
      BY <2>1 DEF BlindSundayIsRetried
    <2>3. QED
      BY <2>1, <2>2 DEF RetryInv, UnderWay, Blinding
  <1>3. CASE Suspend \/ Release \/ ConsumeFlag \/ NextDay \/ BotDies \/ Operator
    <2>1. UNCHANGED <<run, marker, dark, counted>> /\ (Whole' => Whole)
      BY <1>3 DEF Suspend, Release, ConsumeFlag, NextDay, BotDies, Operator, Whole
    <2>2. QED
      BY <2>1, RetryFrame
  <1>4. QED
    BY <1>1, <1>2, <1>3, EvidenceRetries, MarkRetries, EndRetries DEF Next

LEMMA RetriesKept == Spec => []RetryInv
  <1>1. Typed /\ RetryInv /\ [Next]_vars => RetryInv'
    <2> SUFFICES ASSUME Typed, RetryInv, [Next]_vars PROVE RetryInv'
      OBVIOUS
    <2>1. CASE UNCHANGED vars
      BY <2>1, RetryFrame DEF vars, history, Whole
    <2>2. QED
      BY <2>1, StepRetries
  <1>2. QED
    BY InitRetries, TypesKept, <1>1, PTL DEF Spec

\* From a blind Sunday on, until a run has fresh evidence, the makeup runs are armed, and
\* armed for that Sunday, over missed days, makeup runs, runs by hand, refusals of systemd
\* and kills after the marker is written (RunContext, MarkRetry); excused is a run that was
\* cut short before it marked its week or did not sync.
THEOREM MakeupsArmed == Spec => []BlindSundayIsRetried
  <1>1. RetryInv => BlindSundayIsRetried
    BY DEF RetryInv
  <1>2. QED
    BY RetriesKept, <1>1, PTL

-------------------------------------------------------------------------------
(* A season of blind Sundays takes the unit off *)

\* Nothing excuses the unit for being on, or for being about to.
Starting == run.pc = "act" /\ run.action = "start"
Seeing == (On(unit) \/ Starting) /\ excuses \intersect {"blind", "cut"} = {}

\* The streak on disk is at most one Sunday short of what the calendar says: a blind
\* Sunday leaves a marker, and the Sunday that finds it counts it. A run that is blind
\* itself adds itself to the streak, so a run that must stop the unit decides so, and no
\* other run gets to its end.
BlindInv ==
    /\ BlindWeeksStop
    /\ marker <= day /\ (Sunday(day) /\ marker = day => counted = day)
    /\ run.pc \in Blinding => run.ctx.key <= day /\ (Sunday(day) => counted = day)
    /\ run.pc = "act" /\ run.action \in {"enable", "override"} => run.fresh
    /\ run.pc = "enable" => run.fresh
    /\ Seeing =>
        /\ run.pc = "evidence" => dark <= st.blind + (IF run.ctx.blindWeek THEN 2 ELSE 1)
        /\ run.pc # "evidence" => dark <= st.blind + 1
        /\ run.pc \notin Blinding /\ dark > 0 => marker # 0
        /\ run.pc = "act" /\ dark >= BlindLimit => run.action = "disable"
        /\ run.pc = "save" => dark < BlindLimit

LEMMA InitSees == Init => BlindInv
  <1> SUFFICES ASSUME Init PROVE BlindInv
    OBVIOUS
  <1>1. WeekLen \in Nat /\ WeekLen > 0 /\ BlindLimit \in Nat /\ BlindLimit > 0
    BY MonitorAssumption
  <1>2. run.pc = "idle" /\ dark = 0 /\ marker = 0 /\ day = WeekLen /\ st.blind = 0
    BY DEF Init, Ended
  <1>3. QED
    BY <1>1, <1>2 DEF BlindInv, BlindWeeksStop, Blinding

\* Steps that touch neither what the run remembers nor what it knows of the calendar.
LEMMA BlindFrame ==
    ASSUME BlindInv, UNCHANGED <<day, run, st, marker, dark, counted>>, Seeing' => Seeing
    PROVE  BlindInv'
  <1>1. run.pc = "idle" /\ run.ended # "killed" /\ dark >= BlindLimit => ~Seeing
    BY DEF BlindInv, BlindWeeksStop, Seeing, Starting
  <1>2. BlindWeeksStop'
    BY <1>1 DEF BlindWeeksStop, Seeing
  <1>3. QED
    BY <1>2 DEF BlindInv

\* A run begins on a Sunday that is counted, and notices the marker of an earlier one.
LEMMA BeginSees == 
    ASSUME Typed, BlindInv, run.pc = "idle", NEW sync \in BOOLEAN, Begin(sync)
    PROVE  BlindInv'
  <1>0. day \in Nat /\ day # 0 /\ marker \in Nat /\ dark \in Nat /\ st.blind \in Nat
    BY DEF Typed, States
  <1>1. UNCHANGED <<day, unit, st>> /\ marker' \in {marker, 0}
    BY DEF Begin
  <1>2. Sunday(day) => counted' = day /\ marker' = 0
    BY DEF Begin
  <1>3. marker' <= day' /\ (Sunday(day') /\ marker' = day' => counted' = day')
    BY <1>0, <1>1, <1>2 DEF BlindInv
  <1>4. CASE st.torn
    <2>1. run' = Ended("crashed") /\ "cut" \in excuses'
      BY <1>4 DEF Begin, Crashed, Cut
    <2>2. run'.pc = "idle" /\ ~Seeing'
      BY <2>1 DEF Ended, Seeing
    <2>3. BlindWeeksStop'
      BY <2>1 DEF BlindWeeksStop
    <2>4. QED
      BY <1>3, <2>2, <2>3 DEF BlindInv, Blinding
  <1>5. CASE ~st.torn
    <2> DEFINE c == Cycle
               r == RunContext
    <2>1. /\ run' = [pc |-> "evidence", ctx |-> r, cycle |-> c, synced |-> sync,
                     fresh |-> FALSE, cooldown |-> FALSE, action |-> "none", next |-> st]
          /\ excuses \subseteq excuses'
      BY <1>5 DEF Begin, Cut
    <2>2. r.key \in {day, marker}
      BY DEF RunContext
    <2>3. r.blindWeek <=> marker # 0 /\ Sunday(day) /\ marker # day
      BY DEF RunContext
    <2> HIDE DEF c, r
    <2>4. run'.pc = "evidence" /\ run'.ctx = r
      BY <2>1
    <2>5. run'.ctx.key <= day'
      BY <1>0, <1>1, <2>2, <2>4 DEF BlindInv
    <2>6. Seeing => dark <= st.blind + 1 /\ (dark > 0 => marker # 0)
      BY DEF BlindInv, Blinding
    <2>7. Seeing' => Seeing
      BY <1>1, <2>1, <2>4 DEF Seeing, Starting
    <2>8. Seeing => dark' <= st.blind + (IF r.blindWeek THEN 2 ELSE 1)
      <3>1. CASE dark' = dark
        BY <1>0, <2>6, <3>1
      <3>2. CASE dark' = dark + 1 /\ Sunday(day) /\ counted # day
        <4>1. marker # day
          BY <3>2 DEF BlindInv
        <4>2. Seeing /\ dark > 0 => r.blindWeek
          BY <2>3, <2>6, <3>2, <4>1
        <4>3. QED
          BY <1>0, <2>6, <3>2, <4>2
      <3>3. QED
        BY <3>1, <3>2 DEF Begin
    <2>9. BlindWeeksStop'
      BY <2>4 DEF BlindWeeksStop
    <2>10. QED
      BY <1>1, <1>2, <1>3, <2>4, <2>5, <2>7, <2>8, <2>9 DEF BlindInv, Blinding
  <1>6. QED
    BY <1>4, <1>5

\* Blind evidence of a week that had been blind before is saved in the streak.
LEMMA EvidenceSees == ASSUME Typed, BlindInv, RetryInv, Evidence PROVE BlindInv'
  <1>0. day \in Nat /\ marker \in Nat /\ dark \in Nat /\ st \in States
    BY DEF Typed
  <1>1. PICK fresh \in BOOLEAN :
           /\ run' = [run EXCEPT !.pc = "marker", !.fresh = fresh]
           /\ run.synced =>
               /\ st' = [st EXCEPT !.blind = IF fresh THEN 0
                                             ELSE IF run.ctx.blindWeek THEN @ + 1 ELSE @]
               /\ dark' = IF fresh THEN 0 ELSE dark
               /\ excuses' = IF fresh THEN excuses \ {"blind", "cut"} ELSE excuses
           /\ ~run.synced => UNCHANGED <<st, dark, excuses>>
    BY DEF Evidence
  <1>2. run \in Runs /\ run.pc = "evidence" /\ UNCHANGED <<day, unit, marker, counted>>
    BY RunTyped DEF Evidence, UnderWay
  <1>3. run'.pc = "marker" /\ run'.ctx = run.ctx /\ run.ctx.blindWeek \in BOOLEAN
    BY <1>1, <1>2 DEF Runs, Contexts
  <1>3a. ~run.synced => ~Seeing'
    <2>1. run.synced \/ "cut" \in excuses
      BY <1>2 DEF RetryInv, UnderWay, Whole
    <2>2. QED
      BY <1>1, <2>1 DEF Seeing
  <1>4. run.synced => st'.blind = IF fresh THEN 0 ELSE IF run.ctx.blindWeek THEN st.blind + 1
                                                       ELSE st.blind
    BY <1>0, <1>1 DEF States
  <1>4a. st.blind \in Nat
    BY <1>0 DEF States
  <1>5. Seeing' => dark' <= st'.blind + 1
    <2>1. CASE ~run.synced
      BY <1>3a, <2>1
    <2>2. CASE run.synced /\ fresh
      BY <1>1, <1>4, <2>2
    <2>3. CASE run.synced /\ ~fresh
      <3>1. Seeing' => Seeing
        BY <1>1, <1>2, <1>3, <2>3 DEF Seeing, Starting
      <3>2. Seeing => dark <= st.blind + (IF run.ctx.blindWeek THEN 2 ELSE 1)
        BY <1>2 DEF BlindInv
      <3>3. QED
        BY <1>0, <1>1, <1>3, <1>4, <1>4a, <2>3, <3>1, <3>2
    <2>4. QED
      BY <2>1, <2>2, <2>3
  <1>6. BlindWeeksStop'
    BY <1>3 DEF BlindWeeksStop
  <1>7. QED
    BY <1>2, <1>3, <1>5, <1>6 DEF BlindInv, Blinding

LEMMA MarkSees == ASSUME Typed, BlindInv, RetryInv, MarkRetry PROVE BlindInv'
  <1>0. day \in Nat /\ marker \in Nat /\ dark \in Nat
    BY DEF Typed
  <1>1. run \in Runs /\ run.pc = "marker" /\ run' = [run EXCEPT !.pc = "decide"]
    BY RunTyped DEF MarkRetry, UnderWay
  <1>2. UNCHANGED <<day, unit, st, dark, counted, excuses>>
    BY DEF MarkRetry
  <1>3. run'.pc = "decide"
    BY <1>1 DEF Runs
  <1>4. marker' \in {0, marker, run.ctx.key}
    BY DEF MarkRetry, Mark
  <1>5. marker' <= day' /\ (Sunday(day') /\ marker' = day' => counted' = day')
    BY <1>0, <1>1, <1>2, <1>4 DEF BlindInv, Blinding
  <1>6. Seeing' /\ dark > 0 => marker' # 0
    <2>1. Seeing' => run.synced
      BY <1>1, <1>2 DEF RetryInv, UnderWay, Whole, Seeing
    <2>2. run.synced /\ run.fresh => dark = 0
      BY <1>1 DEF RetryInv
    <2>3. run.synced /\ ~run.fresh => marker' # 0
      BY <1>1 DEF MarkRetry, Mark, RetryInv, UnderWay
    <2>4. QED
      BY <2>1, <2>2, <2>3
  <1>7. Seeing' => dark' <= st'.blind + 1
    BY <1>1, <1>2, <1>3 DEF BlindInv, Seeing, Starting
  <1>8. BlindWeeksStop'
    BY <1>3 DEF BlindWeeksStop
  <1>9. QED
    BY <1>2, <1>3, <1>5, <1>6, <1>7, <1>8 DEF BlindInv, Blinding

\* After enough Sundays in the dark a blind run flies blind.
LEMMA DecideSees == ASSUME Typed, BlindInv, RetryInv, Decide PROVE BlindInv'
  <1>1. PICK w \in Evaluations, profit \in BOOLEAN, trusted \in Reliances, seen \in Readings :
           /\ run' = DecidedRun(w, profit, trusted, seen)
           /\ excuses' = IF On(unit) /\ ~On(seen) THEN excuses \union {"weak", "blind"} ELSE excuses
    BY DEF Decide
  <1> DEFINE consec == IF run.fresh THEN Booking(w).weak ELSE st.weak
             b == Booking(w)
             p == Positive(w, profit)
             n == Negative(w, consec)
             a == Action(p, n, trusted, seen)
  <1>2. run' = [run EXCEPT !.pc = "act", !.cooldown = paused, !.next = b, !.action = a]
    BY <1>1 DEF DecidedRun
  <1>3. run \in Runs /\ run.pc = "decide" /\ dark \in Nat /\ st.blind \in Nat
    BY RunTyped DEF Decide, UnderWay, Typed, States
  <1>4. UNCHANGED <<day, unit, st, marker, dark, counted>>
    BY DEF Decide
  <1>5. FlyingBlind /\ On(seen) => a = "disable"
    BY DEF Action
  <1>6. a \in {"enable", "override"} => run.fresh
    <2>1. trusted => run.fresh
      <3>1. PICK continuous \in BOOLEAN, readable \in BOOLEAN :
               trusted = (run.fresh /\ continuous /\ readable)
        BY DEF Reliances, Trusted
      <3>2. QED
        BY <3>1
    <2>2. a \in {"enable", "override"} => trusted
      BY DEF Action
    <2>3. QED
      BY <2>1, <2>2
  <1>6a. a = "start" => On(seen) /\ On(unit)
    BY DEF Action, On, Readings
  <1> HIDE DEF a, b, consec, p, n
  <1>7. run'.pc = "act" /\ run'.fresh = run.fresh /\ run'.action = a
    BY <1>2, <1>3 DEF Runs
  <1>8. Seeing' => Seeing /\ On(seen)
    <2>1. Seeing' => "blind" \notin excuses' /\ "cut" \notin excuses'
      BY DEF Seeing
    <2>2. Seeing' => On(unit)
      BY <1>4, <1>6a, <1>7 DEF Seeing, Starting
    <2>3. "blind" \notin excuses' /\ On(unit) => On(seen) /\ excuses' = excuses
      BY <1>1
    <2>4. QED
      BY <2>1, <2>2, <2>3 DEF Seeing
  <1>9. Seeing' /\ dark >= BlindLimit => a = "disable"
    <2>1. BlindLimit \in Nat /\ BlindLimit > 0
      BY MonitorAssumption
    <2>2. Seeing => dark <= st.blind + 1
      BY <1>3 DEF BlindInv
    <2>3. Seeing => ~run.fresh \/ dark = 0
      BY <1>3 DEF RetryInv, UnderWay, Blinding, Whole, Seeing
    <2>4. Seeing /\ dark >= BlindLimit => FlyingBlind
      BY <1>3, <2>1, <2>2, <2>3 DEF FlyingBlind
    <2>5. QED
      BY <1>5, <1>8, <2>4
  <1>10. /\ marker' <= day' /\ (Sunday(day') /\ marker' = day' => counted' = day')
         /\ Seeing => dark <= st.blind + 1 /\ (dark > 0 => marker # 0)
    BY <1>3, <1>4 DEF BlindInv, Blinding
  <1>11. BlindWeeksStop'
    BY <1>7 DEF BlindWeeksStop
  <1>12. QED
    BY <1>4, <1>6, <1>7, <1>8, <1>9, <1>10, <1>11 DEF BlindInv, Blinding

\* What a run does to the unit: a run of fresh evidence is not in the dark, and any other
\* turns nothing on.
LEMMA ActSees ==
    ASSUME Typed, BlindInv, RetryInv,
           SystemdSilent \/ ActDisable \/ ActFlag \/ ActEnable \/ ActStart \/ ActNone
    PROVE  BlindInv'
  <1> USE DEF history
  <1>0. dark \in Nat /\ st.blind \in Nat /\ BlindLimit \in Nat /\ BlindLimit > 0
    BY MonitorAssumption DEF Typed, States
  <1>1. /\ run.pc \in {"decide", "act", "enable"} /\ run'.pc \in {"act", "enable", "save"}
        /\ run'.fresh = run.fresh /\ UNCHANGED <<marker, dark>>
    BY GoesOn
  <1>2. UNCHANGED <<day, st, counted>>
    BY DEF SystemdSilent, ActDisable, ActFlag, ActEnable, ActStart, ActNone
  <1>3. run \in Runs
    BY <1>1, RunTyped DEF UnderWay
  <1>4. marker' <= day' /\ (Sunday(day') /\ marker' = day' => counted' = day')
    BY <1>1, <1>2 DEF BlindInv
  <1>5. BlindWeeksStop'
    BY <1>1 DEF BlindWeeksStop
  <1>6. Seeing /\ run.pc = "act" /\ dark >= BlindLimit => run.action = "disable"
    BY DEF BlindInv
  <1>7. /\ Seeing => dark <= st.blind + 1 /\ (dark > 0 => marker # 0)
        /\ run.pc = "enable" => run.fresh
        /\ run.pc = "act" /\ run.action \in {"enable", "override"} => run.fresh
    BY <1>1 DEF BlindInv, Blinding
  <1>8. run.fresh => dark = 0 \/ "cut" \in excuses
    BY <1>1 DEF RetryInv, UnderWay, Blinding, Whole
  <1>9. CASE SystemdSilent \/ ActDisable
    <2>1. run'.pc = "save"
      BY <1>3, <1>9 DEF SystemdSilent, ActDisable, Runs
    <2>2. ~On(unit') \/ "blind" \in excuses'
      <3>1. CASE SystemdSilent
        BY <3>1 DEF SystemdSilent
      <3>2. CASE ActDisable
        <4>1. \/ unit' = [enabled |-> FALSE, running |-> FALSE]
              \/ excuses' = excuses \union {"weak", "blind"}
          BY <3>2 DEF ActDisable
        <4>2. QED
          BY <4>1 DEF On
      <3>3. QED
        BY <1>9, <3>1, <3>2
    <2>3. ~Seeing'
      BY <2>1, <2>2 DEF Seeing, Starting
    <2>4. QED
      BY <1>4, <1>5, <2>1, <2>3 DEF BlindInv, Blinding
  <1>10. CASE ActFlag \/ ActNone \/ ActStart
    <2>1. run.pc = "act" /\ run.action # "disable" /\ excuses' = excuses
      BY <1>10 DEF ActFlag, ActNone, ActStart
    <2>2. Seeing' => Seeing
      <3>1. run'.pc # "act"
        BY <1>3, <1>10 DEF ActFlag, ActNone, ActStart, Runs
      <3>2. UNCHANGED unit \/ Starting
        BY <1>10 DEF ActFlag, ActNone, ActStart, Starting
      <3>3. QED
        BY <2>1, <3>1, <3>2 DEF Seeing, Starting
    <2>3. run'.pc = "enable" => run.fresh
      <3>1. run'.pc = "enable" => run.action = "enable"
        BY <1>3, <1>10 DEF ActFlag, ActNone, ActStart, Runs
      <3>2. QED
        BY <1>7, <2>1, <3>1
    <2>4. run'.pc # "act"
      BY <1>3, <1>10 DEF ActFlag, ActNone, ActStart, Runs
    <2>5. Seeing => dark < BlindLimit
      BY <1>0, <1>6, <2>1
    <2>6. QED
      BY <1>1, <1>2, <1>4, <1>5, <1>7, <2>2, <2>3, <2>4, <2>5 DEF BlindInv, Blinding
  <1>11. CASE ActEnable
    <2>1. run.fresh
      BY <1>7, <1>11 DEF ActEnable
    <2>2. dark = 0 \/ ~Seeing'
      <3>1. "cut" \in excuses => "cut" \in excuses'
        BY <1>11 DEF ActEnable
      <3>2. QED
        BY <1>8, <2>1, <3>1 DEF Seeing
    <2>3. run'.pc = "save"
      BY <1>3, <1>11 DEF ActEnable, Runs
    <2>4. QED
      BY <1>0, <1>1, <1>2, <1>4, <1>5, <2>2, <2>3 DEF BlindInv, Blinding
  <1>12. QED
    BY <1>9, <1>10, <1>11

\* A run that books what it found, and one that is killed or ends in an exception.
LEMMA EndSees ==
    ASSUME Typed, BlindInv, RetryInv, Save \/ Unusable \/ Kill
    PROVE  BlindInv'
  <1>0. /\ dark \in Nat /\ st \in States /\ st.blind \in Nat
        /\ BlindLimit \in Nat /\ BlindLimit > 0
    BY MonitorAssumption DEF Typed, States
  <1>1. /\ run'.pc = "idle"
        /\ UNCHANGED <<day, unit, marker, dark, counted>>
    BY DEF Save, Unusable, Kill, Crashed, Ended
  <1>2. marker' <= day' /\ (Sunday(day') /\ marker' = day' => counted' = day')
    BY <1>1 DEF BlindInv
  <1>3. CASE Unusable \/ (Kill /\ run.pc \in Blinding)
    <2>1. "cut" \in excuses'
      BY <1>3 DEF Unusable, Kill, Crashed, Cut, Blinding
    <2>2. ~Seeing' /\ BlindWeeksStop'
      BY <2>1 DEF Seeing, BlindWeeksStop
    <2>3. QED
      BY <1>1, <1>2, <2>2 DEF BlindInv, Blinding
  <1>4. CASE Kill /\ run.pc \notin Blinding
    <2>1. run.pc \notin Blinding /\ run'.ended = "killed"
      BY <1>4 DEF Kill, Ended
    <2>2. excuses' = excuses /\ st'.blind = st.blind
      BY <1>0, <1>4 DEF Kill, States, Blinding
    <2>3. Seeing' => Seeing
      BY <1>1, <2>2 DEF Seeing, Starting
    <2>4. BlindWeeksStop'
      BY <2>1 DEF BlindWeeksStop
    <2>5. run.pc # "evidence"
      BY <2>1 DEF Blinding
    <2>6. QED
      BY <1>1, <1>2, <2>1, <2>2, <2>3, <2>4, <2>5 DEF BlindInv, Blinding
  <1>5. CASE Save
    <2>1. run.pc = "save" /\ st' = IF run.fresh THEN run.next ELSE st
      BY <1>5 DEF Save
    <2>2. Seeing => ~run.fresh \/ dark = 0
      BY <2>1 DEF RetryInv, UnderWay, Blinding, Whole, Seeing
    <2>3. Seeing' => Seeing
      BY <1>1, <1>5 DEF Save, Seeing, Starting
    <2>4. Seeing => dark < BlindLimit /\ dark <= st.blind + 1 /\ (dark > 0 => marker # 0)
      BY <2>1 DEF BlindInv, Blinding
    <2>5. st'.blind \in Nat
      <3>1. run.next \in States
        BY <2>1, RunTyped DEF UnderWay, Runs
      <3>2. QED
        BY <1>0, <2>1, <3>1 DEF States
    <2>6. Seeing' => dark' <= st'.blind + 1 /\ dark' < BlindLimit
      BY <1>0, <1>1, <2>1, <2>2, <2>3, <2>4, <2>5
    <2>7. BlindWeeksStop'
      <3>1. dark' \in Nat /\ BlindLimit \in Nat
        BY <1>0, <1>1
      <3>2. On(unit') /\ excuses' \intersect {"blind", "cut"} = {} => dark' < BlindLimit
        BY <2>6 DEF Seeing
      <3>3. dark' >= BlindLimit => ~(dark' < BlindLimit)
        BY <3>1
      <3>4. QED
        BY <3>2, <3>3 DEF BlindWeeksStop
    <2>8. QED
      BY <1>1, <1>2, <2>3, <2>4, <2>6, <2>7 DEF BlindInv, Blinding
  <1>6. QED
    BY <1>3, <1>4, <1>5

\* A new day is later than every marker.
LEMMA DaySees == ASSUME Typed, BlindInv, NextDay PROVE BlindInv'
  <1>1. day \in Nat /\ marker \in Nat
    BY DEF Typed
  <1>2. /\ run.pc = "idle" /\ day' = day + 1
        /\ UNCHANGED <<unit, marker, st, run, dark, counted, excuses>>
    BY DEF NextDay, history
  <1>3. marker' <= day' /\ marker' # day'
    BY <1>1, <1>2 DEF BlindInv
  <1>4. BlindWeeksStop'
    BY <1>2 DEF BlindInv, BlindWeeksStop
  <1>5. Seeing' => Seeing
    BY <1>2 DEF Seeing, Starting
  <1>6. QED
    BY <1>2, <1>3, <1>4, <1>5 DEF BlindInv, Blinding

LEMMA StepSees ==
    ASSUME Typed, BlindInv, RetryInv, Next
    PROVE  BlindInv'
  <1>1. CASE Cron \/ Manual
    <2>1. ASSUME NEW sync \in BOOLEAN, Begin(sync) PROVE BlindInv'
      BY <1>1, <2>1, BeginSees DEF Cron, Manual
    <2>2. CASE UNCHANGED <<day, unit, paused, flag, marker, st, run, history>>
      <3>1. Seeing' => Seeing
        BY <2>2 DEF history, Seeing, Starting
      <3>2. QED
        BY <2>2, <3>1, BlindFrame DEF history
    <2>3. QED
      BY <1>1, <2>1, <2>2 DEF Cron, Manual
  <1>2. CASE Suspend \/ Release \/ ConsumeFlag
    <2>1. UNCHANGED <<day, unit, run, st, marker, dark, counted, excuses>>
      BY <1>2 DEF Suspend, Release, ConsumeFlag, history
    <2>2. Seeing' => Seeing
      BY <2>1 DEF Seeing, Starting
    <2>3. QED
      BY <2>1, <2>2, BlindFrame
  <1>3. CASE BotDies
    <2>1. UNCHANGED <<day, run, st, marker, dark, counted, excuses>> /\ (On(unit') => On(unit))
      <3>1. unit \in UnitStates /\ unit' = [unit EXCEPT !.running = FALSE]
        BY <1>3 DEF BotDies, Typed
      <3>2. On(unit') => On(unit)
        BY <3>1 DEF UnitStates, On
      <3>3. QED
        BY <1>3, <3>2 DEF BotDies, history
    <2>2. Seeing' => Seeing
      BY <2>1 DEF Seeing, Starting
    <2>3. QED
      BY <2>1, <2>2, BlindFrame
  <1>4. CASE Operator
    <2>1. UNCHANGED <<day, run, st, marker, dark, counted>>
      BY <1>4 DEF Operator
    <2>2. excuses' = IF On(unit') THEN excuses \union {"weak", "blind"} ELSE excuses
      BY <1>4 DEF Operator
    <2>3. Seeing' => Seeing
      BY <2>1, <2>2 DEF Seeing, Starting
    <2>4. QED
      BY <2>1, <2>3, BlindFrame
  <1>5. QED
    BY <1>1, <1>2, <1>3, <1>4, EvidenceSees, MarkSees, DecideSees, ActSees, EndSees, DaySees
    DEF Next

\* After BlindLimit Sundays in a row without fresh evidence the unit is off once a run
\* has gone to its end (_resolve_run_context, the early save of the blind streak and
\* flying_blind), over missed days, makeup runs and kills. Excused is a unit that systemd
\* would not stop, that it reported as off or did not report, or that was turned on since,
\* and a run that was cut short before it marked its week or did not sync: such a run
\* leaves no trace of its Sunday.
THEOREM BlindnessStops == Spec => []BlindWeeksStop
  <1>1. Typed /\ RetryInv /\ BlindInv /\ [Next]_vars => BlindInv'
    <2> SUFFICES ASSUME Typed, RetryInv, BlindInv, [Next]_vars PROVE BlindInv'
      OBVIOUS
    <2>1. CASE UNCHANGED vars
      <3>1. Seeing' => Seeing
        BY <2>1 DEF vars, history, Seeing, Starting
      <3>2. QED
        BY <2>1, <3>1, BlindFrame DEF vars, history
    <2>2. QED
      BY <2>1, StepSees
  <1>2. BlindInv => BlindWeeksStop
    BY DEF BlindInv
  <1>3. QED
    BY InitSees, RetriesKept, TypesKept, <1>1, <1>2, PTL DEF Spec

-------------------------------------------------------------------------------
(* The streak of weak weeks is exact *)

LEMMA QuotientsAreOrdered ==
    ASSUME NEW n \in Nat, n > 0, NEW a \in Nat, NEW b \in Nat, a <= b
    PROVE  a \div n <= b \div n
  <1> DEFINE p == a \div n
             q == b \div n
  <1>1. p \in Nat /\ q \in Nat
    OBVIOUS
  <1>2. n * p <= a
    OBVIOUS
  <1>3. b < n * (q + 1)
    OBVIOUS
  <1> HIDE DEF p, q
  <1>4. n * p < n * (q + 1)
    <2> DEFINE x == n * p
               y == n * (q + 1)
    <2>1. x \in Int /\ y \in Int
      BY <1>1
    <2> HIDE DEF x, y
    <2>2. x <= a /\ b < y
      BY <1>2, <1>3 DEF x, y
    <2>3. x < y
      BY <2>1, <2>2
    <2>4. QED
      BY <2>3 DEF x, y
  <1>5. CASE p > q
    <2>1. PICK d \in Nat : p = q + 1 + d
      <3>1. p - (q + 1) \in Nat /\ p = q + 1 + (p - (q + 1))
        BY <1>1, <1>5
      <3>2. QED
        BY <3>1
    <2>2. n * p = n * (q + 1) + n * d
      BY <1>1, <2>1
    <2>3. n * d >= 0
      OBVIOUS
    <2> DEFINE x == n * p
               y == n * (q + 1)
               z == n * d
    <2>4. x \in Int /\ y \in Int /\ z \in Int
      BY <1>1
    <2> HIDE DEF x, y, z
    <2>5. x = y + z /\ z >= 0 /\ x < y
      BY <1>4, <2>2, <2>3 DEF x, y, z
    <2>6. QED
      BY <2>4, <2>5
  <1>6. QED
    BY <1>1, <1>5 DEF p, q

LEMMA WeeksAreOrdered ==
    ASSUME NEW d \in Nat, NEW e \in Nat, d <= e
    PROVE  IsoWeek(d) <= IsoWeek(e)
  <1>1. WeekLen \in Nat /\ WeekLen > 0
    BY MonitorAssumption
  <1>2. /\ d + WeekLen - 1 \in Nat /\ e + WeekLen - 1 \in Nat
        /\ d + WeekLen - 1 <= e + WeekLen - 1
    BY <1>1
  <1>3. QED
    BY <1>1, <1>2, QuotientsAreOrdered DEF IsoWeek

\* The weeks booked as weak since the last sound one.
Streak(f) == {w \in Weeks : /\ f[w] = "weak"
                            /\ \A v \in w .. IsoWeek(LastDay) : f[v] # "sound"}
Books == [Weeks -> {"none", "weak", "sound"}]

\* A week booked after all the others goes on with the streak or ends it.
LEMMA StreakGoesOn ==
    ASSUME NEW f \in Books, NEW k \in Weeks, \A v \in Weeks : v >= k => f[v] = "none"
    PROVE  /\ Streak([f EXCEPT ![k] = "sound"]) = {}
           /\ Cardinality(Streak([f EXCEPT ![k] = "weak"])) = Cardinality(Streak(f)) + 1
           /\ Cardinality(Streak(f)) \in Nat
  <1> DEFINE N == IsoWeek(LastDay)
             g == [f EXCEPT ![k] = "weak"]
             h == [f EXCEPT ![k] = "sound"]
  <1>1. N \in Nat
    <2>1. LastDay \in Nat \ {0}
      BY MonitorAssumption
    <2>2. QED
      BY <2>1, WeeksBegin
  <1>2. Weeks = 1 .. N
    BY DEF Weeks
  <1>3. DOMAIN f = Weeks /\ \A v \in Weeks : f[v] \in {"none", "weak", "sound"}
    BY DEF Books
  <1>4. \A v \in Weeks : g[v] = (IF v = k THEN "weak" ELSE f[v])
                         /\ h[v] = (IF v = k THEN "sound" ELSE f[v])
    BY <1>3
  <1> HIDE DEF N, g, h
  <1>5. \A w \in Weeks : \A v \in w .. N : v \in Weeks /\ v >= w
    BY <1>1, <1>2
  <1>6. Streak(h) = {}
    <2> SUFFICES ASSUME NEW w \in Streak(h) PROVE FALSE
      OBVIOUS
    <2>1. w \in Weeks /\ h[w] = "weak" /\ \A v \in w .. N : h[v] # "sound"
      BY DEF Streak, N
    <2>2. w # k /\ f[w] = "weak"
      BY <1>4, <2>1
    <2>3. w < k
      BY <1>1, <1>2, <2>1, <2>2
    <2>4. k \in w .. N
      BY <1>1, <1>2, <2>1, <2>3
    <2>5. QED
      BY <1>4, <2>1, <2>4
  <1>7. \A w \in Weeks : w \in Streak(g) <=> w = k \/ w \in Streak(f)
    <2> SUFFICES ASSUME NEW w \in Weeks PROVE w \in Streak(g) <=> w = k \/ w \in Streak(f)
      OBVIOUS
    <2>1. \A v \in w .. N : g[v] # "sound" <=> f[v] # "sound"
      <3> SUFFICES ASSUME NEW v \in w .. N PROVE g[v] # "sound" <=> f[v] # "sound"
        OBVIOUS
      <3>1. v \in Weeks
        BY <1>5
      <3>2. f[k] = "none"
        BY <1>1, <1>2
      <3>3. QED
        BY <1>4, <3>1, <3>2
    <2>2. w = k => \A v \in w .. N : f[v] # "sound"
      BY <1>5
    <2>3. w \in Streak(g) <=> g[w] = "weak" /\ \A v \in w .. N : g[v] # "sound"
      BY DEF Streak, N
    <2>4. w \in Streak(f) <=> f[w] = "weak" /\ \A v \in w .. N : f[v] # "sound"
      BY DEF Streak, N
    <2>5. QED
      BY <1>4, <2>1, <2>2, <2>3, <2>4
  <1>8. Streak(g) \subseteq Weeks /\ Streak(f) \subseteq Weeks
    BY DEF Streak
  <1>9. Streak(g) = Streak(f) \cup {k}
    BY <1>7, <1>8
  <1>10. k \notin Streak(f)
    <2>1. f[k] = "none"
      BY <1>1, <1>2
    <2>2. QED
      BY <2>1 DEF Streak
  <1>11. IsFiniteSet(Streak(f))
    <2>1. IsFiniteSet(1 .. N)
      BY <1>1, FS_Interval
    <2>2. QED
      BY <1>2, <1>8, <2>1, FS_Subset
  <1>12. /\ Cardinality(Streak(f) \cup {k}) = Cardinality(Streak(f)) + 1
         /\ Cardinality(Streak(f)) \in Nat
    BY <1>10, <1>11, FS_AddElement, FS_CardinalityType
  <1>13. QED
    BY <1>6, <1>9, <1>12 DEF g, h

LastWeek == IF st.last = 0 THEN 0 ELSE IsoWeek(st.last)
Before(k) == [verdicts EXCEPT ![k] = "none"]

\* Weeks are booked in their order: the week a run is for, and the one a makeup run is
\* owed for, is not earlier than the last one booked, so the count a second run of that
\* week starts from is the one without it.
CountInv ==
    /\ verdicts \in Books
    /\ IsoWeek(day) \in Weeks /\ st.last <= day
    /\ marker <= day /\ owed = (IF marker = 0 THEN 0 ELSE IsoWeek(marker))
    /\ marker # 0 => IsoWeek(marker) >= LastWeek
    /\ run.pc \in UnderWay =>
          /\ run.ctx.key \in 1 .. day /\ run.cycle = IsoWeek(run.ctx.key)
          /\ run.cycle >= LastWeek
    /\ run.pc \in {"act", "enable", "save"} =>
          /\ run.next.last = run.ctx.key
          /\ run.next.base = (IF LastWeek = run.cycle THEN st.base ELSE st.weak)
          /\ run.next.weak \in {0, run.next.base + 1}
    /\ \A v \in Weeks : v > LastWeek => verdicts[v] = "none"
    /\ st.weak = Cardinality(Streak(verdicts))
    /\ st.last # 0 => st.base = Cardinality(Streak(Before(LastWeek)))

\* The last week that is booked is one of the calendar.
LEMMA LastWeekTyped ==
    ASSUME Typed, CountInv
    PROVE  /\ LastWeek \in Nat /\ LastWeek <= IsoWeek(day)
           /\ st.last # 0 => LastWeek \in Weeks
           /\ st.last = 0 => LastWeek = 0
  <1>1. st.last \in Nat /\ day \in Nat \ {0} /\ st.last <= day
    BY DEF Typed, States, CountInv
  <1>2. IsoWeek(day) \in Nat \ {0}
    BY <1>1, WeeksBegin
  <1>3. CASE st.last = 0
    BY <1>2, <1>3 DEF LastWeek
  <1>4. CASE st.last # 0
    <2>1. IsoWeek(st.last) \in Nat \ {0}
      BY <1>1, <1>4, WeeksBegin
    <2>2. IsoWeek(st.last) <= IsoWeek(day)
      BY <1>1, WeeksAreOrdered
    <2>3. IsoWeek(day) \in Weeks /\ IsoWeek(LastDay) \in Nat
      <3>1. LastDay \in Nat \ {0}
        BY MonitorAssumption
      <3>2. QED
        BY <3>1, WeeksBegin DEF CountInv
    <2> DEFINE x == IsoWeek(st.last)
               y == IsoWeek(day)
               z == IsoWeek(LastDay)
    <2>4. LastWeek = x /\ Weeks = 1 .. z
      BY <1>4 DEF LastWeek, Weeks
    <2> HIDE DEF x, y, z
    <2>5. x \in Nat \ {0} /\ x <= y /\ y \in 1 .. z /\ z \in Nat
      BY <2>1, <2>2, <2>3, <2>4 DEF x, y, z
    <2>6. x \in 1 .. z /\ x <= y
      BY <2>5
    <2>7. QED
      BY <1>4, <2>4, <2>5, <2>6 DEF y
  <1>5. QED
    BY <1>3, <1>4

LEMMA InitCounts == Init => CountInv
  <1> SUFFICES ASSUME Init PROVE CountInv
    OBVIOUS
  <1>1. WeekLen \in Nat \ {0} /\ LastDay \in Nat \ {0}
    BY MonitorAssumption
  <1>2. IsoWeek(LastDay) \in Nat \ {0}
    BY <1>1, WeeksBegin
  <1>3. IsoWeek(day) = 1
    <2>1. day = WeekLen
      BY DEF Init
    <2>2. \A n \in Nat \ {0} : (n + n - 1) \div n = 1
      <3> SUFFICES ASSUME NEW n \in Nat \ {0} PROVE (n + n - 1) \div n = 1
        OBVIOUS
      <3> DEFINE q == (n + n - 1) \div n
      <3>1. q \in Nat /\ n * q <= n + n - 1 /\ n + n - 1 < n * q + n
        OBVIOUS
      <3> HIDE DEF q
      <3>2. CASE q = 0
        BY <3>1, <3>2
      <3>3. CASE q >= 2
        <4>1. PICK d \in Nat : q = 2 + d
          <5>1. q - 2 \in Nat /\ q = 2 + (q - 2)
            BY <3>1, <3>3
          <5>2. QED
            BY <5>1
        <4>2. n * q = n + n + n * d /\ n * d >= 0
          BY <4>1
        <4>3. QED
          BY <3>1, <4>2
      <3>4. q = 1
        BY <3>1, <3>2, <3>3
      <3>5. QED
        BY <3>4 DEF q
    <2>3. QED
      BY <1>1, <2>1, <2>2 DEF IsoWeek
  <1>4. IsoWeek(day) \in Weeks
    BY <1>2, <1>3 DEF Weeks
  <1>5. Streak(verdicts) = {}
    BY DEF Init, Streak
  <1>6. Cardinality(Streak(verdicts)) = 0
    BY <1>5, FS_EmptySet
  <1>7. verdicts \in Books /\ \A v \in Weeks : verdicts[v] = "none"
    BY DEF Init, Books
  <1>8. st.weak = 0 /\ st.last = 0 /\ run.pc = "idle" /\ marker = 0 /\ owed = 0 /\ day \in Nat
    BY <1>1 DEF Init, Ended
  <1>9. QED
    BY <1>4, <1>6, <1>7, <1>8 DEF CountInv, UnderWay

\* What state.json says of the weeks.
WeeksOnDisk == <<st.weak, st.base, st.last>>

\* Steps that book nothing and leave the marker and the calendar as they are.
LEMMA CountFrame ==
    ASSUME CountInv, UNCHANGED <<day, verdicts, marker, owed, WeeksOnDisk>>,
           run'.pc \in UnderWay =>
               run.pc \in UnderWay /\ run'.ctx = run.ctx /\ run'.cycle = run.cycle,
           run'.pc \in {"act", "enable", "save"} =>
               run.pc \in {"act", "enable", "save"} /\ run'.next = run.next
    PROVE  CountInv'
  <1>1. UNCHANGED <<LastWeek, Before(LastWeek)>>
    BY DEF LastWeek, Before, WeeksOnDisk
  <1>2. st'.weak = st.weak /\ st'.base = st.base /\ st'.last = st.last
    BY DEF WeeksOnDisk
  <1>3. /\ verdicts' \in Books /\ IsoWeek(day') \in Weeks /\ st'.last <= day'
        /\ marker' <= day' /\ owed' = (IF marker' = 0 THEN 0 ELSE IsoWeek(marker'))
        /\ marker' # 0 => IsoWeek(marker') >= LastWeek'
    BY <1>1, <1>2 DEF CountInv
  <1>4. run'.pc \in UnderWay =>
          /\ run'.ctx.key \in 1 .. day' /\ run'.cycle = IsoWeek(run'.ctx.key)
          /\ run'.cycle >= LastWeek'
    BY <1>1 DEF CountInv
  <1>5. run'.pc \in {"act", "enable", "save"} =>
          /\ run'.next.last = run'.ctx.key
          /\ run'.next.base = (IF LastWeek' = run'.cycle THEN st'.base ELSE st'.weak)
          /\ run'.next.weak \in {0, run'.next.base + 1}
    BY <1>1, <1>2 DEF CountInv, UnderWay
  <1>6. /\ \A v \in Weeks : v > LastWeek' => verdicts'[v] = "none"
        /\ st'.weak = Cardinality(Streak(verdicts'))
        /\ st'.last # 0 => st'.base = Cardinality(Streak(Before(LastWeek)'))
    BY <1>1, <1>2 DEF CountInv
  <1>7. QED
    BY <1>3, <1>4, <1>5, <1>6 DEF CountInv

\* The run of a Sunday is for its week, a makeup run for the week that is owed, and
\* neither is earlier than what is booked.
LEMMA BeginCounts ==
    ASSUME Typed, CountInv, run.pc = "idle", NEW sync \in BOOLEAN, Begin(sync)
    PROVE  CountInv'
  <1>0. day \in Nat /\ day # 0 /\ marker \in Nat
    BY DEF Typed
  <1>1. UNCHANGED <<day, st, verdicts>>
    BY DEF Begin
  <1>2. /\ marker' = (IF Sunday(day) THEN 0 ELSE marker)
        /\ owed' = (IF Sunday(day) THEN 0 ELSE owed)
    BY DEF Begin
  <1>3. IsoWeek(day) >= LastWeek /\ IsoWeek(day) # 0 /\ LastWeek \in Nat
    <2>1. IsoWeek(day) \in Nat \ {0}
      BY <1>0, WeeksBegin
    <2>2. LastWeek \in Nat /\ LastWeek <= IsoWeek(day)
      BY LastWeekTyped
    <2>3. QED
      BY <2>1, <2>2
  <1>4. marker # 0 => IsoWeek(marker) # 0 /\ IsoWeek(marker) >= LastWeek
    <2>1. marker # 0 => IsoWeek(marker) \in Nat \ {0}
      BY <1>0, WeeksBegin
    <2>2. QED
      BY <2>1 DEF CountInv
  <1>5. owed = IF marker = 0 THEN 0 ELSE IsoWeek(marker)
    BY DEF CountInv
  <1>6. UNCHANGED <<LastWeek, Before(LastWeek)>>
    BY <1>1 DEF LastWeek, Before
  <1>7. /\ marker' <= day' /\ owed' = (IF marker' = 0 THEN 0 ELSE IsoWeek(marker'))
        /\ marker' # 0 => IsoWeek(marker') >= LastWeek'
    BY <1>0, <1>1, <1>2, <1>4, <1>5, <1>6 DEF CountInv
  <1>8. /\ run'.pc \in UnderWay =>
               /\ run'.ctx.key \in 1 .. day /\ run'.cycle = IsoWeek(run'.ctx.key)
               /\ run'.cycle >= LastWeek
        /\ run'.pc \notin {"act", "enable", "save"}
    <2>1. CASE st.torn
      BY <2>1 DEF Begin, Crashed, Ended, UnderWay
    <2>2. CASE ~st.torn
      <3> DEFINE c == Cycle
                 r == RunContext
      <3>1. run' = [pc |-> "evidence", ctx |-> r, cycle |-> c, synced |-> sync,
                    fresh |-> FALSE, cooldown |-> FALSE, action |-> "none", next |-> st]
        BY <2>2 DEF Begin
      <3>2. CASE ~Sunday(day) /\ marker # 0
        <4>1. r.key = marker /\ c = IsoWeek(marker)
          BY <1>4, <1>5, <3>2 DEF RunContext, Cycle
        <4>2. marker \in 1 .. day
          BY <1>0, <3>2 DEF CountInv
        <4> HIDE DEF c, r
        <4>3. run'.pc = "evidence" /\ run'.ctx = r /\ run'.cycle = c
          BY <3>1
        <4>4. QED
          BY <1>4, <3>2, <4>1, <4>2, <4>3
      <3>3. CASE Sunday(day) \/ marker = 0
        <4>1. r.key = day /\ c = IsoWeek(day)
          BY <1>5, <3>3 DEF RunContext, Cycle
        <4>2. day \in 1 .. day
          BY <1>0
        <4> HIDE DEF c, r
        <4>3. run'.pc = "evidence" /\ run'.ctx = r /\ run'.cycle = c
          BY <3>1
        <4>4. QED
          BY <1>3, <4>1, <4>2, <4>3
      <3>4. QED
        BY <3>2, <3>3
    <2>3. QED
      BY <2>1, <2>2
  <1>9. /\ verdicts' \in Books /\ IsoWeek(day') \in Weeks /\ st'.last <= day'
        /\ \A v \in Weeks : v > LastWeek' => verdicts'[v] = "none"
        /\ st'.weak = Cardinality(Streak(verdicts'))
        /\ st'.last # 0 => st'.base = Cardinality(Streak(Before(LastWeek)'))
    BY <1>1, <1>6 DEF CountInv
  <1>10. QED
    BY <1>1, <1>6, <1>7, <1>8, <1>9 DEF CountInv

LEMMA MarkCounts == ASSUME Typed, CountInv, RetryInv, MarkRetry PROVE CountInv'
  <1>0. day \in Nat /\ marker \in Nat
    BY DEF Typed
  <1>1. run \in Runs /\ run.pc = "marker" /\ run' = [run EXCEPT !.pc = "decide"]
    BY RunTyped DEF MarkRetry, UnderWay
  <1>2. UNCHANGED <<day, st, verdicts>>
    BY DEF MarkRetry
  <1>3. run'.pc = "decide" /\ run'.ctx = run.ctx /\ run'.cycle = run.cycle
    BY <1>1 DEF Runs
  <1>4. UNCHANGED <<LastWeek, Before(LastWeek)>>
    BY <1>2 DEF LastWeek, Before
  <1>5. /\ run.ctx.key \in 1 .. day /\ run.cycle = IsoWeek(run.ctx.key)
        /\ run.cycle >= LastWeek
    BY <1>1 DEF CountInv, UnderWay
  <1>6. /\ marker' <= day' /\ owed' = (IF marker' = 0 THEN 0 ELSE IsoWeek(marker'))
        /\ marker' # 0 => IsoWeek(marker') >= LastWeek'
    <2>1. CASE run.synced /\ run.fresh
      <3>1. marker' = 0 /\ owed' = 0
        BY <1>1, <2>1 DEF MarkRetry, Mark, RetryInv, Blinding
      <3>2. QED
        BY <1>0, <1>2, <3>1
    <2>2. CASE run.synced /\ ~run.fresh
      <3>1. marker' = run.ctx.key /\ owed' = run.cycle
        BY <2>2 DEF MarkRetry, Mark
      <3>2. run.ctx.key \in Nat /\ run.ctx.key # 0 /\ run.ctx.key <= day
        BY <1>0, <1>5
      <3>3. QED
        BY <1>2, <1>4, <1>5, <3>1, <3>2
    <2>3. CASE ~run.synced
      BY <1>2, <1>4, <2>3 DEF MarkRetry, Mark, CountInv
    <2>4. QED
      BY <2>1, <2>2, <2>3
  <1>7. /\ verdicts' \in Books /\ IsoWeek(day') \in Weeks /\ st'.last <= day'
        /\ \A v \in Weeks : v > LastWeek' => verdicts'[v] = "none"
        /\ st'.weak = Cardinality(Streak(verdicts'))
        /\ st'.last # 0 => st'.base = Cardinality(Streak(Before(LastWeek)'))
    BY <1>2, <1>4 DEF CountInv
  <1>8. QED
    BY <1>2, <1>3, <1>4, <1>5, <1>6, <1>7 DEF CountInv

\* What a decision proposes to book.
LEMMA BookingCounts ==
    ASSUME Typed, CountInv, run.pc = "decide", NEW w
    PROVE  /\ Booking(w).last = run.ctx.key
           /\ Booking(w).base = (IF LastWeek = run.cycle THEN st.base ELSE st.weak)
           /\ Booking(w).weak \in {0, Booking(w).base + 1}
  <1>1. st \in States
    BY DEF Typed
  <1>2. run.cycle = IsoWeek(run.ctx.key) /\ run.cycle # 0
    <2>1. run.ctx.key \in 1 .. day /\ run.cycle = IsoWeek(run.ctx.key) /\ day \in Nat
      BY DEF CountInv, UnderWay, Typed
    <2>2. run.ctx.key \in Nat \ {0}
      BY <2>1
    <2>3. IsoWeek(run.ctx.key) \in Nat \ {0}
      BY <2>2, WeeksBegin
    <2>4. QED
      BY <2>1, <2>3
  <1> DEFINE again == st.last # 0 /\ IsoWeek(st.last) = IsoWeek(run.ctx.key)
             hit == WeakWeek(w)
             weak == Booked(st.weak, st.base, again, hit)
  <1>3. again <=> LastWeek = run.cycle
    BY <1>2 DEF LastWeek
  <1>4. weak.base = IF again THEN st.base ELSE st.weak
    BY DEF Booked
  <1>5. weak.count \in {0, weak.base + 1}
    BY DEF Booked
  <1>6. Booking(w) = [st EXCEPT !.weak = weak.count, !.base = weak.base, !.last = run.ctx.key]
    BY DEF Booking
  <1> HIDE DEF again, hit, weak
  <1>7. /\ Booking(w).weak = weak.count /\ Booking(w).base = weak.base
        /\ Booking(w).last = run.ctx.key
    BY <1>1, <1>6 DEF States
  <1>8. QED
    BY <1>3, <1>4, <1>5, <1>7

LEMMA DecideCounts == ASSUME Typed, CountInv, Decide \/ SystemdSilent PROVE CountInv'
  <1>1. run \in Runs /\ run.pc = "decide" /\ UNCHANGED <<day, st, verdicts, marker, owed>>
    BY RunTyped DEF Decide, SystemdSilent, UnderWay, history
  <1>2. PICK w : /\ run'.next = Booking(w) /\ run'.ctx = run.ctx /\ run'.cycle = run.cycle
                 /\ run'.pc \in {"act", "save"}
    <2>1. CASE Decide
      <3>1. PICK w, profit, trusted, seen : run' = DecidedRun(w, profit, trusted, seen)
        BY <2>1 DEF Decide
      <3> DEFINE b == Booking(w)
      <3>2. PICK a :
               run' = [run EXCEPT !.pc = "act", !.cooldown = paused, !.next = b, !.action = a]
        BY <3>1 DEF DecidedRun
      <3> HIDE DEF b
      <3>3. run'.next = b /\ run'.ctx = run.ctx /\ run'.cycle = run.cycle /\ run'.pc = "act"
        BY <1>1, <3>2 DEF Runs
      <3>4. QED
        BY <3>3 DEF b
    <2>2. CASE SystemdSilent
      <3>1. PICK w : run' = [run EXCEPT !.pc = "save", !.next = Booking(w)]
        BY <2>2 DEF SystemdSilent
      <3> DEFINE b == Booking(w)
      <3>2. run' = [run EXCEPT !.pc = "save", !.next = b]
        BY <3>1
      <3> HIDE DEF b
      <3>3. run'.next = b /\ run'.ctx = run.ctx /\ run'.cycle = run.cycle /\ run'.pc = "save"
        BY <1>1, <3>2 DEF Runs
      <3>4. QED
        BY <3>3 DEF b
    <2>3. QED
      BY <2>1, <2>2
  <1> DEFINE b == Booking(w)
  <1>3. /\ b.last = run.ctx.key /\ b.weak \in {0, b.base + 1}
        /\ b.base = (IF LastWeek = run.cycle THEN st.base ELSE st.weak)
    BY <1>1, BookingCounts
  <1>4. run'.next = b
    BY <1>2
  <1> HIDE DEF b
  <1>5. UNCHANGED <<LastWeek, Before(LastWeek)>>
    BY <1>1 DEF LastWeek, Before
  <1>6. /\ run.ctx.key \in 1 .. day /\ run.cycle = IsoWeek(run.ctx.key)
        /\ run.cycle >= LastWeek
    BY <1>1 DEF CountInv, UnderWay
  <1>7. /\ verdicts' \in Books /\ IsoWeek(day') \in Weeks /\ st'.last <= day'
        /\ marker' <= day' /\ owed' = (IF marker' = 0 THEN 0 ELSE IsoWeek(marker'))
        /\ marker' # 0 => IsoWeek(marker') >= LastWeek'
        /\ \A v \in Weeks : v > LastWeek' => verdicts'[v] = "none"
        /\ st'.weak = Cardinality(Streak(verdicts'))
        /\ st'.last # 0 => st'.base = Cardinality(Streak(Before(LastWeek)'))
    BY <1>1, <1>5 DEF CountInv
  <1>8. QED
    BY <1>1, <1>2, <1>3, <1>4, <1>5, <1>6, <1>7 DEF CountInv

\* A week that is booked takes its place at the end, the first time or again.
LEMMA SaveCounts == ASSUME Typed, CountInv, RetryInv, Save PROVE CountInv'
  <1>0. st \in States /\ day \in Nat
    BY DEF Typed
  <1>1. run \in Runs /\ run.pc = "save" /\ run'.pc = "idle" /\ UNCHANGED <<day, marker, owed>>
    BY RunTyped DEF Save, UnderWay, Ended
  <1>2. st' = IF run.fresh THEN run.next ELSE st
    BY <1>1 DEF Save
  <1>3. CASE ~run.fresh
    <2>1. UNCHANGED <<verdicts, st>>
      BY <1>3 DEF Save
    <2>2. UNCHANGED WeeksOnDisk
      BY <2>1 DEF WeeksOnDisk
    <2>3. QED
      BY <1>1, <2>1, <2>2, CountFrame DEF UnderWay
  <1>4. CASE run.fresh
    <2> DEFINE k == run.cycle
               f == Before(k)
               n == run.next.weak
               base == run.next.base
    <2>1. /\ run.ctx.key \in 1 .. day /\ k = IsoWeek(run.ctx.key) /\ k >= LastWeek
          /\ run.next.last = run.ctx.key
          /\ base = (IF LastWeek = k THEN st.base ELSE st.weak)
          /\ n \in {0, base + 1}
      BY <1>1 DEF CountInv, UnderWay
    <2>2. LastWeek \in Nat /\ k \in Weeks
      <3>1. LastDay \in Nat \ {0}
        BY MonitorAssumption
      <3>2. IsoWeek(LastDay) \in Nat /\ k \in Nat \ {0} /\ k <= IsoWeek(day)
        <4>1. run.ctx.key \in Nat \ {0} /\ run.ctx.key <= day
          BY <1>0, <2>1
        <4>2. QED
          BY <1>0, <2>1, <3>1, <4>1, WeeksBegin, WeeksAreOrdered
      <3>3. IsoWeek(day) \in 1 .. IsoWeek(LastDay)
        BY DEF CountInv, Weeks
      <3> DEFINE x == IsoWeek(day)
                 y == IsoWeek(LastDay)
      <3>4. Weeks = 1 .. y
        BY DEF Weeks
      <3> HIDE DEF k, x, y
      <3>5. y \in Nat /\ k \in Nat \ {0} /\ k <= x /\ x \in 1 .. y
        BY <3>2, <3>3 DEF x, y
      <3>6. k \in 1 .. y
        BY <3>5
      <3>7. QED
        BY <3>4, <3>6, LastWeekTyped
    <2>3. /\ st' = run.next /\ run.next \in States
          /\ verdicts' = [verdicts EXCEPT ![k] = IF n > 0 THEN "weak" ELSE "sound"]
      BY <1>1, <1>2, <1>4 DEF Save, Runs
    <2>4. verdicts \in Books /\ \A v \in Weeks : v > LastWeek => verdicts[v] = "none"
      BY DEF CountInv
    <2>5. f \in Books /\ (\A v \in Weeks : v >= k => f[v] = "none")
      <3>1. f \in Books
        BY <2>2, <2>4 DEF Books, Before
      <3>2. \A v \in Weeks : f[v] = IF v = k THEN "none" ELSE verdicts[v]
        BY <2>2, <2>4 DEF Books, Before
      <3>3. \A v \in Weeks : v \in Nat
        BY DEF Weeks
      <3> HIDE DEF f, k
      <3>4. \A v \in Weeks : v >= k /\ v # k => v > LastWeek
        BY <2>1, <2>2, <3>3
      <3>5. QED
        BY <2>4, <3>1, <3>2, <3>4
    <2>6. base = Cardinality(Streak(f))
      <3>1. CASE LastWeek = k
        <4>1. st.last # 0
          <5>1. k # 0
            BY <2>2 DEF Weeks
          <5>2. QED
            BY <3>1, <5>1 DEF LastWeek
        <4>2. base = st.base
          BY <2>1, <3>1
        <4>3. st.base = Cardinality(Streak(Before(LastWeek)))
          BY <4>1 DEF CountInv
        <4>4. QED
          BY <3>1, <4>2, <4>3
      <3>2. CASE LastWeek # k
        <4>1. verdicts[k] = "none"
          <5>1. k \in Nat
            BY <2>2 DEF Weeks
          <5> HIDE DEF k
          <5>2. k > LastWeek
            BY <2>1, <2>2, <3>2, <5>1
          <5>3. QED
            BY <2>2, <2>4, <5>2
        <4>2. f = verdicts
          BY <2>2, <2>4, <4>1 DEF Before, Books
        <4>3. st.weak = Cardinality(Streak(verdicts))
          BY DEF CountInv
        <4>4. QED
          BY <2>1, <3>2, <4>2, <4>3
      <3>3. QED
        BY <3>1, <3>2
    <2>7. /\ Streak([f EXCEPT ![k] = "sound"]) = {}
          /\ Cardinality(Streak([f EXCEPT ![k] = "weak"])) = Cardinality(Streak(f)) + 1
          /\ Cardinality(Streak(f)) \in Nat
      BY <2>2, <2>5, StreakGoesOn
    <2>8. /\ [f EXCEPT ![k] = "sound"] = [verdicts EXCEPT ![k] = "sound"]
          /\ [f EXCEPT ![k] = "weak"] = [verdicts EXCEPT ![k] = "weak"]
      BY <2>2, <2>4 DEF Before, Books
    <2>9. LastWeek' = k
      <3>1. st'.last = run.ctx.key
        BY <2>1, <2>3
      <3>2. run.ctx.key # 0
        BY <1>0, <2>1
      <3>3. QED
        BY <2>1, <3>1, <3>2 DEF LastWeek
    <2>10. verdicts' \in Books /\ [verdicts' EXCEPT ![k] = "none"] = f
      BY <2>2, <2>3, <2>4 DEF Before, Books
    <2>11. n = Cardinality(Streak(verdicts'))
      <3>1. CASE n = 0
        <4>1. verdicts' = [verdicts EXCEPT ![k] = "sound"]
          BY <2>3, <3>1
        <4>2. Streak(verdicts') = {}
          BY <2>7, <2>8, <4>1
        <4>3. QED
          BY <3>1, <4>2, FS_EmptySet
      <3>2. CASE n # 0
        <4> DEFINE c == Cardinality(Streak(f))
        <4>1. n = base + 1 /\ base = c /\ c \in Nat
          BY <2>1, <2>6, <2>7, <3>2
        <4>2. n > 0
          <5> HIDE DEF n, base, c
          <5>1. QED
            BY <4>1
        <4>3. verdicts' = [verdicts EXCEPT ![k] = "weak"]
          BY <2>3, <4>2
        <4>4. Cardinality(Streak(verdicts')) = c + 1
          BY <2>7, <2>8, <4>3
        <4>5. QED
          BY <4>1, <4>4
      <3>3. QED
        BY <3>1, <3>2
    <2>12. \A v \in Weeks : v > k => verdicts'[v] = "none"
      <3>1. \A v \in Weeks : v > k => v # k /\ v > LastWeek
        <4>1. \A v \in Weeks : v \in Nat
          BY DEF Weeks
        <4> HIDE DEF k
        <4>2. k \in Nat
          BY <2>2, <4>1
        <4>3. QED
          BY <2>1, <2>2, <4>1, <4>2
      <3>2. QED
        BY <2>2, <2>3, <2>4, <3>1 DEF Books
    <2>13. marker' # 0 => IsoWeek(marker') >= LastWeek'
      <3>1. marker \in {0, run.ctx.key}
        BY <1>1 DEF RetryInv, UnderWay
      <3>2. IsoWeek(run.ctx.key) >= IsoWeek(run.ctx.key)
        <4>1. IsoWeek(run.ctx.key) \in Nat
          BY <2>1, <2>2 DEF Weeks
        <4>2. QED
          BY <4>1
      <3>3. QED
        BY <1>1, <2>1, <2>9, <3>1, <3>2
    <2>14. st'.last <= day' /\ st'.weak = n /\ st'.base = base
      BY <1>0, <1>1, <2>1, <2>3
    <2>15. Before(LastWeek)' = f
      BY <2>9, <2>10 DEF Before
    <2> HIDE DEF k, f, n, base
    <2>16. IsoWeek(day') \in Weeks /\ marker' <= day'
           /\ owed' = (IF marker' = 0 THEN 0 ELSE IsoWeek(marker'))
      BY <1>1 DEF CountInv
    <2>17. QED
      BY <1>1, <2>6, <2>9, <2>10, <2>11, <2>12, <2>13, <2>14, <2>15, <2>16 DEF CountInv, UnderWay
  <1>5. QED
    BY <1>3, <1>4

LEMMA DayCounts == ASSUME Typed, CountInv, NextDay PROVE CountInv'
  <1>1. /\ run.pc = "idle" /\ day' = day + 1 /\ day < LastDay /\ day \in Nat
        /\ UNCHANGED <<marker, st, run, verdicts, owed>>
    BY DEF NextDay, history, Typed
  <1>2. LastDay \in Nat \ {0}
    BY MonitorAssumption
  <1>3. IsoWeek(day') \in Weeks
    <2>1. day' \in Nat \ {0} /\ day' <= LastDay
      BY <1>1, <1>2
    <2>2. /\ IsoWeek(day') \in Nat \ {0} /\ IsoWeek(LastDay) \in Nat
          /\ IsoWeek(day') <= IsoWeek(LastDay)
      BY <1>2, <2>1, WeeksBegin, WeeksAreOrdered
    <2> DEFINE x == IsoWeek(day')
               y == IsoWeek(LastDay)
    <2> HIDE DEF x, y
    <2>3. x \in 1 .. y
      BY <2>2 DEF x, y
    <2>4. QED
      BY <2>3 DEF x, y, Weeks
  <1>4. st'.last <= day' /\ marker' <= day'
    <2>1. st.last \in Nat /\ marker \in Nat /\ st.last <= day /\ marker <= day
      BY DEF CountInv, Typed, States
    <2>2. QED
      BY <1>1, <2>1
  <1>5. UNCHANGED <<LastWeek, Before(LastWeek)>>
    BY <1>1 DEF LastWeek, Before
  <1>6. QED
    BY <1>1, <1>3, <1>4, <1>5 DEF CountInv, UnderWay

LEMMA StepCounts == ASSUME Typed, CountInv, RetryInv, Next PROVE CountInv'
  <1>1. CASE Cron \/ Manual
    <2>1. CASE UNCHANGED <<day, unit, paused, flag, marker, st, run, history>>
      <3>1. UNCHANGED <<day, verdicts, marker, owed, run, WeeksOnDisk>>
        BY <2>1 DEF history, WeeksOnDisk
      <3>2. QED
        BY <3>1, CountFrame
    <2>2. QED
      BY <1>1, <2>1, BeginCounts DEF Cron, Manual
  <1>2. CASE Evidence
    <2>1. PICK fresh \in BOOLEAN :
             /\ run' = [run EXCEPT !.pc = "marker", !.fresh = fresh]
             /\ \/ st' = [st EXCEPT !.blind = IF fresh THEN 0
                                              ELSE IF run.ctx.blindWeek THEN @ + 1 ELSE @]
                \/ UNCHANGED st
      BY <1>2 DEF Evidence
    <2>2. run \in Runs /\ run.pc = "evidence" /\ st \in States
      BY <1>2, RunTyped DEF Evidence, UnderWay, Typed
    <2>3. run'.pc = "marker" /\ run'.ctx = run.ctx /\ run'.cycle = run.cycle
      BY <2>1, <2>2 DEF Runs
    <2>4. UNCHANGED WeeksOnDisk
      BY <2>1, <2>2 DEF States, WeeksOnDisk
    <2>5. UNCHANGED <<day, verdicts, marker, owed>>
      BY <1>2 DEF Evidence
    <2>6. QED
      BY <2>2, <2>3, <2>4, <2>5, CountFrame DEF UnderWay
  <1>3. CASE ActDisable \/ ActFlag \/ ActEnable \/ ActStart \/ ActNone
    <2>1. UNCHANGED <<day, verdicts, marker, owed, st>> /\ run.pc \in {"act", "enable"}
      BY <1>3 DEF ActDisable, ActFlag, ActEnable, ActStart, ActNone, history
    <2>2. run' \in {[run EXCEPT !.pc = "save"], [run EXCEPT !.pc = "enable"]}
      BY <1>3 DEF ActDisable, ActFlag, ActEnable, ActStart, ActNone
    <2>3. run \in Runs
      BY <2>1, RunTyped DEF UnderWay
    <2>4. run'.next = run.next /\ run'.ctx = run.ctx /\ run'.cycle = run.cycle
      BY <2>2, <2>3 DEF Runs
    <2>5. UNCHANGED WeeksOnDisk
      BY <2>1 DEF WeeksOnDisk
    <2>6. QED
      BY <2>1, <2>4, <2>5, CountFrame DEF UnderWay
  <1>4. CASE Unusable \/ Kill
    <2>1. run'.pc = "idle" /\ UNCHANGED <<day, verdicts, marker, owed>>
      BY <1>4 DEF Unusable, Kill, Crashed, Ended
    <2>2. UNCHANGED WeeksOnDisk
      BY <1>4 DEF Unusable, Kill, Typed, States, WeeksOnDisk
    <2>3. QED
      BY <2>1, <2>2, CountFrame DEF UnderWay
  <1>5. CASE Suspend \/ Release \/ ConsumeFlag \/ BotDies \/ Operator
    <2>1. UNCHANGED <<day, verdicts, marker, owed, run, st>>
      BY <1>5 DEF Suspend, Release, ConsumeFlag, BotDies, Operator, history
    <2>2. UNCHANGED WeeksOnDisk
      BY <2>1 DEF WeeksOnDisk
    <2>3. QED
      BY <2>1, <2>2, CountFrame
  <1>6. QED
    BY <1>1, <1>2, <1>3, <1>4, <1>5, MarkCounts, DecideCounts, SaveCounts, DayCounts DEF Next

\* consecutive_weak is the number of weeks booked as weak since the last sound one
\* (book_streak, _resolve_run_context), whichever runs are killed, repeated by hand or
\* catch up with a week on another day.
THEOREM StreakCounted == Spec => []WeakStreakIsExact
  <1>1. Typed /\ RetryInv /\ CountInv /\ [Next]_vars => CountInv'
    <2> SUFFICES ASSUME Typed, RetryInv, CountInv, [Next]_vars PROVE CountInv'
      OBVIOUS
    <2>1. CASE UNCHANGED vars
      <3>1. UNCHANGED <<day, verdicts, marker, owed, run, WeeksOnDisk>>
        BY <2>1 DEF vars, history, WeeksOnDisk
      <3>2. QED
        BY <3>1, CountFrame
    <2>2. QED
      BY <2>1, StepCounts
  <1>2. CountInv => WeakStreakIsExact
    BY DEF CountInv, WeakStreakIsExact, Streak
  <1>3. QED
    BY InitCounts, RetriesKept, TypesKept, <1>1, <1>2, PTL DEF Spec
=============================================================================
