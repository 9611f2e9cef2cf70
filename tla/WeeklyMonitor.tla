----------------------------- MODULE WeeklyMonitor -----------------------------
(* research/weekly_monitor_state_machine.py under the daily cron job of          *)
(* bootstrap/linux/run_weekly_monitor.sh: the Sunday run and its makeup runs,    *)
(* what they book in state.json, and what they do to the unit of the live bot    *)
(* and to its suspension. Every run is one with --apply; a dry run changes       *)
(* nothing. The numbers of a window are abstracted to what its legs say; the     *)
(* streak of suppressed enables, booked like consecutive_weak, only words an     *)
(* alert and is left out, like the history and the fingerprint of state.json.    *)
EXTENDS Naturals, FiniteSets

CONSTANTS
    WeekLen,        \* days of a week of the model, Sunday is the last
    LastDay,        \* the calendar ends here
    WeakLimit,      \* NEG_CONSECUTIVE_WEAK
    BlindLimit,     \* SYNC_FAIL_DISABLE_STREAK
    FlagDays,       \* the bot obeys an override flag up to this age
    FaultKinds,     \* what may go wrong, see Fault
    KillAt,         \* the places of a run where it may be killed
    MaxFaults       \* faults of one behaviour

ASSUME MonitorAssumption ==
    /\ {WeekLen, LastDay, WeakLimit, BlindLimit, FlagDays} \subseteq Nat \ {0}
    /\ MaxFaults \in Nat
    /\ FaultKinds \subseteq {"unusable", "silent", "misread", "refuses", "dies",
                             "operator", "manual", "down", "kill", "torn"}

VARIABLES
    day,
    cron,       \* the job of today is still to come
    unit,       \* systemd: [enabled, running]
    paused,     \* pause_state.json of the bot
    flag,       \* cooldown_override.json: the day it was written, 0 for none
    marker,     \* retry_pending.json: its sunday_key, 0 for none
    st,         \* state.json
    run,        \* the run under way, or how the last one ended
    verdicts,   \* history: what was last booked for a week
    owed,       \* history: the week a makeup run is for, 0 for none
    dark,       \* history: Sundays with a run since the last fresh evidence
    counted,    \* history: the last of them
    excuses,    \* history: why the unit may be on although it should be off, see Cut
    decided,    \* history: the last act of a run on the bot was to let it bet, and went well
    faults

history == <<verdicts, owed, dark, counted, excuses, decided>>
vars == <<day, cron, unit, paused, flag, marker, st, run, history, faults>>

Fault(kind) == kind \in FaultKinds /\ faults < MaxFaults /\ faults' = faults + 1

Sunday(d)  == d % WeekLen = 0
IsoWeek(d) == (d + WeekLen - 1) \div WeekLen
Weeks == 1 .. IsoWeek(LastDay)
On(u) == u.enabled \/ u.running
Ended(how) == [pc |-> "idle", ended |-> how]

-------------------------------------------------------------------------------
(* What the evaluator sees *)

\* A window is starved, or its legs say: strong (wins, and significantly), even,
\* weak (p_upper > NEG_WEAK_P), slipping (the bound on WR is below breakeven), losing
\* (both).
Windows == {"starved", "strong", "even", "weak", "slipping", "losing"}
\* positive_window and spent_stats: the fortnight only when the week is starved.
Spent(w1, w2) == IF w1 # "starved" THEN w1 ELSE w2
Positive(w, profit) == w = "strong" /\ profit
NegativeLeg(w) == w \in {"slipping", "losing"}
WeakWeek(w) == w \in {"starved", "weak", "losing"}

\* Mutant: a second run of a week advances its counter again.
BookedTwice(stored, base, again, hit) ==
    [base |-> stored, count |-> IF hit THEN stored + 1 ELSE 0]
\* book_streak: a second run of a week starts from where the first one did.
Booked(stored, base, again, hit) ==
    LET from == IF again THEN base ELSE stored
    IN  [base |-> from, count |-> IF hit THEN from + 1 ELSE 0]

-------------------------------------------------------------------------------
(* A run *)

\* The protocol: a run on a Sunday is for that week; another makes up for the blind
\* week that is owed, or is an early run of its own week.
Cycle == IF ~Sunday(day) /\ owed # 0 THEN owed ELSE IsoWeek(day)

\* Mutant: a makeup run is keyed to the day it runs on.
RunContextToday ==
    [key |-> day, retry |-> marker # 0 /\ ~Sunday(day),
     blindWeek |-> marker # 0 /\ Sunday(day) /\ marker # day]
\* Mutant: a week of blind runs is not noticed by the Sunday that supersedes it.
RunContextUnseen ==
    LET retry == marker # 0 /\ ~Sunday(day)
    IN  [key |-> IF retry THEN marker ELSE day, retry |-> retry, blindWeek |-> FALSE]
\* _resolve_run_context
RunContext ==
    LET retry == marker # 0 /\ ~Sunday(day)
    IN  [key |-> IF retry THEN marker ELSE day, retry |-> retry,
         blindWeek |-> marker # 0 /\ Sunday(day) /\ marker # day]

\* A suspended bot that runs looks for a flag every round, many times in a run.
Obeyed == ~(unit.running /\ paused /\ flag # 0)

\* The run neither counts a blind week nor arms a makeup run.
Cut == excuses' = excuses \union {"cut"}
\* A run that ends in an exception books nothing.
Crashed == run' = Ended("crashed") /\ Cut

\* A Sunday supersedes the marker, then state.json is read; a torn one ends the run.
\* sync: the run is one without --no-sync.
Begin(sync) ==
    /\ Obeyed
    /\ IF st.torn THEN Crashed
       ELSE /\ run' = [pc |-> "evidence", ctx |-> RunContext, cycle |-> Cycle,
                       synced |-> sync, fresh |-> FALSE, cooldown |-> FALSE,
                       action |-> "none", next |-> st]
            /\ IF sync THEN UNCHANGED excuses ELSE Cut
    /\ marker' = IF Sunday(day) THEN 0 ELSE marker
    /\ owed' = IF Sunday(day) THEN 0 ELSE owed
    /\ IF Sunday(day) /\ counted # day
       THEN dark' = dark + 1 /\ counted' = day
       ELSE UNCHANGED <<dark, counted>>
    /\ UNCHANGED <<day, unit, paused, flag, st, verdicts, decided>>

\* The job of the day; the wrapper runs the monitor on Sundays and while a makeup is due.
Cron ==
    /\ cron /\ run.pc = "idle"
    /\ cron' = FALSE
    /\ UNCHANGED faults
    /\ IF Sunday(day) \/ marker # 0 THEN Begin(TRUE)
       ELSE UNCHANGED <<day, unit, paused, flag, marker, st, run, history>>

\* Somebody starts the monitor by hand, with --no-sync or without.
Manual ==
    /\ run.pc = "idle"
    /\ Fault("manual")
    /\ \E sync \in BOOLEAN : Begin(sync)
    /\ UNCHANGED cron

\* Sync and freshness decide whether the evidence is fresh; the streak of blind weeks is
\* saved at once, by a run that syncs.
Evidence ==
    /\ run.pc = "evidence"
    /\ \E fresh \in BOOLEAN :
        /\ run' = [run EXCEPT !.pc = "marker", !.fresh = fresh]
        /\ IF run.synced
           THEN /\ st' = [st EXCEPT !.blind = IF fresh THEN 0
                                              ELSE IF run.ctx.blindWeek THEN @ + 1 ELSE @]
                /\ dark' = IF fresh THEN 0 ELSE dark
                /\ excuses' = IF fresh THEN excuses \ {"blind", "cut"} ELSE excuses
           ELSE UNCHANGED <<st, dark, excuses>>
    /\ UNCHANGED <<day, cron, unit, paused, flag, marker, verdicts, owed, counted, decided,
                   faults>>

\* build_canonical_bets yields nothing: the run raises, main reports the crash.
Unusable ==
    /\ run.pc = "evidence"
    /\ Fault("unusable")
    /\ Crashed
    /\ UNCHANGED <<day, cron, unit, paused, flag, marker, st, verdicts, owed, dark, counted,
                   decided>>

\* Mutant: only a Sunday arms the makeup runs, a blind makeup run does not.
MarkSundays ==
    marker' = IF ~run.synced THEN marker
              ELSE IF run.fresh \/ run.ctx.retry THEN 0 ELSE run.ctx.key
\* A blind run arms the makeup runs or keeps them armed, a recovered one disarms them; a
\* run without a sync does neither.
Mark ==
    marker' = IF ~run.synced THEN marker
              ELSE IF ~run.fresh THEN run.ctx.key ELSE IF run.ctx.retry THEN 0 ELSE marker

MarkRetry ==
    /\ run.pc = "marker"
    /\ Mark
    /\ owed' = IF ~run.synced THEN owed ELSE IF run.fresh THEN 0 ELSE run.cycle
    /\ run' = [run EXCEPT !.pc = "decide"]
    /\ UNCHANGED <<day, cron, unit, paused, flag, st, verdicts, dark, counted, excuses,
                   decided, faults>>

\* What state.json says once the run has booked its week, for the spent window w.
Booking(w) ==
    LET again == st.last # 0 /\ IsoWeek(st.last) = IsoWeek(run.ctx.key)
        weak == Booked(st.weak, st.base, again, WeakWeek(w))
    IN  [st EXCEPT !.weak = weak.count, !.base = weak.base, !.last = run.ctx.key]

\* Mutant: the unit is stopped one weak week later.
NegativeLate(w, consec) == NegativeLeg(w) \/ consec > WeakLimit
Negative(w, consec) == NegativeLeg(w) \/ consec >= WeakLimit

FlyingBlind == st.blind + (IF run.fresh THEN 0 ELSE 1) >= BlindLimit

\* positive_evidence_ok: fresh, without a drought in the window, of the deployed config.
Trusted(continuous, readable) == run.fresh /\ continuous /\ readable

\* positive, negative: the triggers; trusted: the evidence may be spent on a release; seen:
\* the unit as read_bot_state has it.
Action(positive, negative, trusted, seen) ==
    IF (FlyingBlind \/ negative) /\ On(seen) THEN "disable"
    ELSE IF positive /\ (~seen.enabled \/ paused)
         THEN IF ~trusted THEN "blocked" ELSE IF seen.enabled THEN "override" ELSE "enable"
    ELSE IF seen.enabled /\ ~seen.running THEN "start"
    ELSE "none"

\* is-active and is-enabled are asked apart, and an answer that is an error counts as no;
\* only an is-active that does not answer at all is noticed, see SystemdSilent.
Readings == {u \in [enabled : BOOLEAN, running : BOOLEAN] :
                (u.enabled => unit.enabled) /\ (u.running => unit.running)}

\* The window a run spends, and whether it may spend it on a release.
Evaluations == {Spent(w1, w2) : w1, w2 \in Windows}
Reliances == {Trusted(continuous, readable) : continuous, readable \in BOOLEAN}

\* The run once the triggers and the state of the unit and of the bot have decided.
DecidedRun(w, profit, trusted, seen) ==
    LET consec == IF run.fresh THEN Booking(w).weak ELSE st.weak
    IN  [run EXCEPT !.pc = "act", !.cooldown = paused, !.next = Booking(w),
             !.action = Action(Positive(w, profit), Negative(w, consec), trusted, seen)]

\* A unit that is on and reads as off is left on.
Decide ==
    /\ run.pc = "decide"
    /\ \E w \in Evaluations, profit \in BOOLEAN, trusted \in Reliances, seen \in Readings :
        /\ run' = DecidedRun(w, profit, trusted, seen)
        /\ IF seen = unit THEN UNCHANGED faults ELSE Fault("misread")
        /\ excuses' = IF On(unit) /\ ~On(seen) THEN excuses \union {"weak", "blind"} ELSE excuses
    /\ UNCHANGED <<day, cron, unit, paused, flag, marker, st, verdicts, owed, dark, counted,
                   decided>>

\* systemctl does not answer: no action, but the week is booked all the same.
SystemdSilent ==
    /\ run.pc = "decide"
    /\ Fault("silent")
    /\ \E w \in Windows :
        run' = [run EXCEPT !.pc = "save", !.next = Booking(w)]
    /\ excuses' = excuses \union {"weak", "blind"}
    /\ UNCHANGED <<day, cron, unit, paused, flag, marker, st, verdicts, owed, dark, counted,
                   decided>>

\* do_disable; what systemctl answers is reported and otherwise ignored.
ActDisable ==
    /\ run.pc = "act" /\ run.action = "disable"
    /\ \/ /\ unit' = [enabled |-> FALSE, running |-> FALSE]
          /\ excuses' = excuses \ {"weak", "blind"} /\ decided' = FALSE
          /\ UNCHANGED faults
       \/ /\ Fault("refuses")
          /\ unit' \in {unit, [unit EXCEPT !.enabled = FALSE]}
          /\ excuses' = excuses \union {"weak", "blind"}
          /\ UNCHANGED decided
    /\ run' = [run EXCEPT !.pc = "save"]
    /\ UNCHANGED <<day, cron, paused, flag, marker, st, verdicts, owed, dark, counted>>

\* write_override_flag, for a suspended bot: before the unit is enabled, or instead.
ActFlag ==
    /\ run.pc = "act" /\ run.action \in {"enable", "override"}
    /\ flag' = IF run.cooldown THEN day ELSE flag
    /\ decided' = TRUE
    /\ run' = [run EXCEPT !.pc = IF run.action = "enable" THEN "enable" ELSE "save"]
    /\ UNCHANGED <<day, cron, unit, paused, marker, st, verdicts, owed, dark, counted, excuses,
                   faults>>

\* do_enable: enable --now may fail before or after it has enabled the unit.
ActEnable ==
    /\ run.pc = "enable"
    /\ \/ /\ unit' = [enabled |-> TRUE, running |-> TRUE]
          /\ UNCHANGED <<flag, decided, faults>>
       \/ /\ Fault("refuses")
          /\ unit' \in {unit, [unit EXCEPT !.enabled = TRUE]}
          /\ flag' = IF run.cooldown THEN 0 ELSE flag
          /\ decided' = FALSE
    /\ excuses' = excuses \union {"weak"}
    /\ run' = [run EXCEPT !.pc = "save"]
    /\ UNCHANGED <<day, cron, paused, marker, st, verdicts, owed, dark, counted>>

\* An enabled unit that is not running is started.
ActStart ==
    /\ run.pc = "act" /\ run.action = "start"
    /\ \/ unit' = [unit EXCEPT !.running = TRUE] /\ UNCHANGED faults
       \/ Fault("refuses") /\ UNCHANGED unit
    /\ run' = [run EXCEPT !.pc = "save"]
    /\ UNCHANGED <<day, cron, paused, flag, marker, st, history>>

ActNone ==
    /\ run.pc = "act" /\ run.action \in {"none", "blocked"}
    /\ run' = [run EXCEPT !.pc = "save"]
    /\ UNCHANGED <<day, cron, unit, paused, flag, marker, st, history, faults>>

\* Only fresh evidence is booked.
Save ==
    /\ run.pc = "save"
    /\ st' = IF run.fresh THEN run.next ELSE st
    /\ verdicts' = IF run.fresh
                   THEN [verdicts EXCEPT ![run.cycle] =
                            IF run.next.weak > 0 THEN "weak" ELSE "sound"]
                   ELSE verdicts
    /\ excuses' = IF st'.weak < WeakLimit THEN excuses \ {"weak"} ELSE excuses
    /\ run' = Ended("done")
    /\ UNCHANGED <<day, cron, unit, paused, flag, marker, owed, dark, counted, decided, faults>>

-------------------------------------------------------------------------------
(* The bot, its operator and the machine *)

\* The breaker suspends the bot; a release on settled evidence ends it.
Suspend ==
    /\ unit.running /\ ~paused
    /\ paused' = TRUE
    /\ UNCHANGED <<day, cron, unit, flag, marker, st, run, history, faults>>

Release ==
    /\ unit.running /\ paused /\ flag = 0
    /\ paused' = FALSE
    /\ UNCHANGED <<day, cron, unit, flag, marker, st, run, history, faults>>

\* _consume_override_flag: every flag is removed, only a fresh one releases.
ConsumeFlag ==
    /\ unit.running /\ paused /\ flag # 0
    /\ flag' = 0
    /\ paused' = (day - flag > FlagDays)
    /\ UNCHANGED <<day, cron, unit, marker, st, run, history, faults>>

BotDies ==
    /\ unit.running
    /\ Fault("dies")
    /\ unit' = [unit EXCEPT !.running = FALSE]
    /\ UNCHANGED <<day, cron, paused, flag, marker, st, run, history>>

\* systemctl start, enable --now, stop, disable and stop.
Operator ==
    /\ Fault("operator")
    /\ unit' \in {[unit EXCEPT !.running = TRUE], [enabled |-> TRUE, running |-> TRUE],
                  [unit EXCEPT !.running = FALSE], [enabled |-> FALSE, running |-> FALSE]}
    /\ excuses' = IF On(unit') THEN excuses \union {"weak", "blind"} ELSE excuses
    /\ UNCHANGED <<day, cron, paused, flag, marker, st, run, verdicts, owed, dark, counted,
                   decided>>

\* The job of a day may fail to start.
NextDay ==
    /\ run.pc = "idle" /\ day < LastDay /\ Obeyed
    /\ day' = day + 1 /\ cron' = TRUE
    /\ IF cron THEN Fault("down") ELSE UNCHANGED faults
    /\ UNCHANGED <<unit, paused, flag, marker, st, run, history>>

\* The run is killed; in a save this may leave half of state.json.
Kill ==
    /\ run.pc \in KillAt
    /\ \/ Fault("kill") /\ UNCHANGED st
       \/ run.pc = "save" /\ run.fresh /\ Fault("torn") /\ st' = [st EXCEPT !.torn = TRUE]
    /\ run' = Ended("killed")
    /\ IF run.pc \in {"evidence", "marker"} THEN Cut ELSE UNCHANGED excuses
    /\ decided' = (decided /\ run.pc # "enable")
    /\ UNCHANGED <<day, cron, unit, paused, flag, marker, verdicts, owed, dark, counted>>

-------------------------------------------------------------------------------
Init ==
    /\ day = WeekLen /\ cron = TRUE
    /\ decided \in BOOLEAN /\ unit = [enabled |-> decided, running |-> decided]
    /\ paused \in BOOLEAN
    /\ flag = 0 /\ marker = 0
    /\ st = [weak |-> 0, base |-> 0, last |-> 0, blind |-> 0, torn |-> FALSE]
    /\ run = Ended("done")
    /\ verdicts = [w \in Weeks |-> "none"]
    /\ owed = 0 /\ dark = 0 /\ counted = 0
    /\ excuses = {}
    /\ faults = 0

Next ==
    \/ Cron \/ Manual \/ Evidence \/ Unusable \/ MarkRetry \/ Decide \/ SystemdSilent
    \/ ActDisable \/ ActFlag \/ ActEnable \/ ActStart \/ ActNone \/ Save
    \/ Suspend \/ Release \/ ConsumeFlag \/ BotDies \/ Operator \/ NextDay \/ Kill

Spec == Init /\ [][Next]_vars

-------------------------------------------------------------------------------
(* Properties *)

TypeOK ==
    /\ day \in WeekLen .. LastDay /\ cron \in BOOLEAN /\ paused \in BOOLEAN
    /\ unit \in [enabled : BOOLEAN, running : BOOLEAN]
    /\ {flag, marker, counted, st.last} \subseteq 0 .. day
    /\ owed \in 0 .. IsoWeek(day) /\ dark \in 0 .. IsoWeek(day)
    /\ {st.weak, st.base, st.blind} \subseteq 0 .. IsoWeek(day)
    /\ excuses \subseteq {"weak", "blind", "cut"} /\ decided \in BOOLEAN
    /\ faults \in 0 .. MaxFaults

\* The persisted counter is the number of weeks booked as weak since the last sound one,
\* however often a week was evaluated, on which day a makeup run caught up with it, and
\* wherever a run died (book_streak and _resolve_run_context: "nothing ever
\* double-advances", "would steal the next Sunday's state advance").
WeakStreakIsExact ==
    st.weak = Cardinality({w \in Weeks : /\ verdicts[w] = "weak"
                                         /\ \A v \in w .. IsoWeek(LastDay) : verdicts[v] # "sound"})

\* No third weak week is ever on disk with the unit still on: the unit is stopped before
\* the week is booked, so a run that dies in between evaluates the week again. Excused is
\* a unit that systemd would not stop, that it reported as off or did not report, or that
\* was turned on since.
WeakWeeksStop ==
    st.weak >= WeakLimit /\ "weak" \notin excuses => ~On(unit)

\* After BlindLimit Sundays in a row without fresh evidence a run that was not killed
\* leaves the unit off, over missed days, makeup runs and kills; excused as above, and
\* where one of the runs was cut short before it marked its blind week or did not sync.
BlindWeeksStop ==
    run.pc = "idle" /\ run.ended # "killed" /\ dark >= BlindLimit
        /\ excuses \intersect {"blind", "cut"} = {} => ~On(unit)

\* From a blind Sunday on, until a run has fresh evidence, the makeup runs are armed, and
\* for that Sunday: a makeup run under another day would book the week it runs in (key of
\* _resolve_run_context, "would steal the next Sunday's state advance"). Excused is a run
\* cut short before it marked its week, or without a sync.
BlindSundayIsRetried ==
    run.pc = "idle" /\ dark > 0 /\ "cut" \notin excuses => marker = counted

\* Doc claim (docstring line 51): "Never bet for months while the evaluator cannot see
\* performance", whatever it is that blinds it.
NeverBetsForMonthsBlind ==
    run.pc = "idle" /\ run.ended # "killed" /\ dark >= BlindLimit /\ "blind" \notin excuses
        => ~On(unit)

\* Doc claim (docstring line 52): a failed read of the unit "must not masquerade as already
\* safe", so it keeps no unit on that three blind weeks should stop.
FailedReadIsNotSafe ==
    [][run.pc = "decide" /\ run'.pc = "act" /\ On(unit) /\ FlyingBlind
           => run'.action = "disable"]_vars

\* Doc claim (:1315): no manual start of a unit that a run disabled or failed to enable
\* consumes a flag "and bets without an enable decision".
ReleaseHasADecision ==
    [][paused /\ flag # 0 /\ flag' = 0 /\ ~paused' => decided]_vars

\* Doc claim (:1315): a failed enable does not let the bot bet; a later run does not start
\* the unit it left enabled.
StartHasADecision ==
    [][run.pc = "act" /\ ~unit.running /\ unit'.running => decided]_vars
===============================================================================
