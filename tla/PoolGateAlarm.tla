----------------------------- MODULE PoolGateAlarm -----------------------------
(* PoolGateAlarm of runtime/pool_gate_alarm.py: a run of blocked rounds raises  *)
(* one alert, repeated after a while, and the first ready round clears it. The  *)
(* fields that only word the alert are left out.                                *)
EXTENDS Integers

CONSTANTS
    Threshold,      \* blocked rounds in a row that raise the alert
    Realert         \* realert_interval_s, in ticks

ASSUME AlarmAssumption == Threshold \in Nat \ {0} /\ Realert \in Nat

Never == -1

\* __init__: _streak, _last_seen_epoch, _last_alert_at and _alerting.
NewAlarm == [streak |-> 0, lastSeen |-> 0, lastAlert |-> Never, alerting |-> FALSE]

\* Mutant: a ready round clears the alert and leaves the run of blocked rounds.
RecordReadyKeepsStreak(a) == [a EXCEPT !.lastAlert = Never, !.alerting = FALSE]

\* _record_ready leaves _last_seen_epoch alone.
RecordReady(a) == [a EXCEPT !.streak = 0, !.lastAlert = Never, !.alerting = FALSE]

\* Raised, and again once the interval is over.
Raises(a, t) == /\ a.streak >= Threshold
                /\ ~a.alerting \/ a.lastAlert = Never \/ t - a.lastAlert >= Realert

\* _record_blocked counts a round once, however often it is told of it.
RecordBlocked(a, e, t) ==
    LET b == [a EXCEPT !.lastSeen = e, !.streak = @ + 1]
    IN  CASE a.lastSeen = e -> a
          [] a.lastSeen # e /\ Raises(b, t) -> [b EXCEPT !.alerting = TRUE, !.lastAlert = t]
          [] OTHER -> b

Record(a, ready, e, t) == IF ready THEN RecordReady(a) ELSE RecordBlocked(a, e, t)

\* The event record() returns, as a sequence of none or one.
EventOf(a, b) ==
    CASE b.alerting /\ b.lastAlert # a.lastAlert -> <<"blocked">>
      [] a.alerting /\ ~b.alerting -> <<"recovered">>
      [] OTHER -> <<>>

Alarms(epochs, times) ==
    [streak : Nat, lastSeen : epochs \cup {0}, lastAlert : times \cup {Never}, alerting : BOOLEAN]
================================================================================
