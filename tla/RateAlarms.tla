------------------------------- MODULE RateAlarms -------------------------------
(* The rate alarms of runtime/engine.py: RateWindow of runtime/pool_gate_alarm.py *)
(* over the klines of a round (OkxFetch) and over the endpoint of the poller, and *)
(* the alarms they feed. One behaviour is a life of the process and what follows  *)
(* a restart. An iteration of the loop for a round notes the endpoint once the    *)
(* pool gate has spoken; if the pool is ready it decides, and notes the klines.   *)
(* Delivery of the alerts is in RoundLoop; the pool window, which is only         *)
(* reported, and the counters of the gate nothing reads are left out.             *)
EXTENDS OkxFetch

CONSTANTS
    Rounds,         \* _RATE_WINDOW_ROUNDS and _ENDPOINT_WINDOW_ROUNDS
    MinSamples,     \* _RATE_MIN_SAMPLES and _ENDPOINT_MIN_SAMPLES
    PublishEnter, PublishExit, GenuineEnter, GenuineExit,
    StaticEnter, StaticExit, HeaderEnter, HeaderExit,   \* the rates, in thousandths
    BurstThreshold, \* max_consecutive_kline_fetch_failures
    PublishRealert, GenuineRealert, EndpointRealert,   \* in rounds
    LastEpoch,      \* rounds of one behaviour
    MaxOdd          \* the rarer events of one behaviour, see Odd

ASSUME RateAssumption ==
    /\ {Rounds, MinSamples, BurstThreshold} \subseteq Nat \ {0} /\ MinSamples <= Rounds
    /\ \A r \in {<<PublishEnter, PublishExit>>, <<GenuineEnter, GenuineExit>>,
                 <<StaticEnter, StaticExit>>, <<HeaderEnter, HeaderExit>>} :
          {r[1], r[2]} \subseteq 1 .. 1000 /\ r[2] < r[1]
    /\ {PublishRealert, GenuineRealert, EndpointRealert, LastEpoch, MaxOdd} \subseteq Nat

Publish  == INSTANCE PoolGateAlarm WITH Threshold <- 1, Realert <- PublishRealert
Genuine  == INSTANCE PoolGateAlarm WITH Threshold <- 1, Realert <- GenuineRealert
Burst    == INSTANCE PoolGateAlarm WITH Threshold <- BurstThreshold, Realert <- GenuineRealert
Endpoint == INSTANCE PoolGateAlarm WITH Threshold <- 1, Realert <- EndpointRealert

VARIABLES
    epoch,      \* the round at hand, and the time in rounds
    pc,
    lastClass,  \* the gate: _last_transient_class
    publish, genuine,       \* _PUBLISH_RATE_WINDOW, _GENUINE_RATE_WINDOW
    publishAlarm, genuineAlarm, burstAlarm, \* _KLINE_GATE_ALARM and the two for failures
    errors, seenErrors,     \* rs_block_error_count and _LAST_RS_ERROR_COUNT
    static, header, moveAlarm,  \* the windows and the alarm of the endpoint
    fetched,    \* history: what the last evaluation of the gate saw
    klines,     \* history: every decision of this process, its round, class and origin
    wakes,      \* history: wake mode and header of every round, in this process
    said,       \* history: the last word queued for the operator on each subject
    odd

gate == <<lastClass, publish, genuine, publishAlarm, genuineAlarm, burstAlarm>>
poller == <<errors, seenErrors, static, header, moveAlarm>>
history == <<fetched, klines, wakes, said>>
vars == <<epoch, pc, gate, poller, history, odd>>

NoCount == -1
Odd(n) == odd + n <= MaxOdd /\ odd' = odd + n
Cost(b) == IF b THEN 1 ELSE 0

-------------------------------------------------------------------------------
(* RateWindow *)

Recent(seq) == SubSeq(seq, Max({1, Len(seq) - Rounds + 1}), Len(seq))
NewWindow == [hits |-> <<>>, over |-> FALSE, lastSeen |-> 0]

Hits(hits) == Cardinality({i \in DOMAIN hits : hits[i]})
\* Mutant: the bar itself is not enough.
ReachesBeyond(hits, rate) == 1000 * Hits(hits) > rate * Len(hits)
Reaches(hits, rate) == 1000 * Hits(hits) >= rate * Len(hits)

\* Mutant: one rate for both ways.
NextOverFlat(over, hits, enter, exit) == Reaches(hits, enter)
\* In above the one rate, out below the other.
NextOver(over, hits, enter, exit) == IF over THEN Reaches(hits, exit) ELSE Reaches(hits, enter)

\* Mutant: every call is a round.
ObserveCalls(w, hit, e, enter, exit) ==
    LET hits == Recent(Append(w.hits, hit))
    IN  [hits |-> hits, lastSeen |-> e,
         over |-> IF Len(hits) < MinSamples THEN w.over ELSE NextOver(w.over, hits, enter, exit)]
\* observe: a round is counted once.
Observe(w, hit, e, enter, exit) ==
    IF w.lastSeen = e THEN w
    ELSE LET hits == Recent(Append(w.hits, hit))
         IN  [hits |-> hits, lastSeen |-> e,
              over |-> IF Len(hits) < MinSamples THEN w.over
                       ELSE NextOver(w.over, hits, enter, exit)]
Filled(w) == Len(w.hits) >= MinSamples

\* The last of the words queued on a subject, else the one before them.
LastWord(words, before) == IF words = <<>> THEN before ELSE Last(words)

-------------------------------------------------------------------------------
(* An iteration *)

\* _note_endpoint_move_outcome: both windows, one alarm.
NoteEndpoint(e, isStatic, count) ==
    LET failed == seenErrors # NoCount /\ count > seenErrors
        s == Observe(static, isStatic, e, StaticEnter, StaticExit)
        h == Observe(header, failed, e, HeaderEnter, HeaderExit)
        a == IF Filled(s) \/ Filled(h)
             THEN Endpoint!Record(moveAlarm, ~(s.over \/ h.over), e, e) ELSE moveAlarm
    IN  /\ static' = s /\ header' = h /\ moveAlarm' = a /\ seenErrors' = count
        /\ said' = [said EXCEPT !["move"] = LastWord(Endpoint!EventOf(moveAlarm, a), @)]
        /\ wakes' = IF static.lastSeen = e THEN wakes ELSE Append(wakes, <<isStatic, failed>>)

\* The iteration up to the skip of a pool that is not ready. The same round may come
\* again; the header of a new one may have failed at its start.
PoolGate ==
    /\ pc = "top"
    /\ \E e \in {epoch, epoch + 1}, isStatic, failed, ready \in BOOLEAN :
        /\ e \in 1 .. LastEpoch /\ (e = epoch => ~failed)
        /\ Odd(Cost(e = epoch) + Cost(isStatic) + Cost(failed) + Cost(~ready))
        /\ epoch' = e
        /\ errors' = errors + Cost(failed)
        /\ NoteEndpoint(e, isStatic, errors + Cost(failed))
        /\ pc' = IF ready THEN "decide" ELSE "top"
    /\ UNCHANGED <<gate, fetched, klines>>

\* Mutant: a publish delay says that fetches work.
BurstHeedsDelays(class) ==
    IF class = "fetch_failure" THEN Burst!Record(burstAlarm, FALSE, epoch, epoch)
    ELSE Burst!Record(burstAlarm, TRUE, epoch, epoch)
\* A delay is no word on fetches that fail, any other round is.
BurstNext(class) ==
    IF class = "publish_delay" THEN burstAlarm
    ELSE Burst!Record(burstAlarm, class # "fetch_failure", epoch, epoch)

\* _note_kline_gate_outcome, with the class the gate last had.
NoteKlines(class, ran) ==
    LET p == Observe(publish, class = "publish_delay", epoch, PublishEnter, PublishExit)
        g == Observe(genuine, class = "fetch_failure", epoch, GenuineEnter, GenuineExit)
        pa == IF Filled(p) THEN Publish!Record(publishAlarm, ~p.over, epoch, epoch)
              ELSE publishAlarm
        ga == IF Filled(g) THEN Genuine!Record(genuineAlarm, ~g.over, epoch, epoch)
              ELSE genuineAlarm
        b == BurstNext(class)
    IN  /\ publish' = p /\ genuine' = g
        /\ publishAlarm' = pa /\ genuineAlarm' = ga /\ burstAlarm' = b
        /\ said' = [said EXCEPT
                     !["publish"] = LastWord(Publish!EventOf(publishAlarm, pa), @),
                     !["fetch"] = LastWord(Genuine!EventOf(genuineAlarm, ga)
                                              \o Burst!EventOf(burstAlarm, b), @)]
        /\ klines' = Append(klines, [of |-> epoch, class |-> class, ran |-> ran])

\* decide_open_round asks the gate, unless a risk check has skipped the round before.
Evaluate ==
    /\ pc = "decide"
    /\ \E r \in Evaluations :
        /\ lastClass' = r.class
        /\ fetched' = r
        /\ NoteKlines(r.class, TRUE)
    /\ pc' = "top"
    /\ UNCHANGED <<epoch, poller, wakes, odd>>

RiskSkip ==
    /\ pc = "decide"
    /\ Odd(1)
    /\ NoteKlines(lastClass, FALSE)
    /\ pc' = "top"
    /\ UNCHANGED <<epoch, lastClass, poller, fetched, wakes>>

\* An answer that breaks the contract ends the process, and so may anything else; the
\* next one remembers nothing.
Restart ==
    /\ Odd(1)
    /\ pc' = "top"
    /\ lastClass' = "none"
    /\ publish' = NewWindow /\ genuine' = NewWindow /\ static' = NewWindow /\ header' = NewWindow
    /\ publishAlarm' = Publish!NewAlarm /\ genuineAlarm' = Genuine!NewAlarm
    /\ burstAlarm' = Burst!NewAlarm /\ moveAlarm' = Endpoint!NewAlarm
    /\ errors' = 0 /\ seenErrors' = NoCount
    /\ klines' = <<>> /\ wakes' = <<>>
    /\ said' = [s \in DOMAIN said |-> "none"]
    /\ UNCHANGED <<epoch, fetched>>

Init ==
    /\ epoch = 0 /\ pc = "top"
    /\ lastClass = "none"
    /\ publish = NewWindow /\ genuine = NewWindow /\ static = NewWindow /\ header = NewWindow
    /\ publishAlarm = Publish!NewAlarm /\ genuineAlarm = Genuine!NewAlarm
    /\ burstAlarm = Burst!NewAlarm /\ moveAlarm = Endpoint!NewAlarm
    /\ errors = 0 /\ seenErrors = NoCount
    /\ fetched = [class |-> "none", window |-> TRUE, noHole |-> TRUE]
    /\ klines = <<>> /\ wakes = <<>>
    /\ said = [s \in {"publish", "fetch", "move"} |-> "none"]
    /\ odd = 0

Next == PoolGate \/ Evaluate \/ RiskSkip \/ Restart

Spec == Init /\ [][Next]_vars

-------------------------------------------------------------------------------
(* Properties *)

\* A signal is computed from the very window of every symbol, and a round counts as a
\* publish delay only if no candle of it is missing before one that is there: what
\* okx_client.py checks, for answers with any rows.
WindowsAreWhole ==
    /\ fetched.class = "none" => fetched.window
    /\ fetched.class = "publish_delay" => fetched.noHole

\* The first decisions of the rounds, how many of them came after one, and those that a
\* window has room for.
Firsts == {i \in DOMAIN klines : \A j \in 1 .. i - 1 : klines[j].of # klines[i].of}
After(firsts, i) == Cardinality({j \in firsts : i < j})
LastOf(firsts) == {i \in firsts : After(firsts, i) < Rounds}
\* The last rounds, in their order, and whether each of them was of the class.
Tells(hits, firsts, class) ==
    LET last == LastOf(firsts)
    IN  /\ Len(hits) = Cardinality(last)
        /\ \A i \in last : hits[Len(hits) - After(firsts, i)] = (klines[i].class = class)
\* Every window holds the last rounds of this process, each once: those the pool gate
\* skipped for the endpoint, those that decided for the klines. A loop that comes back
\* to a round does not replace them by its repeats.
WindowsCountRounds ==
    /\ LET firsts == Firsts
       IN  Tells(publish.hits, firsts, "publish_delay") /\ Tells(genuine.hits, firsts, "fetch_failure")
    /\ static.hits = [i \in DOMAIN Recent(wakes) |-> Recent(wakes)[i][1]]
    /\ header.hits = [i \in DOMAIN Recent(wakes) |-> Recent(wakes)[i][2]]

\* A mixture of delays and failures is never silent: when the rounds lost to either are
\* as many as both bars together allow, one of the alarms is up.
LossIsNeverSilent ==
    LET last == LastOf(Firsts)
        lost == {i \in last : klines[i].class # "none"}
        all  == Cardinality(last)
    IN  all >= MinSamples /\ 1000 * Cardinality(lost) >= (PublishEnter + GenuineEnter) * all
            => publishAlarm.alerting \/ genuineAlarm.alerting

\* Rounds that fail for good raise the burst alarm at its threshold, whatever delays lie
\* between, until a fetch is clean.
BurstsAreSeen ==
    LET clean == {i \in DOMAIN klines : klines[i].class = "none"}
        since == {i \in DOMAIN klines : \A j \in clean : j < i}
    IN  Cardinality({i \in since \cap Firsts : klines[i].class = "fetch_failure"})
            >= BurstThreshold => burstAlarm.alerting

\* Hysteresis, as the operator sees it: in every step an alarm is up once its rate is at
\* the bar, goes down only below the lower one (or with the process), and the last word
\* queued on delays and on the endpoint says which of the two it is.
Follows(alarm, next, hits, enter, exit) ==
    /\ Len(hits) >= MinSamples /\ Reaches(hits, enter) => next.alerting
    /\ alarm.alerting /\ ~next.alerting => hits = <<>> \/ ~Reaches(hits, exit)
AlarmsFollowTheRate ==
    [][/\ Follows(publishAlarm, publishAlarm', publish'.hits, PublishEnter, PublishExit)
       /\ Follows(genuineAlarm, genuineAlarm', genuine'.hits, GenuineEnter, GenuineExit)
       /\ (said'["publish"] = "blocked") <=> publishAlarm'.alerting
       /\ (said'["move"] = "blocked") <=> moveAlarm'.alerting]_vars

-------------------------------------------------------------------------------
(* What comments say and the code does not do *)

\* "Any round that reaches here got past the pool gate, so the kline fetch genuinely ran"
\* (engine.py:1616).
CountedRoundsFetched == \A i \in DOMAIN klines : klines[i].class # "none" => klines[i].ran

\* "a RECOVERED event on the first ready round after an alerting run, so silence is never
\* ambiguous" (pool_gate_alarm.py:25).
FetchWordIsTrue == said["fetch"] = "blocked" <=> genuineAlarm.alerting \/ burstAlarm.alerting
=================================================================================
