--------------------------- MODULE BankrollTracker ---------------------------
(***************************************************************************)
(* PersistedBankrollTracker of bankroll_tracker.py, in the rolling mode in *)
(* which the live and the dry run build it: the samples of the bankroll    *)
(* over which the drawdown breaker takes its peak, and the countdown of a  *)
(* suspension.  Every method makes at most one write, at its end, so a     *)
(* method is one step; a restart falls between two of them, forgets the    *)
(* memory and reads the files back.                                        *)
(***************************************************************************)
EXTENDS Integers, Sequences, FiniteSets, FiniteSetsExt, SequencesExt

CONSTANTS
    Window,      \* drawdown_peak_window_days, in the unit of the anchors
    Bankrolls,   \* balances a sample may hold
    Cooldowns,   \* arguments of set_paused
    MaxAnchor,   \* last round anchor (bound of the model)
    MaxSamples,  \* longest list of samples (bound of the model)
    MaxRestarts  \* most restarts (bound of the model)

ASSUME TrackerAssumption ==
    /\ Window \in Nat \ {0} /\ Bankrolls \subseteq Nat /\ Bankrolls # {}
    /\ Cooldowns \subseteq Nat
    /\ MaxAnchor \in Nat /\ MaxSamples \in Nat /\ MaxRestarts \in Nat

VARIABLES
    anchor,     \* start_at of the round the engine is working on
    \* --- process memory ---
    entries,    \* _entries
    seeded,     \* _seeded
    initial,    \* _initial, the balance at the start of the process
    cooldown,   \* _cooldown
    lastTick,   \* _last_tick_start_at, -1 for None
    \* --- on disk ---
    history,    \* bankroll_history.jsonl
    pauseFile,  \* pause_state.json: the remaining rounds, 0 if not paused
    \* --- history variables ---
    given,      \* what this process loaded or recorded since the last reseed
    truth,      \* what any process recorded since the last reseed
    granted,    \* cooldown_rounds of the last set_paused
    ticked,     \* rounds that have ticked since then
    lapses,     \* restarts since then
    restarts    \* restarts so far

sampleVars == <<entries, seeded, initial, history, given, truth>>
cooldownVars == <<cooldown, lastTick, pauseFile, granted, ticked>>
restartVars == <<lapses, restarts>>
trackerVars == <<anchor, sampleVars, cooldownVars, restartVars>>

Sample == [at : Nat, bankroll : Nat, reseed : BOOLEAN]
Taken(b, t) == [at |-> t, bankroll |-> b, reseed |-> FALSE]
Reseeded(b, t) == [at |-> t, bankroll |-> b, reseed |-> TRUE]

-----------------------------------------------------------------------------
(* The rolling window.                                                     *)

FirstInWindow(es) ==
    CHOOSE i \in DOMAIN es :
        /\ es[i].at >= Last(es).at - Window
        /\ \A k \in DOMAIN es : k < i => es[k].at < Last(es).at - Window

\* Mutant: the sample before the window is dropped with the older ones.
PruneTight(es) == SubSeq(es, FirstInWindow(es), Len(es))

\* Keep the window that ends at the latest sample and one sample before it.
Prune(es) ==
    LET first == FirstInWindow(es)
    IN  SubSeq(es, IF first > 1 THEN first - 1 ELSE 1, Len(es))

\* The samples the peak is taken over at t: those of the window, and the most
\* recent one before it.
Counted(es, t) ==
    {i \in DOMAIN es :
        \/ es[i].at >= t - Window
        \/ \A k \in DOMAIN es : k > i => es[k].at >= t - Window}

PeakBankroll(es, t) ==
    IF es = <<>> THEN initial
    ELSE Max({es[i].bankroll : i \in Counted(es, t)})

CurrentBankroll == IF seeded THEN Last(entries).bankroll ELSE initial

\* The list a call of record_settlement starts from: the first call puts the
\* initial balance in front.
Seed(es, t) == IF seeded THEN es ELSE <<Taken(initial, t)>>

\* A sample equal to the latest one is dropped, and then nothing is pruned.
Repeats(es, b) == Last(es).bankroll = b

-----------------------------------------------------------------------------

TrackerInit ==
    /\ anchor = 0
    /\ entries = <<>> /\ seeded = FALSE /\ initial \in Bankrolls
    /\ cooldown = 0 /\ lastTick = -1
    /\ history = <<>> /\ pauseFile = 0
    /\ given = <<>> /\ truth = <<>>
    /\ granted = 0 /\ ticked = {} /\ lapses = 0 /\ restarts = 0

\* What a list of samples is after record_settlement(b), before it is pruned.
Recorded(es, b) ==
    IF Repeats(Seed(entries, anchor), b) THEN Seed(es, anchor)
    ELSE Append(Seed(es, anchor), Taken(b, anchor))

\* record_settlement: the file gets the newest sample if the list has grown.
RecordSettlement(b) ==
    LET all == Recorded(entries, b)
        kept == IF Repeats(Seed(entries, anchor), b) THEN all ELSE Prune(all)
    IN  /\ Len(truth) < MaxSamples
        /\ entries' = kept
        /\ seeded' = TRUE
        /\ history' = IF Len(kept) > Len(entries)
                      THEN Append(history, Last(kept)) ELSE history
        /\ given' = Recorded(given, b)
        /\ truth' = Recorded(truth, b)
        /\ UNCHANGED <<anchor, initial, cooldownVars, restartVars>>

\* reset_peak_baseline: the current bankroll is the only sample left, and the
\* barrier the file is read back from.
ResetPeakBaseline ==
    LET reset == <<Reseeded(CurrentBankroll, anchor)>>
    IN  /\ Len(history) < MaxSamples
        /\ entries' = reset
        /\ seeded' = TRUE
        /\ history' = history \o reset
        /\ given' = reset
        /\ truth' = reset
        /\ UNCHANGED <<anchor, initial, cooldownVars, restartVars>>

\* _cooldown and pause_state.json change together.
Count(n) == cooldown' = n /\ pauseFile' = n

SetPaused(n) ==
    /\ Count(n)
    /\ granted' = n /\ ticked' = {} /\ lapses' = 0
    /\ UNCHANGED <<anchor, sampleVars, lastTick, restarts>>

\* Mutant: every call ticks.
NeverTicked == FALSE

TickedAlready == lastTick = anchor

\* tick_cooldown: one round of the countdown, once per round anchor.
TickCooldown ==
    /\ cooldown > 0
    /\ IF TickedAlready
       THEN UNCHANGED cooldownVars
       ELSE /\ lastTick' = anchor
            /\ Count(cooldown - 1)
            /\ ticked' = ticked \cup {anchor}
            /\ UNCHANGED granted
    /\ UNCHANGED <<anchor, sampleVars, restartVars>>

\* Mutant: the file is read without its barriers.
WholeFile(file) == file

\* The samples of the file after its last barrier.
AfterBarrier(file) ==
    LET barrier == SelectLastInSeq(file, LAMBDA s : s.reseed)
    IN  SubSeq(file, IF barrier = 0 THEN 1 ELSE barrier, Len(file))

\* The process ends and starts again with balance b: __init__ reads both files.
RestartTracker(b) ==
    LET loaded == AfterBarrier(history)
    IN  /\ restarts < MaxRestarts
        /\ entries' = IF loaded = <<>> THEN <<>> ELSE Prune(loaded)
        /\ seeded' = (loaded # <<>>)
        /\ initial' = b
        /\ cooldown' = pauseFile
        /\ lastTick' = -1
        /\ given' = loaded
        /\ lapses' = lapses + 1
        /\ restarts' = restarts + 1
        /\ UNCHANGED <<anchor, history, pauseFile, truth, granted, ticked>>

\* The handshake of an iteration returns the same round again or a later one.
Advance ==
    /\ \E a \in anchor + 1 .. MaxAnchor : anchor' = a
    /\ UNCHANGED <<sampleVars, cooldownVars, restartVars>>

TrackerNext ==
    \/ \E b \in Bankrolls : RecordSettlement(b)
    \/ ResetPeakBaseline
    \/ \E n \in Cooldowns : SetPaused(n)
    \/ TickCooldown
    \/ \E b \in Bankrolls : RestartTracker(b)
    \/ Advance

TrackerSpec == TrackerInit /\ [][TrackerNext]_trackerVars

-----------------------------------------------------------------------------

TrackerTypeOK ==
    /\ anchor \in Nat
    /\ entries \in Seq(Sample) /\ history \in Seq(Sample)
    /\ given \in Seq(Sample) /\ truth \in Seq(Sample)
    /\ seeded = (entries # <<>>) /\ initial \in Nat
    /\ cooldown \in Nat /\ pauseFile = cooldown
    /\ lastTick \in Int /\ lastTick <= anchor
    /\ granted \in Nat /\ ticked \subseteq 0 .. anchor
    /\ lapses \in Nat /\ restarts \in Nat

\* The list is pruned on every sample and on every load, and still gives the
\* peak that all the samples would give: the maximum over the window that ends
\* now and the one sample before it.
PeakIsWindowMax ==
    PeakBankroll(entries, anchor) = PeakBankroll(given, anchor)

\* Whatever was recorded before a reseed is never counted again, not even by a
\* process that reads the file back.
BaselineIsKept == ToSet(entries) \subseteq ToSet(truth)

\* A suspension of n rounds lasts n distinct rounds however often the loop
\* repeats one of them; every restart can give away one round, no more.
CooldownCountsRounds == cooldown + Cardinality(ticked) + lapses >= granted
=============================================================================
