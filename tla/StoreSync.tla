------------------------------- MODULE StoreSync -------------------------------
(* The daily market-data job: `run.py --sync` under daily_sync.ps1, the          *)
(* watchdog with its gap capture, and the operator's backfill and merge. They    *)
(* are separate processes that share files; each may die between two writes.     *)
(*                                                                              *)
(* One kline store stands for the four (they are written by independent threads *)
(* and never touch each other). A day closes one round: epoch e closes on day e.*)
EXTENDS JsonlStore

CONSTANTS
    FirstDay, LastDay,
    CacheN,         \* backtest_round_count: the rounds the sync looks at
    BatchSize,      \* _BATCH_SIZE
    Horizon,        \* OKX_KLINE_HORIZON_DAYS
    CapturePerRun,  \* MAX_CAPTURE_PER_RUN
    MaxOff,         \* consecutive days on which a job may not run
    MaxFaults,      \* kills and failed requests, together
    MaxOps,         \* runs the operator starts: backfills and merges
    MayCutNewline,  \* a kill may leave a complete record without its newline
    MayOverlap,     \* the operator may merge while a sync is running
    MayLoseUnsynced \* a power loss may take what was written but not synced

ASSUME StoreAssumption ==
    /\ {FirstDay, LastDay, CacheN, BatchSize, Horizon, CapturePerRun} \subseteq Nat \ {0}
    /\ {MaxOff, MaxFaults, MaxOps} \subseteq Nat
    /\ {MayCutNewline, MayOverlap, MayLoseUnsynced} \subseteq BOOLEAN
    /\ FirstDay <= LastDay
    /\ CacheN <= Horizon        \* 35000 rounds are 124 days, OKX keeps 171.6

VARIABLES
    day,
    rounds,         \* file closed_rounds.jsonl
    klines,         \* file <symbol>_spot_prices.jsonl
    staging,        \* file <symbol>_spot_prices.jsonl.prepend_staging
    held,           \* file staged_captures/<symbol>_spot_prices.staged.jsonl
    gone,           \* the epochs of permanently_absent.json
    base,           \* file store_baseline.json: the facts of rounds and of klines
    safe,           \* the lines of rounds, klines and held a power loss cannot take
    sync,           \* the sync process
    dog,            \* the watchdog process
    merge,          \* the merge_staged.py process
    owed,           \* sync_health.json: an attempt without an outcome
    success,        \* sync_health.json: the day of the last success
    marker,         \* the tags of the marker on the Desktop, {} for none
    seen,           \* history: the holes the last finished watchdog run looked at
    ran,            \* the jobs that ran today
    off, faults, ops

files  == <<rounds, klines, staging, held, gone, base, safe>>
health == <<owed, success, marker, seen>>
limits == <<faults, ops>>
vars   == <<day, files, sync, dog, merge, health, ran, off, limits>>

Epochs  == 1 .. LastDay
Idle    == [pc |-> "idle", allow |-> FALSE, into |-> "klines", tail |-> {}, todo |-> {},
            batch |-> {}, older |-> {}, excuse |-> "none"]
NoDog   == [pc |-> "idle", fails |-> {}, batch |-> {}, holes |-> {}]
NoMerge == [pc |-> "idle", result |-> {}]

Least(S)     == CHOOSE x \in S : \A y \in S : x <= y
Greatest(S)  == CHOOSE x \in S : \A y \in S : x >= y
Oldest(S, n) == {e \in S : Cardinality({x \in S : x < e}) < n}
Newest(S, n) == {e \in S : Cardinality({x \in S : x > e}) < n}
Served(e)    == day - e <= Horizon

\* A file has n lines on the disk: all of them after an fsync, none after an os.replace
\* of a file that was never synced.
Synced(file, n) == safe' = IF MayLoseUnsynced THEN [safe EXCEPT ![file] = n] ELSE safe

\* An append ends with an fsync; until then nothing more is safe.
SyncedAfter(last, file, f) == IF last THEN Synced(file, Len(f.lines)) ELSE UNCHANGED safe

\* Fault: OKX exhausts the retries of a request.
Fault(yes) == /\ faults' = IF yes THEN faults + 1 ELSE faults
              /\ faults' <= MaxFaults

-------------------------------------------------------------------------------
(* run.py --sync                                                                *)

Fail(excuse) == [sync EXCEPT !.pc = "over", !.excuse = excuse]

\* Mutant: start_epoch is the latest on disk, fetched once more.
DueAgain(f) == {e \in 1 .. day : e >= Latest(f)}

\* Mutant: the window ends at the round that is still open.
DueEarly(f) == {e \in 1 .. day + 1 : e > Latest(f)}

\* _fetch_and_append_range: all rounds newer than the latest on disk.
Due(f) == {e \in 1 .. day : e > Latest(f)}

\* A run holds the sync lock. Every store is repaired before it is read; one that is
\* damaged inside, or has no rounds at all, ends the run.
SyncStart(allow) ==
    /\ sync.pc = "idle"
    /\ merge.pc = "idle" \/ MayOverlap
    /\ IF allow
       THEN ops < MaxOps /\ ops' = ops + 1 /\ UNCHANGED <<ran, owed>>
       ELSE "sync" \notin ran /\ ran' = ran \union {"sync"} /\ owed' = TRUE /\ UNCHANGED ops
    /\ rounds' = IF Repairable(rounds) THEN RepairTornTail(rounds) ELSE rounds
    /\ klines' = IF Repairable(rounds) /\ Repairable(klines)
                 THEN RepairTornTail(klines) ELSE klines
    /\ LET ended == IF ~(Repairable(rounds) /\ Repairable(klines)) THEN "damaged"
                    ELSE IF rounds'.lines = <<>> THEN "empty" ELSE "none"
       IN sync' = IF ended = "none"
                  THEN [Idle EXCEPT !.allow = allow, !.pc = "rounds", !.todo = Due(rounds')]
                  ELSE [Idle EXCEPT !.allow = allow, !.pc = "over", !.excuse = ended]
    /\ safe' = IF MayLoseUnsynced
               THEN [safe EXCEPT !.rounds = IF rounds' = rounds THEN @ ELSE Len(rounds'.lines),
                                 !.klines = IF klines' = klines THEN @ ELSE Len(klines'.lines)]
               ELSE safe
    /\ UNCHANGED <<day, staging, held, gone, base, dog, merge, success, marker, seen, off,
                   faults>>

\* The scheduled run finds the operator's run at work: exit code 3, no outcome.
LockHeld ==
    /\ sync.pc # "idle" /\ sync.allow
    /\ "sync" \notin ran /\ dog.pc = "idle"
    /\ ran' = ran \union {"sync"}
    /\ owed' = TRUE
    /\ dog' = [NoDog EXCEPT !.pc = "look"]
    /\ UNCHANGED <<day, files, sync, merge, success, marker, seen, off, limits>>

RoundsWrite ==
    /\ sync.pc = "rounds" /\ sync.todo # {}
    /\ rounds' = WriteRecord(rounds, Least(sync.todo))
    /\ sync' = [sync EXCEPT !.todo = @ \ {Least(@)}]
    /\ SyncedAfter(sync.todo = {Least(sync.todo)}, "rounds", rounds')
    /\ UNCHANGED <<day, klines, staging, held, gone, base, dog, merge, health, ran, off, limits>>

\* The older-backfill path of sync_closed_rounds: the whole file is replaced.
Backfill(f) ==
    LET have  == Records(f)
        older == Newest(1 .. Earliest(f) - 1, CacheN - Cardinality(have))
    IN FromEpochs(older \union have)

\* The rounds that are still missing when all the newer ones are there.
Needed == CacheN - Cardinality(Records(rounds))

\* The backfill raises when it would have to begin before the first round of all.
RoundsDone ==
    /\ sync.pc = "rounds" /\ sync.todo = {}
    /\ IF Needed > 0 /\ sync.allow /\ Needed < Earliest(rounds)
       THEN rounds' = Backfill(rounds) /\ Synced("rounds", 0)
       ELSE UNCHANGED <<rounds, safe>>
    /\ sync' = IF Needed > 0 /\ sync.allow /\ Needed >= Earliest(rounds)
               THEN Fail("short")
               ELSE [sync EXCEPT !.pc = "plan", !.tail = Newest(Records(rounds'), CacheN)]
    /\ UNCHANGED <<day, klines, staging, held, gone, base, dog, merge, health, ran, off, limits>>

\* _sync_1s_klines: what is after the store is appended, what is before it is
\* prepended, what is inside it is reported and left alone.
After(f, S)  == {e \in S : f.lines = <<>> \/ e > Latest(f)}
Before(f, S) == {e \in S : f.lines # <<>> /\ e < Earliest(f)}

KlinesPlan ==
    /\ sync.pc = "plan"
    /\ LET remaining == sync.tail \ Records(klines)
           append    == After(klines, remaining)
           older     == Before(klines, remaining)
       IN sync' = [sync EXCEPT
            !.pc = IF remaining = {} THEN "check" ELSE "fetch",
            !.into = "klines", !.todo = append, !.older = older,
            !.excuse = IF older # {} /\ ~sync.allow THEN "older"
                       ELSE IF remaining \ (append \union older) # {} THEN "interior"
                       ELSE @]
    /\ UNCHANGED <<day, files, dog, merge, health, ran, off, limits>>

\* _fetch_batch: all of the batch or an exception.
FetchBatch ==
    /\ sync.pc = "fetch" /\ sync.todo # {}
    /\ \E fault \in BOOLEAN :
        LET batch == Oldest(sync.todo, BatchSize)
        IN /\ Fault(fault)
           /\ sync' = IF fault \/ \E e \in batch : ~Served(e)
                      THEN Fail(IF fault THEN "fault" ELSE "aged")
                      ELSE [sync EXCEPT !.pc = "write", !.batch = batch, !.todo = @ \ batch]
    /\ UNCHANGED <<day, files, dog, merge, health, ran, off, ops>>

Target == IF sync.into = "klines" THEN klines ELSE staging
Into(f) == /\ klines' = IF sync.into = "klines" THEN f ELSE klines
           /\ staging' = IF sync.into = "staging" THEN f ELSE staging

\* Mutant: the results are written in the order the threads finished.
WriteBatchUnsorted ==
    /\ sync.pc = "write"
    /\ \E e \in sync.batch :
        /\ Into(WriteRecord(Target, e))
        /\ sync' = [sync EXCEPT !.batch = @ \ {e},
                                !.pc = IF sync.batch = {e} THEN "fetch" ELSE @]
        /\ SyncedAfter(sync.into = "klines" /\ sync.batch = {e}, "klines", klines')
    /\ UNCHANGED <<day, rounds, held, gone, base, dog, merge, health, ran, off, limits>>

WriteBatch ==
    /\ sync.pc = "write"
    /\ Into(WriteRecord(Target, Least(sync.batch)))
    /\ sync' = [sync EXCEPT !.batch = @ \ {Least(@)},
                            !.pc = IF sync.batch = {Least(sync.batch)} THEN "fetch" ELSE @]
    /\ SyncedAfter(sync.into = "klines" /\ sync.batch = {Least(sync.batch)}, "klines", klines')
    /\ UNCHANGED <<day, rounds, held, gone, base, dog, merge, health, ran, off, limits>>

\* After the append pass. The staging file is parsed without any repair.
NextPass ==
    /\ sync.pc = "fetch" /\ sync.todo = {}
    /\ sync' =
         IF sync.into = "staging" THEN [sync EXCEPT !.pc = "prepend"]
         ELSE IF sync.older = {} \/ ~sync.allow THEN [sync EXCEPT !.pc = "check"]
         ELSE IF ~Readable(staging) THEN Fail("staging")
         ELSE [sync EXCEPT !.into = "staging", !.todo = sync.older \ Records(staging)]
    /\ UNCHANGED <<day, files, dog, merge, health, ran, off, limits>>

\* _prepend_staging_to_store: the whole store is replaced, then the file removed.
Prepend ==
    /\ sync.pc = "prepend"
    /\ klines' = FromEpochs(Records(staging) \union Records(klines))
    /\ Synced("klines", 0)
    /\ sync' = [sync EXCEPT !.pc = "unlink"]
    /\ UNCHANGED <<day, rounds, staging, held, gone, base, dog, merge, health, ran, off, limits>>

Unlink ==
    /\ sync.pc = "unlink"
    /\ staging' = NoFile
    /\ sync' = [sync EXCEPT !.pc = "check"]
    /\ UNCHANGED <<day, rounds, klines, held, gone, base, safe, dog, merge, health, ran, off,
                   limits>>

\* Phase 3: every target epoch must be in the store.
Aligned == Readable(klines) /\ sync.tail \subseteq Records(klines)

Check ==
    /\ sync.pc = "check"
    /\ sync' = [sync EXCEPT !.pc = IF Aligned THEN "done" ELSE "over"]
    /\ UNCHANGED <<day, files, dog, merge, health, ran, off, limits>>

\* The wrapper records the outcome of its own run and starts the watchdog.
SyncEnd ==
    /\ sync.pc \in {"done", "over"}
    /\ dog.pc = "idle"
    /\ sync' = Idle
    /\ IF sync.allow THEN UNCHANGED <<owed, success, dog>>
       ELSE /\ owed' = FALSE
            /\ success' = IF sync.pc = "done" THEN day ELSE success
            /\ dog' = [NoDog EXCEPT !.pc = "look"]
    /\ UNCHANGED <<day, files, merge, marker, seen, ran, off, limits>>

-------------------------------------------------------------------------------
(* sync_watchdog.py: look at the stores, capture what is missing, set the marker.*)

Unmerged == Scanned(held) \ Scanned(klines)
Missing  == Holes(Scanned(klines)) \ gone

Facts(f) == [n |-> Cardinality(Scan(f)), latest |-> Greatest(Scanned(f) \union {0})]

\* assess: a success is 2.5, 26.5, 50.5 ... hours old when the watchdog looks;
\* 36 hours are stale. An attempt of two hours ago without an outcome is an orphan.
Stale == success < day - 1 \/ (owed /\ sync.pc = "idle")

Captured == IF Unmerged # {} THEN {"CAPTURED"} ELSE {}

\* Mutant: captured records count as part of the store.
EvaluateWithStaged ==
    IF Missing \ Scanned(held) # {} THEN {"GAP"} ELSE {}

\* evaluate; the first look has no baseline to compare with.
Evaluate ==
    IF Scan(rounds) = {} \/ Scan(klines) = {} THEN {"EMPTY"}
    ELSE (IF Missing \union Holes(Scanned(rounds)) # {} THEN {"GAP"} ELSE {})
         \union (IF Disordered(klines) \/ Disordered(rounds) THEN {"DISORDER"} ELSE {})
         \union (IF base = {} THEN {"NOBASELINE"} ELSE {})
         \union (IF \E b \in base : b[1].n > Facts(rounds).n \/ b[2].n > Facts(klines).n
                 THEN {"SHRANK"} ELSE {})
         \union (IF \E b \in base : \/ b[1].latest > Facts(rounds).latest
                                    \/ b[2].latest > Facts(klines).latest
                 THEN {"REWOUND"} ELSE {})
         \union Captured

DogStart ==
    /\ dog.pc = "idle" /\ "dog" \notin ran
    /\ ran' = ran \union {"dog"}
    /\ dog' = [NoDog EXCEPT !.pc = "look"]
    /\ UNCHANGED <<day, files, sync, merge, health, off, limits>>

DogLook ==
    /\ dog.pc = "look"
    /\ dog' = [dog EXCEPT !.pc = IF "GAP" \in Evaluate THEN "capture" ELSE "mark",
                          !.fails = Evaluate \union (IF Stale THEN {"STALE"} ELSE {}),
                          !.holes = Holes(Scanned(klines)) \ gone]
    /\ base' = {<<Facts(rounds), Facts(klines)>>}
    /\ UNCHANGED <<day, rounds, klines, staging, held, gone, safe, sync, merge, health, ran,
                   off, limits>>

\* Mutant: driven by the sync's window, not by the whole store.
PlannedInWindow ==
    Oldest({e \in Missing \intersect Newest(Records(rounds), CacheN) :
                e \notin Scanned(held) /\ Served(e)}, CapturePerRun)

\* plan_capture: the oldest missing epochs first, up to the cap.
Planned ==
    Oldest({e \in Missing : e \notin Scanned(held) /\ e \in Records(rounds) /\ Served(e)},
           CapturePerRun)

DogCapture ==
    /\ dog.pc = "capture"
    /\ gone' = gone \union {e \in Missing \ Scanned(held) : e \in Records(rounds) /\ ~Served(e)}
    /\ \E lost \in SUBSET Planned :
        /\ faults' = faults + Cardinality(lost) /\ faults' <= MaxFaults
        /\ dog' = [dog EXCEPT !.pc = "stage", !.batch = Planned \ lost,
                              !.fails = @ \union (IF lost # {} THEN {"CAPTUREFAILED"} ELSE {})]
    /\ UNCHANGED <<day, rounds, klines, staging, held, base, safe, sync, merge, health, ran,
                   off, ops>>

\* append_staged, record by record; nothing repairs this file.
DogStage ==
    /\ dog.pc = "stage" /\ dog.batch # {}
    /\ held' = WriteRecord(held, Least(dog.batch))
    /\ dog' = [dog EXCEPT !.batch = @ \ {Least(@)}]
    /\ SyncedAfter(dog.batch = {Least(dog.batch)}, "held", held')
    /\ UNCHANGED <<day, rounds, klines, staging, gone, base, sync, merge, health, ran, off, limits>>

\* What was just captured is read again before the marker is written.
DogMark ==
    /\ dog.pc = "mark" \/ (dog.pc = "stage" /\ dog.batch = {})
    /\ marker' = IF dog.pc = "mark" THEN dog.fails
                 ELSE (dog.fails \ {"CAPTURED"}) \union Captured
    /\ seen' = dog.holes
    /\ dog' = NoDog
    /\ UNCHANGED <<day, files, sync, merge, owed, success, ran, off, limits>>

-------------------------------------------------------------------------------
(* merge_staged.py, run by the operator; it takes no lock.                      *)

MergeRead ==
    /\ merge.pc = "idle" /\ ops < MaxOps
    /\ sync.pc = "idle" \/ MayOverlap
    /\ Readable(held) /\ Readable(klines) /\ ~Disordered(klines)
    /\ ~(Records(held) \subseteq Records(klines))
    /\ merge' = [pc |-> "ready", result |-> Records(klines) \union Records(held)]
    /\ ops' = ops + 1
    /\ UNCHANGED <<day, files, sync, dog, health, ran, off, faults>>

\* KlineStore.rewrite: the file is replaced by what was read and merged.
MergeWrite ==
    /\ merge.pc = "ready"
    /\ klines' = FromEpochs(merge.result)
    /\ Synced("klines", 0)
    /\ merge' = NoMerge
    /\ UNCHANGED <<day, rounds, staging, held, gone, base, sync, dog, health, ran, off, limits>>

-------------------------------------------------------------------------------
(* Days and deaths.                                                             *)

NewDay ==
    /\ day < LastDay
    /\ sync.pc = "idle" /\ dog.pc = "idle" /\ merge.pc = "idle"
    /\ off' = IF ran = {"sync", "dog"} THEN 0 ELSE off + 1
    /\ off' <= MaxOff
    /\ day' = day + 1
    /\ ran' = {}
    /\ UNCHANGED <<files, sync, dog, merge, health, limits>>

\* What the dying sync leaves of the record it was writing.
CutSync ==
    /\ rounds' \in IF sync.pc = "rounds" /\ sync.todo # {}
                   THEN CutRecord(rounds, Least(sync.todo), MayCutNewline) ELSE {rounds}
    /\ IF sync.pc = "write"
       THEN \E f \in CutRecord(Target, Least(sync.batch), MayCutNewline) : Into(f)
       ELSE UNCHANGED <<klines, staging>>

CutDog ==
    held' \in IF dog.pc = "stage" /\ dog.batch # {}
              THEN CutRecord(held, Least(dog.batch), MayCutNewline) ELSE {held}

\* The sync alone dies; its wrapper goes on.
KillSync ==
    /\ faults < MaxFaults /\ faults' = faults + 1
    /\ sync.pc \notin {"idle", "done", "over"}
    /\ CutSync
    /\ sync' = Fail("killed")
    /\ UNCHANGED <<day, held, gone, base, safe, dog, merge, health, ran, off, ops>>

\* The lines that are complete.
OnDisk(f) == IF f.open THEN Len(f.lines) - 1 ELSE Len(f.lines)

\* What a power loss may leave of a file of which n lines are safe.
Left(f, n) ==
    {f} \union {[lines |-> SubSeq(f.lines, 1, k), open |-> FALSE] : k \in n .. OnDisk(f)}

\* The machine goes down with everything on it. What the disk still has is safe.
PowerLoss ==
    /\ faults < MaxFaults /\ faults' = faults + 1
    /\ sync.pc # "idle" \/ dog.pc # "idle" \/ merge.pc # "idle" \/ MayLoseUnsynced
    /\ \/ CutSync /\ CutDog
       \/ /\ MayLoseUnsynced
          /\ rounds' \in Left(rounds, safe.rounds) /\ klines' \in Left(klines, safe.klines)
          /\ held' \in Left(held, safe.held) /\ staging' \in Left(staging, 0)
    /\ safe' = IF MayLoseUnsynced
               THEN [rounds |-> OnDisk(rounds'), klines |-> OnDisk(klines'), held |-> OnDisk(held')]
               ELSE safe
    /\ sync' = Idle /\ dog' = NoDog /\ merge' = NoMerge
    /\ UNCHANGED <<day, gone, base, health, ran, off, ops>>

-------------------------------------------------------------------------------
\* The stores as a machine may have them: whole, started late, or with a hole.
Init ==
    /\ day = FirstDay
    /\ \E first \in 1 .. FirstDay : rounds = FromEpochs(first .. FirstDay)
    /\ \E first \in Records(rounds), lack \in SUBSET Records(rounds) :
        /\ Cardinality(lack) <= 1
        /\ (first .. FirstDay) \ lack # {}
        /\ klines = FromEpochs((first .. FirstDay) \ lack)
    /\ staging = NoFile /\ held = NoFile
    /\ safe = [rounds |-> Len(rounds.lines), klines |-> Len(klines.lines), held |-> 0]
    /\ gone = {} /\ base = {}
    /\ sync = Idle /\ dog = NoDog /\ merge = NoMerge
    /\ owed = FALSE /\ success = FirstDay - 1
    /\ marker = {} /\ seen = {} /\ ran = {}
    /\ off = 0 /\ faults = 0 /\ ops = 0

Next ==
    \/ \E allow \in BOOLEAN : SyncStart(allow)
    \/ LockHeld
    \/ RoundsWrite \/ RoundsDone \/ KlinesPlan \/ FetchBatch \/ WriteBatch
    \/ NextPass \/ Prepend \/ Unlink \/ Check \/ SyncEnd
    \/ DogStart \/ DogLook \/ DogCapture \/ DogStage \/ DogMark
    \/ MergeRead \/ MergeWrite
    \/ NewDay \/ KillSync \/ PowerLoss

Spec == Init /\ [][Next]_vars

-------------------------------------------------------------------------------
(* Properties                                                                   *)

\* The variables stay in their ranges: no file names a round that is not closed.
TypeOK ==
    /\ day \in FirstDay .. LastDay
    /\ gone \subseteq Epochs /\ seen \subseteq Epochs
    /\ sync.tail \union sync.todo \union sync.batch \union sync.older \subseteq Epochs
    /\ dog.batch \union dog.holes \union merge.result \subseteq Epochs
    /\ \A f \in {rounds, klines, staging, held} :
        /\ Scanned(f) \subseteq Epochs
        /\ f.open => f.lines # <<>>
    /\ owed \in BOOLEAN /\ success \in 0 .. day
    /\ off \in 0 .. MaxOff /\ faults \in 0 .. MaxFaults
    /\ ops \in 0 .. MaxOps

\* A record that could be read stays readable: no kill, restart, repair, backfill, merge or
\* continued append ever loses one from a store (round_store.py:194, sync.py:514). A power
\* loss takes none that an fsync had made safe (round_store.py:150) and, unless
\* MayLoseUnsynced, none at all.
NothingReadableIsLost ==
    [][LET Sure(f, n) == IF MayLoseUnsynced /\ PowerLoss
                         THEN Records([f EXCEPT !.lines = SubSeq(@, 1, n)]) ELSE Records(f)
       IN /\ Sure(rounds, safe.rounds) \subseteq Records(rounds')
          /\ Sure(klines, safe.klines) \subseteq Records(klines')
          /\ Sure(held, safe.held) \subseteq Records(held')]_vars

\* Every store is strictly ascending, whatever was killed and resumed: no round is on
\* disk twice (ClosedRoundsStore and KlineStore, "epochs are strictly increasing").
StoresAscend == ~Disordered(rounds) /\ ~Disordered(klines)

\* The sync makes no hole in a store except where whole rounds fell out of the window it
\* looks at (sync.py:414, "refusing to advance the cursor"), and a merge none before the
\* last record that is complete.
OnlyTheWindowLeavesHoles ==
    [][\A e \in Holes(Records(klines')) \ Holes(Records(klines)) :
        \/ sync.pc = "write" /\ e \notin sync.tail
        \/ merge.pc = "ready" /\ \A x \in Records(klines) : x < e]_vars

\* A sync that fails says why: it was killed, a request failed, or it met one of five states
\* that no run under these rules can mend: a rounds file that a power loss emptied, fewer
\* rounds in all than it asks for, rounds before the store that it may not prepend, a hole in
\* the store, a staging file that does not parse. Missed days, killed runs and torn tails are
\* none of them (daily_sync.ps1:53), and nothing in the window is too old to be fetched.
SyncFailsForCause ==
    sync.pc = "over" =>
        \/ sync.excuse \in {"killed", "fault"}
        \/ sync.excuse = "empty" /\ MayLoseUnsynced /\ rounds.lines = <<>>
        \/ sync.excuse = "short" /\ sync.allow /\ Needed >= Earliest(rounds)
        \/ sync.excuse = "older" /\ ~sync.allow
              /\ \E e \in sync.tail : \A x \in Records(klines) : e < x
        \/ sync.excuse = "interior" /\ sync.tail \intersect Holes(Records(klines)) # {}
        \/ sync.excuse = "staging" /\ sync.allow /\ ~Readable(staging)

\* A gap is captured while OKX still has it: the cap and the daily schedule are fast
\* enough for every hole a machine that was off for MaxOff days can leave.
NothingAgesOut == gone = {}

\* As long as a hole the watchdog has seen is neither filled nor given up, there is
\* a marker; capturing the records does not clear it (store_guard.py:247).
HoleKeepsMarker == seen \intersect (Holes(Records(klines)) \ gone) # {} => marker # {}

\* Doc claim (store_guard.py:251): a captured record is safe in the staged file.
CapturedIsSafe == dog.pc = "idle" => Scanned(held) = Records(held)

\* Doc claim (store_guard.py:21): no legitimate operation makes a store smaller, so
\* a SHRANK verdict means that a complete record was lost. With NothingReadableIsLost:
ShrinkMeansLoss == "SHRANK" \notin dog.fails

\* Doc claim (round_store.py:162): a chunk is prepended "by atomic replacement". A sync
\* that plans has synced what it appended, so what a power loss takes was replaced.
ReplacementIsAtomic ==
    [][PowerLoss /\ sync.pc = "plan" => Records(rounds) \subseteq Records(rounds')]_vars

\* Doc claim (sync.py:228): the staging file is resumed after an interruption.
StagingResumes == sync.pc = "over" => sync.excuse # "staging"

\* Doc claim (store_rewrite_gate.py:30): a refused backfill lets the sync exit 0.
RefusalExitsCleanly == sync.pc = "over" => sync.excuse # "older"

\* Doc claim (sync.py:331): after an interior gap "Forward sync continues" and the run
\* does not fail.
GapExitsCleanly == sync.pc = "over" => sync.excuse # "interior"
===============================================================================
