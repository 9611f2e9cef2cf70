# A TLA+ model of PancakeBot

PancakeBot bets on the rounds of the PancakeSwap Prediction V2 contract on BSC.
A round is open for `intervalSeconds`, is then locked, and is closed one
interval later by the contract's operator, who has `bufferSeconds` to do it; a
round that is not closed in time is refundable instead.  The bot sends one bet
transaction a few hundred milliseconds before the lock, waits for its receipt,
and a round and a half later settles the bet in its own ledger and claims what
it has won.  It runs unattended under systemd: it crashes on purpose when a call
it cannot do without fails, and everything it must not forget is in small files.

This directory holds what is modelled of it, what TLC checks and what TLAPS
proves.

## The system

| Part | State | Operations | Interacts with |
|---|---|---|---|
| Round loop (`runtime/engine.py`) | the snapshot of the epochs, the bet in hand, `claim_scan_initialized` | `run_realtime_loop`, `_run_one_iteration`, `_epoch_handshake`, `_sleep_and_claim` | everything below, on one thread |
| Bet ledger (`runtime/bet_ledger.py`) | an append-only JSONL file; the latest status of an epoch is the merge of its records | `record_submitted`, `record_confirmation`, `reconcile`, `record_settled`, `record_claimed`, `open_stake_bnb` | written by the loop and the claim path, read by the risk gate |
| Claim scan (`runtime/live.py`) | the claim cursor, an integer in a file | `claim_scan_cursor`, `_flush_pending`, `fire_claim_settled_alerts` | the chain, the ledger, the operator's alerts |
| Contract client (`chain/prediction_contract.py`) | nonce cache, gas cache, current endpoint | the reads, `_batch_eth_calls`, `_submit_tx_with_timing`, `claim` | the chain |
| Settlement (`settlement.py`) | none | `settle_from_round_data`, `settle_bet_against_closed_round` | reconcile, dry mode, shadow ledger, backtest |
| Bankroll tracker (`bankroll_tracker.py`) | entries of the peak window, cooldown; a history file and a pause file | `record_settlement`, `peak_bankroll`, `set_paused`, `tick_cooldown`, `reset_peak_baseline` | the pipeline |
| Risk gate (`strategy/momentum_pipeline.py`, `strategy/shadow_ledger.py`) | suspension and shadow ledger; a JSON file, an override flag | the checks of `decide_open_round`, `ShadowLedger.*` | tracker, ledger, gate |
| RPC poller (`chain/rpc_poller.py`) | block cursor, pools, lock time, readiness flags | `set_round_phase`, `_poll_now`, `is_pool_ready`, `get_pool` | an engine thread and a daemon thread |
| Dry mode (`runtime/dry.py`) | simulated bankroll, pending bets, settled epochs, in five files | `dry_record_bet`, `dry_settle_available_bets`, recovery at start | the loop in dry mode |
| Pool-gate alarm, regime monitors (`runtime/pool_gate_alarm.py`, `runtime/regime_telemetry.py`) | streak and episode of each alarm, a queue of alerts, rate windows | `PoolGateAlarm.record`, `_flush_pool_gate_alerts`, `RateWindow.observe` | the loop, the operator's alerts |
| OKX client (`market_data/okx_client.py`) | a process-wide token bucket | `okx_rate_acquire`, `kline_fetch_window` | threads of the gate and of the sync |
| Momentum gate (`strategy/momentum_gate.py`) | the class of the last round's fetches | `evaluate` | the OKX client, the pipeline, the alarms of the loop |
| Market data (`market_data/sync.py`, `round_sync.py`, `round_store.py`, `kline_store.py`, `epoch_scan.py`) | JSONL stores, a staging file | download, resume, append, repair, prepend | a daily job under a file lock |
| Operations jobs (`ops/store_guard.py`, `gap_capture.py`, `sync_health.py`, `scripts/sync_watchdog.py`, `capture_gaps.py`, `merge_staged.py`) | baseline, staged captures, health file, the marker on the desktop | the watchdog's look, capture and mark; the operator's merge | the stores, after the daily job |
| Weekly monitor (`research/weekly_monitor_state_machine.py`, `bootstrap/linux/run_weekly_monitor.sh`) | streaks in `state.json`, a retry marker, the override flag | the Sunday run and its makeup runs | systemd, the unit of the bot, its suspension |
| Notifications, audit, locks, configuration | reports, lock files | best-effort output | |

What makes it hard is the same everywhere: one thread, but a chain that moves
between any two of its calls; a transaction whose fate is unknown for as long as
it is in the mempool; files that are written one after the other by a process
that may die between two of them; batches of calls that fail one by one.

What would make each part correct:

- *ledger*: what it says of a bet is what the chain did to it; nothing is
  settled early or lost, and nothing announced twice that is on file;
- *claim scan*: no money is left behind the cursor, which is never moved back;
- *loop*: every bet that is due is settled and claimed by some later pass, and
  no failure can hold the thread in one;
- *tracker*: the peak is the maximum of the window, also after a restart;
- *risk gate*: a suspension is served in rounds, ends only on evidence, and a
  release reseeds the peak;
- *poller*: when it says it is ready, the pool the bet is sized on is complete;
- *dry mode*: every simulated bet is credited exactly once;
- *stores*: what was appended is read back, whatever kill came between, and a
  hole is marked and captured before the exchange forgets it;
- *round loop and its clock*: every round is entered once and in time, with the
  chain's next nonce, whatever the nodes, the alerts and the claim pass cost;
- *klines and their alarms*: a signal is computed from whole windows only, and no
  mixture of delays and failures is silent;
- *weekly monitor*: a streak counts weeks and not runs, and a bot nobody can
  evaluate is stopped.

## The modules

| Module | Models | Lines of code |
|---|---|---|
| `PredictionMarket` | the contract, the mempool and the read calls the bot relies on (the contract itself is external) | `prediction_contract.py`, `engine._epoch_handshake` |
| `LiveBets` | the round loop in live mode, the bet ledger, the claim scan | `engine.py`, `bet_ledger.py`, `live.py`, `settlement.py` |
| `BetBook` | the abstract promise: one fate per stake, one life cycle per entry | the status life cycle in `bet_ledger.py` |
| `MCLiveBets` | what comments of the repository say and the code does not keep | |
| `LedgerProofs` | theorems about `LiveBets`: the ledger, the refinement of `BetBook`, the claim scan and the passes | |
| `BankrollTracker` | the samples of the bankroll, the countdown of a suspension, their two files and a restart | `bankroll_tracker.py` |
| `RiskGate` | the checks in front of a bet, composing the tracker with the shadow ledger and the override flag | `momentum_pipeline.py`, `shadow_ledger.py`, `engine.py` |
| `MCRiskGate` | what comments say of the risk gate and a restart refutes | |
| `GateProofs` | theorems about `BankrollTracker` and about `RiskGate`, which composes it | |
| `RpcPoller` | both threads of the pool poller over one cursor, against nodes that are behind | `rpc_poller.py` |
| `PollerProofs` | theorems about `RpcPoller` | |
| `DryState` | the simulated bankroll and its four files | `dry.py`, `engine.py` |
| `DryProofs` | theorems about `DryState` | |
| `JsonlStore` | the JSON Lines files, line by line: append, torn tail, repair, readers | `round_store.py`, `kline_store.py`, `epoch_scan.py` |
| `StoreSync` | the daily job, the watchdog with its capture, backfill and merge, on those files | `sync.py`, `round_sync.py`, `ops/`, `scripts/` |
| `StoreProofs` | theorems about `JsonlStore` and `StoreSync` | |
| `PoolGateAlarm` | one alarm as operators on its record | `pool_gate_alarm.py` |
| `RoundLoop` | when the loop does what it does: handshakes, wakes, alerts, nonce, floor; composes the alarm | `engine.py`, `prediction_contract.py`, `live.py` |
| `LoopProofs` | theorems about `RoundLoop` | |
| `OkxFetch` | the three kline fetches of a round, as operators on the answers | `okx_client.py`, `momentum_gate.py` |
| `RateAlarms` | the rate windows and the alarms over klines and endpoint; composes `OkxFetch` and four alarms | `pool_gate_alarm.py`, `engine.py`, `momentum_pipeline.py` |
| `RateProofs` | theorems about `OkxFetch` and `RateAlarms` | |
| `WeeklyMonitor` | the weekly monitor, its wrapper, and the bot as far as it sees it | `weekly_monitor_state_machine.py`, `run_weekly_monitor.sh` |
| `MonitorProofs` | theorems about `WeeklyMonitor` | |

`LiveBets` composes `PredictionMarket`, `RiskGate` the tracker, `StoreSync` the
files, `RoundLoop` and `RateAlarms` the alarm, `RateAlarms` also the fetches.
`LiveBets`, `RoundLoop`, `RpcPoller` and `RateAlarms` are four views of one loop:
what a pass settles and claims, when the loop does it, how the pool becomes ready
in the last seconds before a lock, and what the loop makes of a failing exchange
or node over hours.

### PredictionMarket

A clock, the rounds (`cur`, `priced`, `lockTs`, `closeTs`, `outcome`), the bet
transaction of each round (`betTx`), the wallet's list of rounds
(`userRounds`), what has been paid (`paid`) and the claim transactions in the
mempool, in nonce order (`claimPool`).  `ExecuteRound` is the operator's
regular step; `GenesisStart` and `GenesisLock` are a pause and the fresh start
after it, which leave two rounds without an outcome.  `MineBet` decides the fate
of a bet: registered, late, reverted for another reason, or, if the step is
never taken, never mined.  `MineClaim` is all or nothing.  The operators are the
read calls: `Registered` is `read_bet_amount`, `Mined` is `try_get_receipt`,
`Claimable` and `Refundable` the calls of those names, `Coherent` the snapshot
`_epoch_handshake` accepts.

### LiveBets

`pc` is the place of the thread: each value stands between two calls that read
or change something outside the process, and the chain may move at each of them.

| `pc` | code |
|---|---|
| `handshake`, `decide` | top of `_run_one_iteration`; skip, bet, or claim first |
| `sent`, `submitted`, `classify` | `_submit_tx_with_timing`, `record_submitted`, `record_confirmation` |
| `asleep` | `_sleep_and_claim` up to its handshake |
| `reconcile`, `recheck`, `settle`, `alertLost` | the loop of `reconcile` over the examined epochs |
| `scan`, `claim`, `claimWait` | `claim_scan_cursor` and `_flush_pending` |
| `alertClaim`, `markClaim` | `fire_claim_settled_alerts` |
| `down` | the process is dead; systemd restarts it |

On disk are `status`, `sized`, `gas` (the merged records of the ledger; an entry
whose SUBMITTED record is missing or unreadable is not in `sized`, and `reconcile`
skips it), `torn` and `cursor`.  `torn` says that the ledger ends in a line that
was left in part, by a kill or a failed write.  `_append_record` does not look for
one: the next record lands on that line (`Glued`), counts as written, so that what
depends on it goes ahead, and is skipped by `load_ledger` with the rest of its line.
The rest is memory and is gone after `Crash`.  `alerts`, `excuse` and `tears` are
history variables: how often an alert went out, for which of its three reasons the
scan passed a round without claiming it, and how many lines were left in part.

A fault is a crash or a failed append, either of which may leave a part of the
record being written, a failed call of `reconcile`, a scan that
raises, one call of a batch failing alone, a claim whose receipt does not come
in time, a flush postponed by the send caches or the gas cap, and a pause of the
contract.  `FaultKinds` says which may happen, `MaxFaults` how many.  Receipt
timeouts of bets and reverts of any transaction are not faults: they may always
happen.

Abstractions: amounts are left out (a bet is won, lost or refunded); gas is
unset, null, zero or paid; the list of rounds is read in one page; a record is cut
inside its text, never exactly before its newline (it would parse, and the record
glued to it would take it along); a power loss that takes records of the ledger,
which is never synced, is left out; the waits
inside the last tick before a lock are one step; a restart takes longer than the
tick it happens in, so a round is never bet on twice.

### BetBook

Each bet has a `fate` on the chain and a `book` entry; `BookSteps` lists the
moves of an entry and the fates each of them needs.  `LiveBets` implements it
under the mapping `Fate`, `Entry` (`KeepsBook`): a settled, void or claimed
entry is final, a dropped one can be reopened or settled by the chain only, and no
entry moves before the chain has borne it out.

### BankrollTracker

`entries`, `seeded`, `initial`, `cooldown` and `lastTick` are the fields of the
tracker, `history` and `pauseFile` its two files, and one action stands for each
of its methods: `RecordSettlement`, `ResetPeakBaseline`, `SetPaused`,
`TickCooldown`, `RestartTracker` (`__init__`, which reads the files back).  Every
method makes its one write at its end, so it is one step.  `Advance` is the
engine's handshake, which returns the same round (`anchor`) again or a later one.
Time is counted in anchors, and the window in the same unit.

`given`, `truth`, `granted`, `ticked` and `lapses` are history variables: the
samples this process knows of, the samples any process recorded, the length of
the suspension, the rounds that have ticked, and the restarts since.  `given`
and `truth` are lists that are never pruned, so `PeakIsWindowMax` compares the
program's peak with its definition.

The tracker is the rolling mode.  Neither wiring passes a `peak_mode`
(`engine.py:934-938`, and the same call in `dry.py`), so the configuration value
`drawdown_peak_mode` cannot select the other one.  `open_stake` (a column nothing
reads back) and `triggered_at` (reported only) are left out.

### RiskGate

`pc` follows one iteration: `top` (handshake), `settle` (closed rounds go to the
shadow ledger), then the preflight balance goes to the tracker and Check 1 asks
whether betting is suspended: `paused` (override flag), `tick`, `evaluate` (the
shadow bets), `expired` (release or extend), `unpause`, `reseed`, `clear` (the
three writes of `_release_suspension`), `checks` (Checks 2 to 4), `shadowStart`
(the second write of the breaker), `admitted`.  `Restart` may fall between any
two of them.

Abstractions: a bet, real or of the shadow, stakes `Stake` and wins or loses it;
the signal and the filters are a choice of bet or no bet; `InFlight` is any part
of the stakes that are open, since the ledger reports less once a bet is settled
and 0 when it cannot be read.  The shadow ledger and the pause file are equal in
memory and on disk, because each of their methods ends with its write; deleting
the flag is assumed to succeed.  The configuration is the deployed one, with
`extend_while_bleeding` and `monitor_override_enabled` on.  Stub rounds settle
nothing and are left out, as is the extension counter.

`owed` is what has become of the suspension the breaker started, `evidence` the
rounds settled for the shadow since it fired; both are history variables.

### RpcPoller

A tick is a block slot (450 ms) and every block of a round carries one bet of it,
so "which bets" is "which blocks".  `eng` and `daemon` are the places of the two
threads, `poll` is the poll that holds `_poll_lock`.

| Action | Code |
|---|---|
| `SetRoundPhase`, `InitLock`, `InitCursor` | `set_round_phase` and the first position of the cursor |
| `AdvanceHeader`, `AdvanceCommit`, `AdvanceFeasibility` | the three phases of `_on_epoch_advance` |
| `SinglePoll`, `AnchorPoll`, `IsPoolReady`, `GetPool` | what the engine does before it bets |
| `DaemonPlan`, `DaemonTick` | the periodic loop |
| `PollStep`, `OrphanEnds` | `_poll_now` by ranges, under its wall cap, and the look-ups of timestamps a poll no longer waits for |

A step that waits for an answer may take ticks, up to its cap; a step that only
computes happens at one instant, unless `Stalls` allows a thread to be held up
there.  A node may be `MaxLag` blocks behind; a slot may stay without a block
(`MaxGaps`); any call may fail.  Left out: endpoint rotation (an endpoint that
errs is a failed call), the latency statistics and health log, decoding.

### DryState

`pending`, `trades`, `settledFile` and `state` are the four files, `bankroll`,
`bets` and `settled` the memory, and each write is an action: the bet and its
save, then credit, announce, record, mark and save for every settled bet.
`InitRuntimeState` reads the files back, `FreshStart` and `Archive` move them
away one after the other.  A crash may fall between any two.  `sec` gives records
their second, since a start compares times of one-second resolution; `tied` says
that a crash lost a record which had the second of the save before it.  The
dry bet-lifecycle ledger, which nothing reads back, is left out.

A write is done or not.  A line that a kill has cut, or a power loss has taken, is
left out: a start refuses a cut record of `pending_bets.jsonl` (`dry.py:195`), and
would read a cut epoch of `settled_epochs.txt` or a cut last number of a row of
`trades.csv` as another one.

### JsonlStore and StoreSync

A line of a file is the sequence of what was written on it, a complete record or
the first part of one, so that an append after a torn line lands on that line as
it does on disk.  `Records` is what the readers accept, `Scanned` what
`epoch_scan` takes for an epoch.  `StoreSync` runs the sync, the watchdog and
the operator's backfill and merge on these files, a day at a time.

A kill leaves what was written; a power loss need not.  `safe` counts the lines of
each file that an fsync has made safe.  An append ends with one
(`round_store.py:157`, `kline_store.py:104`), and until then its lines are not safe;
the repair of a tail is synced too.  The files that are replaced whole, the backfill
of the rounds, the prepend, the merge, are never synced before the `os.replace`
(`kline_store.py:122`, `round_sync.py:111`), nor is the staging file.
With `MayLoseUnsynced` a power loss, at work or between two jobs, leaves any prefix of
whole lines that has the safe ones, down to an empty file; without it, everything
that was flushed.

Abstractions: one kline store stands for four, which are written by independent
threads; one round closes a day; what a torn line shows of its record always
holds the epoch key; the order of records inside the staging file is not
observed; a watchdog that would overlap a running one comes after it; the stores
exist at the start.  What a power loss cuts off is cut between two lines, unless it
hits the record being written; that it forgets a rename or an unlink of the directory
is left out.  So are line endings and drift between the stores.

### PoolGateAlarm and RoundLoop

`PoolGateAlarm` is the class as operators on a record; `RoundLoop` keeps one and
its queue.  `until` is when the current sleep ends or the current call must have
ended: a sleep goes on exactly then, a call at any moment up to it.  A tick is
ten seconds, so the wakes between the OKX warm-up and the decision are one
instant.  `lock` is the contract's rounds, `mined` and `mempool` the wallet's
transactions by nonce.  A fault is a failed call, a node that is behind at the
handshake, a lost answer, an evicted transaction, a crash.  The gas cache and the
telemetry are left out; the other alarms of the engine appear as `OtherAlarms`
further alerts in the queue.

### OkxFetch and RateAlarms

`OkxFetch` has no state.  A response is a refusal or a sequence of rows, and a row
is the number of a candle of the window, one from before it, a row without
fields, or one that is no number.  `Fetched` is what becomes of it (rows, a late
tail, a failure, the end of the process), `TransientClass` what the gate makes of
the three.  `IsWindow` and `HasNoHole` say what was asked for, without the checks
of the code, so that `WindowsAreWhole` compares the two over all answers.

`RateAlarms` follows an iteration from the pool gate (`PoolGate`, which notes the
endpoint) to the decision, where either the gate is asked (`Evaluate`) or a risk
check returns before it (`RiskSkip`); both note the klines with the class the gate
last had.  The epoch is also the clock: a realert interval is a number of rounds.
`klines` and `wakes` are history, what every window should hold; `said` is the
last word queued for the operator on each subject.  `odd` counts the events that
make a behaviour unusual (a repeated round, a static wake, a failed header, a pool
that is not ready, a risk skip, a restart), `MaxOdd` bounds them; what OKX answers
is never bounded.  The prices, the signal, the retries of the sync, the pool window
(reported only) and the delivery of the alerts (`RoundLoop`) are left out.

### WeeklyMonitor

`run` is the place inside one run of the monitor: `evidence`, `marker`,
`decide`, `act`, `enable`, `save`.  The order is the code's: systemd is acted on
before the week is booked.  `st` is `state.json`, `marker` is
`retry_pending.json`, `flag` the override flag, `unit` what systemd says of the
bot, `paused` its suspension.  The numbers of a window are abstracted to what its
legs say (`Windows`), so every combination of verdicts is possible in every week.
A week has `WeekLen` days of which the last is its Sunday, and a day makes at
most one cron run.  `owed`, `dark`, `counted`, `verdicts`, `excuses` and
`decided` are history: the week a makeup run is for, the blind Sundays, and why a
unit may be on that should be off (systemd refused, was silent or misread, somebody
turned it on, a run was cut short before it marked its week or did not sync).
`read_bot_state` asks is-active and is-enabled apart, ignores what both return and
takes every text but the expected one for a no; only an is-active that does not
answer at all is noticed.  `Readings` are the units it may take the unit for, so a
unit that is on can read as off and be left on; `FaultKinds` calls this "misread".
A manual run may be one with `--no-sync`: it clears the marker on a Sunday, books
its week if the stores are fresh, and touches neither the streak of blind weeks nor
the marker otherwise.  Runs without `--apply`, the
evidence-gap streak (booked like `consecutive_weak`, it only words an alert), the
history and the alerts are left out.  `docs/alerting_retirement_2026_08_31.md`
retires the job; the code is still in the tree.

## The runs

The `live_` runs use `MCLiveBets` with five rounds, bets on rounds 2 and 3, an interval of 3
ticks, a buffer and a padding of 1 tick.  A tick stands for the buffer (30 s), the
interval (300 s) is cut down to three of them, which keeps the order of the
code's instants: lock, lock plus buffer, claim wake, next lock.

| Run | Checks | Shows |
|---|---|---|
| `live_faults` | `LedgerMatchesChain`, `NothingLostBehindCursor`, `SettlementAnnouncedOnce`, `InPlayStakeIsCounted`, `PassIsComplete`, `KeepsBook` | any one fault of any kind, anywhere |
| `live_passes` | `PassEnds` | two faults with one round per claim transaction, so that a scan sends several: every pass comes to an end |

Two bets are the smallest number for which a claim transaction carries rounds
of different fates, a scan stops between two pending rounds and a pass meets one
epoch that is due and one that is not; two concurrent positions are also what the
code measures as its real maximum (`momentum_pipeline.py`, Check 4).  The clock
stops at 11 or 12, past the claim wake of the last round bet on.  The runs allow
deadlock because that bound and `LastEpoch` end every behaviour.

| Run | Checks | Shows |
|---|---|---|
| `tracker` | `CooldownCountsRounds`, `PeakIsWindowMax`, `BaselineIsKept` | samples, suspensions, reseeds, repeated rounds and one restart |
| `gate_steady` | `SuspensionHolds`, `EpisodeLossIsBounded` | one process, two bets in flight, one override flag that may go stale |
| `gate_restarts` | `ReleaseHasEvidence`, `EvidenceIsExact` | a restart between any two writes |

A window of one anchor and up to four samples lets a sample fall out of the
window, stay as the one before it, and come back as the peak of a later call.
The drawdown threshold of the gate runs is a third. In `gate_steady` a stake is
a quarter of the balance: one lost bet does not trip the breaker, two do, and
with one in flight Check 4 decides. In `gate_restarts` it is a third, so that
the first lost bet suspends and there are rounds left to recover in. A
suspension lasts two rounds and one settled round is evidence enough, so that
suspending, extending and releasing all happen within five rounds.
`gate_restarts` allows one restart on purpose. With two, at two exact points
(after the reseed of a release, then after the `set_paused` of the next
breaker), the evidence of the old suspension would be taken for the new one.
Rounds and samples are bounded, so every behaviour ends and the runs allow
deadlock.

| Run | Checks | Shows |
|---|---|---|
| `poller` | `NothingIsMissingBehindTheCursor`, `ArmedPoolIsComplete`, `InfeasibleHasDetail`, `DecisionIsOnTime` | two rounds, one failed call anywhere, nodes one block behind |
| `dry` | `BankrollAddsUp`, `SettlementsAreAnnounced`, `PassIsComplete` | two bets, two crashes between any two writes, a fresh start and a changed initial bankroll |
| `store` | `StoresAscend`, `SyncFailsForCause`, `NothingAgesOut`, `HoleKeepsMarker`, `NothingReadableIsLost`, `OnlyTheWindowLeavesHoles` | four days of jobs on stores that are whole, started late or have a hole, one kill, power loss or failed request, one run of the operator; a power loss takes what was not synced |
| `loop` | `NoRoundIsMissed`, `SendsAreForTheOpenRound`, `BetHasTheNextNonce`, `OperatorIsTold` | three rounds of the loop with any two faults |
| `klines` | `WindowsAreWhole`, `WindowsCountRounds`, `LossIsNeverSilent`, `BurstsAreSeen`, `AlarmsFollowTheRate` | six rounds, any answers for three symbols, any two of six kinds of event |
| `monitor` | `WeakStreakIsExact`, `WeakWeeksStop`, `BlindWeeksStop`, `BlindSundayIsRetried` | four weeks of the monitor with any two of ten kinds of fault |

*poller.* A round of five slots holds one tick of the daemon, the engine's poll, its
anchor poll and the decision, in the order and with the clearances that
`config.py` enforces (`ScheduleAssumption`).  The second round is what the epoch
advance and the two epoch gates are for.  The process is not started within
`StartMargin` slots of a lock; without that margin the property does not hold
(below).

*dry.* One bet in flight while another is settled, and a crash in the recovery
from a crash, are the cases that differ; stake, gas and payout are three numbers
no two sums of which are equal.

*store.* The window of the sync is two rounds and so is a batch, the horizon is
four days, a watchdog captures one epoch a run.  With two days off in a row
(`MaxOff = 2`) `NothingAgesOut` fails, as it must: one capture a run cannot keep
up with a horizon this short.  The real numbers (171 days, 300 a run) leave far
more room.  `SyncFailsForCause` names the five states a later run cannot mend by
itself and asks that each be on disk when it is given as the reason; a sync that
fails in any other state breaks it.

*loop.* An interval of twelve ticks is two minutes: the wakes and the pass are as
long as in the code, and what is shortened is the idle time between them.
`OtherAlarms` is 0 in the run (below); the theorem `RoundsSound` shows that at the
real interval of thirty ticks, with the same delays, nine other alarms may speak in
every round and none is missed.

*klines.* Three candles are the fewest with a head, a middle and a tail.  A window
of five rounds that speaks from the third on fills, speaks half filled and slides.
The bars (40 and 20 of a hundred for delays, 20 and 10 for failures) are reached
exactly in it, which is where an off-by-one would show, and their sum, three lost
rounds of five, is the least that no mixture may hide.

*monitor.* Two days a week are a Sunday and one day for a makeup run; the fourth
week is the one after the third weak or blind one.

`TypeOK` of the modules, `TrackerTypeOK`, `GateTypeOK`, `PeriodicKeepsClear` of
`RpcPoller`, `AlertsEndBeforeTheLadder` and `NoRoundIsVisitedTwice` of `RoundLoop`,
and `NothingLostBehindCursor` with the constants of `live_passes`, hold in the
configurations of their runs as well; they are stated in the modules and not
among the standing checks, which keep to what another property, or a theorem,
does not already imply in practice.

### What the code does not keep

One statement has a run of its own in which TLC finds it violated:

| Run | Statement | What happens |
|---|---|---|
| `gate_history` | `bankroll_tracker.py:7`: "Appends each settlement change to a JSONL file" | a sample that pushes an older one out of the window is never written, and a restart loses it |

The others are stated in the modules and checked by hand.  Where no configuration
is named, put the property in place of those of the given one; each is found
violated within a minute.

| Property | Configuration | Statement | What happens |
|---|---|---|---|
| `RecordedBeforeReceiptWait` | `LiveBets_gas` | `record_submitted`: "written at TX broadcast (before the receipt wait)" | it is written after it; a crash in the wait leaves a stake the ledger never heard of |
| `RevertedClaimIsReattempted` | `LiveBets_revert` | `claim_scan_cursor`: reverted epochs "will be re-attempted" | the cursor moves past them; a claim that timed out and is mined late reverts the next one and strands the other rounds of its batch |
| `FailedCallIsRedetected` | `LiveBets_partial` | `_sleep_and_claim`: "the next iteration's scan re-detects" | a call that failed alone in a batch reads as nothing to claim and the cursor passes the round |
| `StakeIsCountedUntilClaimed` | `LiveBets_revert` | `open_stake_bnb`: the stake "returns only when the claim lands" | from the settlement to the claim it is neither in the wallet nor added back |
| `BoundaryRoundIsRescanned` | `LiveBets_boundary` | `reconcile`: "NOT refundable AT the boundary second" | the scan lets the round pass at that very second |
| `ZeroGasIsNeverMined` | `LiveBets_gas` | gas schema: "0 = confirmed no gas spent (TX never mined)" | zero is written while the transaction may still be mined |
| `NeverFireThenLose` | `LiveBets_faults` | `_append_record`: "never fire-then-lose" | a kill or a failed write leaves a line in part; the next settlement lands on it, counts as written, is announced as lost, and is settled and announced again by the next pass |
| `DeferredAlertIsSent` | `LiveBets_deferred` | `fire_claim_settled_alerts`: "only the ledger record + alert defer" | nothing ever sends the deferred alert |
| `RoundTicksOnce` | `RiskGate_anchor` | `tick_cooldown`: "a repeated round a no-op" | the round at hand ticks again after every restart |
| `EveryReleaseReseeds` | `RiskGate_anchor` | `decide_open_round`: "Every release path reseeds the peak baseline" | a restart between the unpause and the reseed |
| `ReleaseOnlyOnRecovery` | `RiskGate_expiry` | `decide_open_round`: "release only if the shadow shows recovery, else EXTEND" | a restart between `set_paused` and the start of the shadow: the suspension ends by its count |
| `EpisodeLossIsBounded` | `RiskGate_loss` | `docs/monitoring.md`: "Worst case for one bad episode" | the peak is lost with the sample of `gate_history`, and the breaker does not fire |
| `NothingIsMissingBehindTheCursor` | `RpcPoller_start` | (no margin at a start) | a process started close to a lock puts its cursor at a head that may lie in the next round, whose first bets are never fetched |
| `SizedPoolIsComplete` | `RpcPoller_unarmed` | "THE HARD GUARANTEE that bet sizing uses COMPLETE pool data" | as long as no anchor poll has ever succeeded the coverage check passes |
| `ArmedPoolIsComplete` | `RpcPoller_gap` | (450 ms a block) | slots without a block stretch the chain; the time of the cursor is reckoned one block too late |
| `InfeasibleHasDetail` | `RpcPoller_stall` | (two critical sections) | a thread held up between the flag and its numbers makes the engine raise |
| `NoRecordIsLost` | `DryState` | (one-second timestamps) | a crash after the first of two records of one second loses the second |
| `BankrollIsOnSettledBasis` | `DryState` | `dry.py`: "ALREADY on a settled basis" | a restored bankroll has the stakes of open bets debited; the drawdown check counts them twice |
| `StagingResumes` | `StoreSync_staging` | `sync.py`: the staging file is resumed | a kill inside one of its lines makes the next run end in an error |
| `RefusalExitsCleanly`, `GapExitsCleanly` | `StoreSync` | `store_rewrite_gate.py:30`, `sync.py:331` | the alignment check then ends the run that was said to succeed |
| `CapturedIsSafe` | `StoreSync_captured` | `store_guard.py:268`: "the data is safe but the store still has the hole" | a kill inside `append_staged` leaves part of a record whose epoch counts as staged; it is never fetched again |
| `ShrinkMeansLoss` | `StoreSync` | `store_guard.py:21` | the repair of a torn line counts as a store that shrank |
| `OnlyTheWindowLeavesHoles` | `StoreSync` with `FirstDay = CacheN = 4`, `CapturePerRun = MaxOps = 2` | `sync.py:414`: "refusing to advance the cursor" | a backfill that was killed leaves its staging file; days later the next one stages only what its own window lacks (`sync.py:478`) and prepends everything staged (`sync.py:514`), with a hole between the two |
| `NothingReadableIsLost` | `StoreSync_overlap` | (no lock in `merge_staged.py`) | a merge rewrites the store from what it read before a running sync appended |
| `ReplacementIsAtomic` | `StoreSync` | `round_store.py:162`: "by atomic replacement" | the backfill replaces the rounds by a file that was never synced; a power loss leaves it empty, and every later sync ends with that |
| `SyncFailsForCause` | `StoreSync_newline` | (a record without its newline) | it parses and is not repaired; the next append lands on its line, which no reader accepts |
| `AlertsEndBeforeTheLadder` | `RoundLoop` with `OtherAlarms = 2` | `engine.py:582` | the slack is looked at once, before all the alerts of a flush |
| `BetHasTheNextNonce` | `RoundLoop` with `LaggingNonce = TRUE` | (`prefetch_nonce`) | a node that is behind gives a used nonce, which replaces a correct one |
| `ClaimHasTheNextNonce` | `RoundLoop` | `live.py:570` | a claim is signed with the nonce of the last preflight wake; an eviction since leaves a gap |
| `FloorMeansStale` | `RoundLoop` | `engine.py:1025`: the floor "cannot fire in normal operation" | a start close to the claim of a round makes a short iteration |
| `CountedRoundsFetched` | `RateAlarms_stale` | `engine.py:1616`: "the kline fetch genuinely ran and its outcome is meaningful" | a risk check returns before the gate is asked, and the class of an earlier round is counted again, for as long as the suspension or the low balance lasts |
| `FetchWordIsTrue` | `RateAlarms` | `pool_gate_alarm.py:25`: "so silence is never ambiguous" | the rate and the burst alarm share their two words: one says that fetches work while the other is up |
| `NeverBetsForMonthsBlind` | `WeeklyMonitor_unusable` | docstring, line 51: "Never bet for months while the evaluator cannot see performance" | empty stores raise before the marker is written and after it was cleared, so the blind Sunday is never counted |
| `NeverBetsForMonthsBlind` | `WeeklyMonitor_torn` | the same | `save_state` is not atomic; half of `state.json` ends every later run |
| `NeverBetsForMonthsBlind` | `WeeklyMonitor_lost` | the same | a kill after the Sunday cleared the marker loses the blind week |
| `NeverBetsForMonthsBlind` | `WeeklyMonitor_unusable` with `FaultKinds = {"manual"}`, `MaxFaults = 1` | the same | a manual run with `--no-sync` on a Sunday clears the marker and does not count the blind week it stood for |
| `FailedReadIsNotSafe` | `WeeklyMonitor_unusable` with `FaultKinds = {"misread"}` | line 52: a failed read "must not masquerade as already safe" | an error text of is-active or is-enabled is taken for a no, and the unit that three blind weeks should stop is left on |
| `ReleaseHasADecision` | `WeeklyMonitor_flag` | line 1315: no manual start may consume a flag "and bet without an enable decision" | a kill between flag and enable leaves the flag, and so does a later disable |
| `StartHasADecision` | `WeeklyMonitor_start` | the same comment | a failed `enable --now` may have enabled the unit; the next run starts it |

`NothingLostBehindCursor` is the complement of three of these: apart from a
revert, a partly failed batch and the boundary tick, nothing is ever left behind.
In the same way `CooldownCountsRounds` says that a suspension loses no more than
one round for each restart, `SettlementAnnouncedOnce` that a loss is announced again
no more than once for each line left in part, `EpisodeLossIsBounded` holds in one process,
`ArmedPoolIsComplete` says what the coverage check guarantees once armed, and
`BlindWeeksStop` excuses a season in which a run was cut short before it marked
its week or did not sync, and a unit systemd refused to stop or misreported.

Hazards seen while modelling that no property covers: a page of
`get_user_rounds_all_batched` that fails alone (`prediction_contract.py:701`; the
model reads one page), a torn line of `pending_bets.jsonl` (`dry.py:190`; the
start refuses), an alert whose delivery fails (`engine.py:647`; swallowed by
design), a failed `prefetch_nonce` at the preflight wake (`engine.py:1365`; it
ends the process), a run that finds the sync lock held and is later reported as
orphaned (`daily_sync.ps1:118`), a bootstrap killed before its first record
(`round_sync.py:38`), and the token bucket threads share
(`okx_client.py:125`).

### Fairness

`FairSpec` assumes weak fairness of the bot's steps and of the mining of claims.
The bot is one thread whose only waits are sleeps and receipt waits with a
timeout, so a step that stays enabled is taken; a claim in the mempool is mined
or its wait times out.  No fairness is assumed of the other components: their
properties are safety properties, and what must happen in time (`DecisionIsOnTime`,
`NoRoundIsMissed`, `NothingAgesOut`) is stated against their clocks.  Nothing is assumed of the clock, of the contract's
operator, of bets being mined, or of faults.

## What is proved

For every value of the constants the assumptions admit:

- `LedgerProofs!TypeCorrect`: `TypeOK` is an invariant.
- `LedgerProofs!LedgerInvariant` and `LedgerIsSound`: `LedgerMatchesChain` is an
  invariant.  By itself it is not inductive.  A refund is booked from two
  readings taken at different times (`recNow` when the pass began, the round
  when it is settled), so one needs that a round past its buffer never gets an
  outcome (`RoundsInv`, `RefundsAreFinal`); what the thread remembers must be
  behind the chain and never ahead of it (`MemoryInv`); and a CLAIMED record is
  written on the word of a receipt, so the claim being waited for must be the
  last of the mempool (`ClaimInv`).  `LedgerInv` is their conjunction.
- `GateProofs!TrackerTyped`, `CooldownSound`, `PeakSound` and `BaselineSound`: the type
  invariant and the three properties of the tracker.  `CooldownInv` adds that a round which has ticked and
  is not remembered was followed by a restart; `PeakInv` that what is in memory is
  the end of everything this process was given, in the order of time, cut before
  the window; `BaselineInv` that what a restart would read (`Loadable`: the samples
  of the file with no barrier behind them) is of the current baseline as well, and
  that a process which has recorded nothing found an empty file.
- `GateProofs!GateTyped`, `SuspensionSound`, `LossSound`, `EvidenceSound` and
  `ReleaseSound`: the type invariant and the four properties of `RiskGate`.  The
  gate moves the tracker, so each of its steps is first shown to be one of the
  tracker's (`TrackerMoves`), and what is known of the tracker carries over.
  `HoldsInv` says, while a suspension is served, how many of its rounds the
  tracker has ticked and how many are left; `LossInv` that a bankroll above the
  threshold bounds the loss of the episode as soon as it stops betting, and that
  while it bets the peak it is measured against is at least the one the episode
  began with (the arithmetic of the thresholds is split into products, their
  distributivity and their order, which is as much as the solver does);
  `EvidenceInv` that the tallies of the shadow ledger are the wins and losses it
  recorded since the episode began.  Each theorem names the restarts it holds
  for: none for `SuspensionHolds` and `EpisodeLossIsBounded`, one at most for
  `EvidenceIsExact` and `ReleaseHasEvidence`.  The hypothesis is about a history
  counter and not about a constant, so a behaviour with more restarts is covered
  up to that point, and the configurations `RiskGate_expiry` and `RiskGate_loss`
  show that without it the code does not keep the property.
- `LoopProofs!LoopTyped`, `SendsSound`, `VisitedOnce`, `NonceSound`, `OperatorSound`
  and `RoundsSound`: the type invariant and the properties of `RoundLoop`.
  `ClockInv` says that every round but the last is locked, an interval or more
  before the next, and that the thread is awake when it is due; the bot's deadline
  is then the lock of the only open round (`SendInv`).  `VisitInv` says that a round
  comes into view while its lock lies ahead and that a thread which has been
  through its wakes sleeps past it.  `NonceInv` says where in an iteration the cached
  nonce is the next one: mining a transaction of the wallet does not change what
  is next, and between the preflight wake and the send nothing else happens to
  them; it holds when the node is not behind (`~LaggingNonce`).  `SpeechInv` says
  what the operator will have heard once the queue is delivered (`Hears`), place by
  place, so that the order of deliveries and verdicts does not matter.  `TimeInv`
  says, place by place, how late the thread can be.  It needs the delays to fit into
  a round, which is `InTime(first, later)`, a hypothesis on the constants: `first`
  and `later` bound how long a round holds the thread after its lock, and claims,
  floor and twice the alerts of a round must end a ladder before the next lock.
  `RoundLoop.cfg` satisfies it with 5 and 4; with `OtherAlarms = 2` it fails, and TLC
  finds a missed round.
- `LedgerProofs!BookInvariant` and `LedgerKeepsBook`: `KeepsBook`, the refinement of
  `BetBook`.  That the initial states correspond is immediate; that every step is
  a move of the book or leaves it alone needs, beyond `LedgerInv`, that what is
  paid was registered and not lost, and refunded only past its buffer (`PaidInv`),
  that a bet which was not sent has no record (`UnsentInv`), that the bet being
  recorded was sent and has at most its first record (`SendingInv`), and that the
  entries a pass has in hand still have the status it picked them by (`PassInv`).
- `LedgerProofs!AnnounceInvariant` and `AnnouncedOnce`: `SettlementAnnouncedOnce`.
  `LossesInv` counts: the announcements of a loss, the one about to be made and a line
  still left in part are together no more than the lines ever left in part, and one
  more once the loss is on file.  A record ends such a line or is on file, so each
  announcement has used up one of them.  `ClaimsInv` ties an announced win or refund
  to its payment; `FreshInv` says that what a claim has just paid was not announced
  before.
- `LedgerProofs!ScanInvariant` and `CursorIsSafe`: `NothingLostBehindCursor`.  The
  list of rounds is in their order and only grows (`OrderInv`); what is behind the
  cursor is over for good, and while a scan is at work whatever lies before its
  edge is over or pending (`CursorInv`), so that the first pending round is a safe
  place to park.
- `LedgerProofs!CalmInvariant`, `StakesAreCounted` and `PassesAreComplete`:
  `InPlayStakeIsCounted` and `PassIsComplete`, which are promises for behaviours
  without a fault.  `Undisturbed` is what stays true until the first one: the
  rounds follow each other, every one before the last two has its outcome, and they
  close in order (`RoundsFlow`); every bet sent is on disk, and every
  stake in the contract in the wallet's list (`StakeInv`, `ListedInv`); what is due when a pass
  begins is older than the two rounds the scan skips, and is in hand, claimed or
  settled from then on (`DueInv`); a claim is alone in the mempool and pays what is
  pending, and the scan does not end before anything due (`PayInv`).  The invariant
  is proved as `faults = 0 => Undisturbed /\ ~torn`, so a fault ends it and nothing
  else: without one, every record that is appended can be read.
- `MonitorProofs!UnitStops`: `WeakWeeksStop`.  `StopInv` adds that a run about to
  book the last weak week has chosen to stop the unit and has done so before it
  saves, and that a run which starts the unit books no such week.
- `MonitorProofs!MakeupsArmed`: `BlindSundayIsRetried`.  `RetryInv` relates the marker
  on disk to the week the current run is for, at each of its places, and that week,
  as long as the last Sunday is blind, to that Sunday.
- `MonitorProofs!BlindnessStops`: `BlindWeeksStop`.  `BlindInv` says that the streak on
  disk is at most one Sunday short of the calendar: a blind Sunday leaves a marker,
  and the run that finds it counts it.  A run that is cut short before it has written
  its marker, or does not sync, leaves no trace, so its Sunday is forgotten: both
  theorems excuse it (`cut`), and `WeeklyMonitor_lost.cfg` shows that they must.
- `MonitorProofs!StreakCounted`: `WeakStreakIsExact`.  `CountInv` says that weeks are
  booked in their order, so that the count a second run of a week starts from is
  the one without that week.
- `DryProofs!SettlementsAnnounced`, `DryPassesAreComplete` and `BankrollSound`: the three
  properties of `DryState`.  `PastInv` says that what is on file is final, so that the
  operator changes no credit any more; `FileInv` that a running process remembers what
  is on file; `AlertInv` counts the alerts of a bet that is not on file as settled by
  the crashes; `CompleteInv` follows what is due through the pass.  For the bankroll,
  `OrderInv` puts every record before the last save except the one that is being saved,
  and none as early as a configured bankroll; `BalanceInv` then says what a start may
  find: a bankroll saved after the last record (`Saved`), one record that is later than
  all the others and carries the balance (`Ahead`), or nothing (`Untouched`).  In each
  case what `Resolve` picks is the balance the logs add up to, for any number of records.

- `PollerProofs!DetailSound`, `DecisionSound`, `ClearSound`, `CursorSound` and
  `PoolSound`: the five properties of `RpcPoller`.  `Base` says what every step keeps by itself: the blocks
  follow each other a slot or more apart, rounds do not overlap, the bot's lock is
  that of its round, and a poll belongs to the thread that holds the lock.  `Flags`
  says that a poll writes the numbers of its verdict before the verdict.  `Timely` follows
  the engine from one instant of its schedule to the next; its
  poll is cut off by its cap before the anchor's, and dropped rather than made to wait
  when the daemon holds the lock.  `Clear` says that this does not happen: `NextTick`
  chooses instants from which a tick ends a buffer before the engine's poll, or the lock
  itself (`SafetyBuffer > 0` is the hypothesis; the code has 50 ms).  For the cursor, `Early`
  says that nobody polls before it is set; `CursorPart` and `JumpPart` that what it has
  passed does not lie in a later round, also when the change of the round makes it
  jump; `MissPart` that the bets of the open round it has passed are in the pool; and
  `PollPart` that the range of a poll joins the cursor, so that neither a poll cut off
  nor one that straddles the change of the round leaves a hole.  `Sized` then adds
  that once the cutoff is past no more bets fall due, and that the time of the cursor,
  reckoned from the anchor, is the time of its block.  All of them assume that no thread
  is held up between two steps that only compute (`~Stalls`), the last two that the
  header of the first cursor takes no longer than the margin of a start
  (`HeaderCap <= StartMargin`), and `PoolSound` holds until a slot stays without its
  block (`gaps = 0`).  `RpcPoller_stall`, `RpcPoller_start` and `RpcPoller_gap`
  show that `DetailSound`, `CursorSound` and `PoolSound` need them.

- `RateProofs!WholeSound`, `WindowsSound`, `RatesFollowed`, `LossHeard` and `BurstsSound`:
  the five properties of `RateAlarms`.  The first is about the answers alone: rows in
  steps of one from the first candle to the last are the window, and an answer excused
  as late has its candles from the first on.  For the others, `Seen` says that the round
  a window saw last is that of the last decision, so that a decision is the first of its
  round if and only if the window has not seen it; `Counted` that the outcome at each
  place of a window is that of the first decision as many rounds back, which makes its
  hits as many as the rounds of the class (`MatchesCount`).  `Rate` says that the alarm of
  a filled window is up if and only if the window is over its bar, and that it is over
  whenever its rate is at the bar, which the lower exit cannot undo; a loss at the sum of
  both bars has one of the two windows at its own.  `BurstInv` says that the streak of the
  burst alarm is no less than the failed rounds since the last clean one: a delay leaves
  both as they are, and a repeated round counts in neither.

- `StoreProofs!StoreTyped`, `StoresSound`, `NoRecordLost`, `FailuresExplained`,
  `HolesSound`, `FirstBackfillSound` and `MarkerSound`: `TypeOK` of `StoreSync` and five
  of the six properties of its run.  They rest on what the operations of `JsonlStore` do
  to a file of any length.  `Sound` describes the two stores: one record to a line,
  ascending, and nothing unreadable but a last line that a kill has cut; a complete
  append, a cut one, the repair, a rewrite and what a power loss leaves keep it
  (`WriteSound`, `CutSound`, `RepairSound`, `FromEpochsSound`, `LeftSound`), and it says
  what each reader takes the file for (`SoundFile`, `SoundScan`).  `Tailed` is what is
  left for the two files nothing repairs.  `Kept1` is the invariant over the processes: a
  sync at work has repaired the stores, what it is about to write lies after what they
  hold, batch before the rest of the plan, and a merge that is ready has read everything
  the store shows; with `Secured`, that what is safe is on the disk, this is all that
  `StoresAscend` and `NothingReadableIsLost` need.

  `FailuresExplained` takes two more.  `Unbroken`: the rounds on file are an interval, so
  that the window of the sync is no longer than OKX serves (`WindowServed`) and no fetch
  is refused for its age.  `Promised`: place by place, what a sync still owes of its
  window is in the store, planned or staged, or it is a hole of the store or a round the
  daily run may not prepend, and then the reason given is that one.  `HolesSound` adds
  that the rounds are without a hole, that what lies past the store and in the window is
  planned, and that all a watchdog captures lies past some record of the store.
  `Warned` follows the verdict from the look of the watchdog to its marker.

  The theorems on the files assume that no kill leaves a complete record without its
  newline and that no merge overlaps a sync (`~MayCutNewline`, `~MayOverlap`);
  `StoreSync_newline` and `StoreSync_overlap` show that they need it.  They hold with and
  without `MayLoseUnsynced`, except for the two on holes, which assume `~MayLoseUnsynced`
  and of which the run alone has the other case.  `MarkerSound` assumes nothing.
  `HolesSound` adds that no backfill begins over a staging file that an earlier one left
  (`NoStale`), which the row of `OnlyTheWindowLeavesHoles` in the table above shows to be
  needed; `FirstBackfillSound` discharges it for one run of the operator, the case the
  run checks.

The assumptions used are `TrackerAssumption` (a positive window, balances that
are numbers), `GateAssumption` (a stake, a suspension and a trip ratio of at most
one that are positive), `MarketAssumption` (at least two rounds, a positive buffer
shorter than the interval), `BotAssumption` (buffer and padding fit in an interval,
chunks are not empty), `AlarmAssumption` (a positive threshold), `LoopAssumption`
(a positive interval and claim delay, at least one attempt of a handshake, a
bound on time of at least two rounds), `MonitorAssumption` (a week has days,
thresholds are positive), `DryAssumption` (stake, payout and interval are positive,
a start has some bankroll configured), `ScheduleAssumption` (the order of the
instants of a round and the room its caps leave, which `config.py` checks at
every start), `FetchAssumption` (some symbol, a window of two candles or more),
`RateAssumption` (windows, samples and threshold are positive, a window has room for
its samples, and every rate is left below where it is entered) and `StoreAssumption`
(windows, batches and caps are positive, and OKX keeps what the window spans).

Only model-checked: `PassEnds`, which is liveness and out of this prover's reach, and
`NothingAgesOut`.  That no hole ages past the horizon is not a fact about every value of
the constants: it is a balance between what a machine that is off, killed or refused can
leave behind and what a capped capture a day can fetch, and the run checks it
where the balance is tight.

## What is left

A theorem worth proving next: `NothingAgesOut`, under the least inequality between
horizon, window, days off, faults and captures a run that makes it true.
Abstract specifications worth stating: a bankroll history
without files for the tracker, the pool of a round as a set of bets for the poller,
an append-only log for the stores.

## What is not modelled

The signal arithmetic of the momentum gate (floating point over klines), the
backtest (a sequential replay), notifications and audit files (nothing reads them
back), locks (one call to the operating system), the rate limiter (a float
refilled by a monotonic clock, a promise about rates that a coarse clock would
assume), the latency monitors, configuration and constants, and
what is offline: `research/` but for the weekly monitor, `tools/`, `bootstrap/`
and the one-off scripts.  `PROJECT.json` lists every part with its status.
