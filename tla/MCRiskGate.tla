----------------------------- MODULE MCRiskGate -----------------------------
(* What comments of the repository say of the bankroll tracker and of the    *)
(* risk checks, and the code does not keep: each has a configuration of its   *)
(* own, under which TLC finds the counterexample.                            *)
EXTENDS RiskGate

\* bankroll_tracker.py, module docstring: the persisted tracker "Appends each
\* settlement change to a JSONL file", the latest one too.
LatestSampleIsOnDisk == truth # <<>> => Last(history) = Last(truth)

\* bankroll_tracker.py, tick_cooldown: "Passing the round anchor makes a
\* repeated round a no-op", so n ticks are n distinct rounds.
RoundTicksOnce == cooldown + Cardinality(ticked) >= granted

\* strategy/momentum_pipeline.py, Check 1: "Every release path reseeds the peak
\* baseline", before Check 3 reads it.
EveryReleaseReseeds == pc = "checks" => owed # "released"

\* strategy/momentum_pipeline.py, Check 1: "release only if the shadow shows
\* recovery, else EXTEND", so no bet is admitted before that.
ReleaseOnlyOnRecovery == pc = "admitted" => owed # "owed"
=============================================================================
