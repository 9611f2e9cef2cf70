----------------------------- MODULE MCLiveBets -----------------------------
(* Instances of LiveBets for TLC, and what comments of the repository say of *)
(* the program that the code does not keep: each has a configuration of its  *)
(* own, under which TLC finds the counterexample.                            *)
EXTENDS LiveBets

\* runtime/bet_ledger.py, record_submitted: the SUBMITTED record is "written
\* at TX broadcast (before the receipt wait)".
RecordedBeforeReceiptWait == pc = "sent" => status[bet] = "SUBMITTED"

\* runtime/live.py, claim_scan_cursor, on a reverted claim: "Next iteration
\* re-scans naturally and any epochs that re-show as claimable will be
\* re-attempted", so the cursor never strands such an epoch.
RevertedClaimIsReattempted ==
    \A i \in 1 .. cursor :
        Entitled(userRounds[i]) => excuse[userRounds[i]] # "revert"

\* runtime/engine.py, _sleep_and_claim: the scan is "Fail-soft on transient
\* RPC: the next iteration's scan re-detects".
FailedCallIsRedetected ==
    \A i \in 1 .. cursor :
        Entitled(userRounds[i]) => excuse[userRounds[i]] # "partial"

\* runtime/bet_ledger.py, reconcile: a round is NOT refundable AT the boundary
\* second, so a scan at that second must leave it for a later one.
BoundaryRoundIsRescanned ==
    \A i \in 1 .. cursor :
        Entitled(userRounds[i]) => excuse[userRounds[i]] # "boundary"

\* runtime/bet_ledger.py, the gas schema: "0 = confirmed no gas spent (TX never
\* mined)".
ZeroGasIsNeverMined ==
    \A e \in Epochs : gas[e] = "zero" => betTx[e] \notin {"late", "reverted"}

\* runtime/live.py, fire_claim_settled_alerts: for a claim confirmed before
\* reconcile settled the epoch, "only the ledger record + alert defer", so once
\* the epoch is settled and a later scan is over, its alert has been sent.
DeferredAlertIsSent ==
    pc = "handshake" /\ started =>
        \A i \in 1 .. cursor :
            /\ userRounds[i] \in paid
            /\ status[userRounds[i]] \in {"SETTLED_WON", "SETTLED_REFUND"}
            => alerts[userRounds[i]]["WON"] + alerts[userRounds[i]]["REFUND"] > 0

\* runtime/bet_ledger.py, open_stake_bnb: the stake "returns only when the claim
\* lands", and until then the raw balance must be corrected for it.
StakeIsCountedUntilClaimed ==
    pc = "decide" =>
        \A e \in sized :
            /\ Registered(e) /\ e \notin paid /\ outcome[e] = "win"
            /\ closeTs[e] + Buffer < recNow
            => status[e] \in OpenStatuses

\* runtime/bet_ledger.py, _append_record: a failed persist defers the alert,
\* "never fire-then-lose": what was announced as lost is on file as lost.
NeverFireThenLose ==
    \A e \in Epochs : alerts[e]["LOST"] > 0 => status[e] = "SETTLED_LOST"
=============================================================================
