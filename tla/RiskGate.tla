------------------------------ MODULE RiskGate ------------------------------
(***************************************************************************)
(* The risk checks in front of every live bet: decide_open_round and       *)
(* _release_suspension of strategy/momentum_pipeline.py over the bankroll  *)
(* tracker and the shadow ledger (strategy/shadow_ledger.py), as the loop  *)
(* of runtime/engine.py calls them.  The tracker and the ledger write      *)
(* files of their own, one write to a method, so every method is a step    *)
(* and the process may restart between any two of them.                    *)
(***************************************************************************)
EXTENDS BankrollTracker

CONSTANTS
    CooldownRounds, \* cooldown_rounds
    TripNum,        \* max_drawdown_fraction_from_peak is TripNum / TripDen
    TripDen,
    MinBankroll,    \* min_bankroll_bnb_to_bet
    MinFires,       \* shadow_min_fires_to_release
    RecoverNum,     \* shadow_recovery_peak_fraction is RecoverNum / RecoverDen
    RecoverDen,
    Stake,          \* what a bet commits, real or shadow
    MaxOpen,        \* most bets in flight (bound of the model)
    MaxFetches,     \* max_fetches of fetch_pending_shadow_rounds
    MaxFlags        \* override flags the operator writes (bound of the model)

ASSUME GateAssumption ==
    /\ CooldownRounds \in Nat \ {0} /\ Stake \in Nat \ {0}
    /\ TripNum \in Nat \ {0} /\ TripDen \in Nat /\ TripNum <= TripDen
    /\ RecoverNum \in Nat /\ RecoverDen \in Nat \ {0}
    /\ {MinBankroll, MinFires, MaxOpen, MaxFetches, MaxFlags} \subseteq Nat

VARIABLES
    pc,         \* where the thread is
    wallet,     \* the raw balance on the chain
    open,       \* bets in flight
    lastBet,    \* round of the last bet, -1 if none
    valued,     \* settled_current of the breaker that has just fired
    batch,      \* closed rounds fetched for the shadow and not settled yet
    shadow,     \* the shadow ledger, equal in memory and on disk
    flag,       \* cooldown_override.json
    \* --- history variables ---
    flags,      \* override flags written so far
    owed,       \* what has become of the suspension the breaker started
    evidence    \* rounds settled for the shadow since then, with their result

betVars == <<wallet, open, lastBet>>
flagVars == <<flag, flags>>
vars == <<trackerVars, pc, betVars, valued, batch, shadow, flagVars, owed, evidence>>

PCs == {"top", "settle", "paused", "tick", "evaluate", "expired",
        "unpause", "reseed", "clear", "checks", "shadowStart", "admitted"}

PnL == {-Stake, Stake}

\* active, suspension_bankroll, cum_pnl, n_settled, pending and trajectory.
Shadow == [active : BOOLEAN, base : Int, cum : Int, settled : Nat,
           pending : SUBSET Nat, points : SUBSET [at : Nat, value : Int]]

NoShadow == [active |-> FALSE, base |-> 0, cum |-> 0, settled |-> 0,
             pending |-> {}, points |-> {}]

-----------------------------------------------------------------------------
(* The shadow ledger.                                                      *)

HypoBankroll(s) == s.base + s.cum

Recent(s, t) == {p \in s.points : p.at >= t - Window}

HypoPeak(s, t) ==
    IF Recent(s, t) = {} THEN HypoBankroll(s)
    ELSE Max({p.value : p \in Recent(s, t)})

ShadowStart(value) ==
    [active |-> TRUE, base |-> value, cum |-> 0, settled |-> 0,
     pending |-> {}, points |-> {[at |-> anchor, value |-> value]}]

ShadowClear(s) == [s EXCEPT !.active = FALSE, !.pending = {}]

RecordFire(s, e) == [s EXCEPT !.pending = @ \cup {e}]

\* Mutant: the settled round stays pending.
SettleAgain(s, e, pnl) ==
    [s EXCEPT !.cum = @ + pnl, !.settled = @ + 1]

\* settle_round with the outcome of a closed round.
SettleRound(s, e, pnl) ==
    LET value == HypoBankroll(s) + pnl
        point == [at |-> e, value |-> value]
        grown == s.points \cup {point}
    IN  [s EXCEPT !.pending = @ \ {e}, !.cum = @ + pnl, !.settled = @ + 1,
                  !.points = {p \in grown : p.at >= e - Window}]

\* Mutant: no evidence is asked for.
ReleaseUntested(s, t) ==
    s.cum >= 0 /\ HypoBankroll(s) * RecoverDen > HypoPeak(s, t) * RecoverNum

ReleaseOk(s, t) ==
    /\ s.settled >= MinFires
    /\ s.cum >= 0
    /\ HypoBankroll(s) * RecoverDen > HypoPeak(s, t) * RecoverNum

-----------------------------------------------------------------------------
(* One iteration of the loop up to the decision.                           *)

Init ==
    /\ TrackerInit
    /\ pc = "top" /\ wallet = initial /\ open = 0 /\ lastBet = -1
    /\ valued = 0 /\ batch = {} /\ shadow = NoShadow
    /\ flag = "none" /\ flags = 0 /\ owed = "none" /\ evidence = {}

\* Only the thread moves: every step names what else it changes.
Go(to) == pc' = to

\* The first max_fetches pending rounds the chain has closed by now.
Fetched(round) ==
    LET due == {e \in shadow.pending : e <= round - 2}
    IN  {e \in due : Cardinality({d \in due : d < e}) < MaxFetches}

\* The handshake returns the open round; of the rounds fetched for the shadow
\* some are not final yet or fail to load.
StartIteration ==
    /\ pc = "top" /\ Go("settle")
    /\ \/ UNCHANGED trackerVars
       \/ Advance
    /\ \E final \in SUBSET Fetched(anchor') : batch' = final
    /\ UNCHANGED <<betVars, valued, shadow, flagVars, owed, evidence>>

SettleShadow(pnl) ==
    LET e == Min(batch)
        pends == shadow.active /\ e \in shadow.pending
    IN  /\ pc = "settle" /\ batch # {} /\ Go("settle")
        /\ batch' = batch \ {e}
        /\ shadow' = IF pends THEN SettleRound(shadow, e, pnl) ELSE shadow
        /\ evidence' = IF pends /\ \A r \in evidence : r[1] # e
                       THEN evidence \cup {<<e, pnl>>} ELSE evidence
        /\ UNCHANGED <<trackerVars, betVars, valued, flagVars, owed>>

\* The fresh balance goes to the tracker before anything is decided from it;
\* Check 1 asks first whether betting is suspended.
Preflight ==
    /\ pc = "settle" /\ batch = {}
    /\ Go(IF cooldown > 0 THEN "paused" ELSE "checks")
    /\ RecordSettlement(wallet)
    /\ UNCHANGED <<betVars, valued, batch, shadow, flagVars, owed, evidence>>

\* risk_bankroll_stale: without a fresh balance the round is skipped, as it is
\* when a claim is due first.
PreflightFails ==
    /\ pc = "settle" /\ batch = {} /\ Go("top")
    /\ UNCHANGED <<trackerVars, betVars, valued, batch, shadow, flagVars, owed, evidence>>

\* The pool of the round is not known in time: nothing is decided, and the
\* round is not counted.
PoolNotReady ==
    /\ pc \in {"paused", "checks"} /\ Go("top")
    /\ UNCHANGED <<trackerVars, betVars, valued, batch, shadow, flagVars, owed, evidence>>

-----------------------------------------------------------------------------
(* Check 1: the suspension.                                                *)

\* Mutant: a stale flag releases as well.
ConsumeAnyFlag ==
    /\ pc = "paused"
    /\ flag' = "none"
    /\ Go(IF flag # "none" THEN "unpause" ELSE "tick")
    /\ owed' = IF flag = "fresh" THEN "waived" ELSE owed
    /\ UNCHANGED <<trackerVars, betVars, valued, batch, shadow, flags, evidence>>

\* _consume_override_flag removes the file; only a fresh one releases.
ConsumeFlag ==
    /\ pc = "paused"
    /\ flag' = "none"
    /\ Go(IF flag = "fresh" THEN "unpause" ELSE "tick")
    /\ owed' = IF flag = "fresh" THEN "waived" ELSE owed
    /\ UNCHANGED <<trackerVars, betVars, valued, batch, shadow, flags, evidence>>

Tick ==
    /\ pc = "tick" /\ TickCooldown
    /\ Go(IF ~shadow.active THEN "top" ELSE IF cooldown' = 0 THEN "expired" ELSE "evaluate")
    /\ UNCHANGED <<betVars, valued, batch, shadow, flagVars, owed, evidence>>

\* _shadow_evaluate: the gate may have no signal for this round.
ShadowEvaluate ==
    /\ pc = "evaluate" /\ Go("top")
    /\ shadow' \in {shadow, RecordFire(shadow, anchor)}
    /\ UNCHANGED <<trackerVars, betVars, valued, batch, flagVars, owed, evidence>>

Recovered ==
    /\ pc = "expired" /\ ReleaseOk(shadow, anchor) /\ Go("unpause")
    /\ UNCHANGED <<trackerVars, betVars, valued, batch, shadow, flagVars, owed, evidence>>

\* Mutant: the countdown is not set again.
ExtendNothing ==
    /\ pc = "expired" /\ ~ReleaseOk(shadow, anchor) /\ Go("top")
    /\ UNCHANGED <<trackerVars, betVars, valued, batch, shadow, flagVars, owed, evidence>>

Extend ==
    /\ pc = "expired" /\ ~ReleaseOk(shadow, anchor) /\ Go("top")
    /\ SetPaused(CooldownRounds)
    /\ UNCHANGED <<betVars, valued, batch, shadow, flagVars, owed, evidence>>

\* _release_suspension is three writes to three files.
Unpause ==
    /\ pc = "unpause" /\ Go("reseed")
    /\ SetPaused(0)
    /\ owed' = "released"
    /\ UNCHANGED <<betVars, valued, batch, shadow, flagVars, evidence>>

Reseed ==
    /\ pc = "reseed" /\ Go("clear")
    /\ ResetPeakBaseline
    /\ owed' = "none"
    /\ UNCHANGED <<betVars, valued, batch, shadow, flagVars, evidence>>

ClearShadow ==
    /\ pc = "clear" /\ Go("checks")
    /\ shadow' = ShadowClear(shadow)
    /\ UNCHANGED <<trackerVars, betVars, valued, batch, flagVars, owed, evidence>>

-----------------------------------------------------------------------------
(* Checks 2 to 4, and the bet.                                             *)

Peak == PeakBankroll(entries, anchor)

Drawdown(value) == (Peak - value) * TripDen >= TripNum * Peak

Funded == CurrentBankroll >= MinBankroll

\* The stake in flight as the ledger reports it: less than it is where a claim
\* is still to be made, 0 if the ledger cannot be read.
InFlight == {n * Stake : n \in 0 .. open}

Trips(inFlight) == Peak > 0 /\ Drawdown(CurrentBankroll + inFlight)

\* Mutant: Check 4 is dropped.
NeverExposed(inFlight) == FALSE

Exposed(inFlight) == Peak > 0 /\ inFlight > 0 /\ Drawdown(CurrentBankroll)

FireBreaker ==
    /\ pc = "checks" /\ Funded /\ Go("shadowStart")
    /\ \E f \in InFlight : Trips(f) /\ valued' = CurrentBankroll + f
    /\ SetPaused(CooldownRounds)
    /\ owed' = "owed" /\ evidence' = {}
    /\ UNCHANGED <<betVars, batch, shadow, flagVars>>

StartShadow ==
    /\ pc = "shadowStart" /\ Go("top")
    /\ shadow' = ShadowStart(valued)
    /\ UNCHANGED <<trackerVars, betVars, valued, batch, flagVars, owed, evidence>>

\* Below the minimum, exposed, or without a signal: the round is skipped.
Decline ==
    /\ pc = "checks" /\ Go("top")
    /\ Funded => \E f \in InFlight : ~Trips(f)
    /\ UNCHANGED <<trackerVars, betVars, valued, batch, shadow, flagVars, owed, evidence>>

Admit ==
    /\ pc = "checks" /\ Funded /\ Go("admitted")
    /\ \E f \in InFlight : ~Trips(f) /\ ~Exposed(f)
    /\ UNCHANGED <<trackerVars, betVars, valued, batch, shadow, flagVars, owed, evidence>>

\* The bet leaves the wallet; the contract takes one bet for a round.
PlaceBet ==
    /\ pc = "admitted" /\ Go("top")
    /\ \/ /\ lastBet # anchor /\ open < MaxOpen /\ wallet >= Stake
          /\ wallet' = wallet - Stake /\ open' = open + 1 /\ lastBet' = anchor
       \/ UNCHANGED betVars
    /\ UNCHANGED <<trackerVars, valued, batch, shadow, flagVars, owed, evidence>>

-----------------------------------------------------------------------------
(* What happens around the thread.                                         *)

\* A bet in flight is lost, or won and claimed.
BetEnds ==
    /\ open > 0 /\ open' = open - 1
    /\ wallet' \in {wallet, wallet + 2 * Stake}
    /\ UNCHANGED <<trackerVars, pc, lastBet, valued, batch, shadow, flagVars, owed, evidence>>

\* The weekly monitor leaves a flag, which goes stale in time.
OperatorFlags ==
    /\ \/ flag = "none" /\ flags < MaxFlags /\ flag' = "fresh" /\ flags' = flags + 1
       \/ flag = "fresh" /\ flag' = "stale" /\ UNCHANGED flags
    /\ UNCHANGED <<trackerVars, pc, betVars, valued, batch, shadow, owed, evidence>>

Restart ==
    /\ RestartTracker(wallet)
    /\ Go("top") /\ batch' = {} /\ valued' = 0
    /\ UNCHANGED <<betVars, shadow, flagVars, owed, evidence>>

Next ==
    \/ StartIteration \/ (\E p \in PnL : SettleShadow(p))
    \/ Preflight \/ PreflightFails \/ PoolNotReady
    \/ ConsumeFlag \/ Tick \/ ShadowEvaluate
    \/ Recovered \/ Extend \/ Unpause \/ Reseed \/ ClearShadow
    \/ FireBreaker \/ StartShadow \/ Decline \/ Admit \/ PlaceBet
    \/ BetEnds \/ OperatorFlags \/ Restart

Spec == Init /\ [][Next]_vars

-----------------------------------------------------------------------------

GateTypeOK ==
    /\ TrackerTypeOK
    /\ pc \in PCs /\ wallet \in Nat /\ open \in 0 .. MaxOpen
    /\ lastBet \in -1 .. anchor /\ valued \in Nat
    /\ shadow \in Shadow /\ batch \subseteq Nat
    /\ flag \in {"none", "fresh", "stale"} /\ flags \in 0 .. MaxFlags
    /\ owed \in {"none", "owed", "waived", "released"}
    /\ evidence \subseteq Nat \X PnL

\* A suspension the breaker started is over when a bet is admitted: the shadow
\* or the operator has released it and the peak was reseeded.
SuspensionHolds == pc = "admitted" => owed = "none"

\* A release the operator did not order rests on enough distinct rounds bet by
\* the shadow since the breaker fired, and on no loss over them.
ReleaseHasEvidence ==
    pc = "unpause" /\ owed = "owed" =>
        /\ Cardinality(evidence) >= MinFires
        /\ Cardinality({r \in evidence : r[2] > 0}) >= Cardinality({r \in evidence : r[2] < 0})

\* The shadow counts every distinct round settled since the breaker fired, once,
\* also over a restart; while the breaker is firing it has not started yet.
EvidenceIsExact ==
    shadow.active /\ owed = "owed" /\ pc # "shadowStart" =>
        shadow.settled = Cardinality(evidence)

\* However the stakes in flight end, the balance stays above the threshold of
\* the true rolling peak, less one stake.
EpisodeLossIsBounded ==
    (wallet + Stake) * TripDen > (TripDen - TripNum) * PeakBankroll(truth, anchor)
=============================================================================
