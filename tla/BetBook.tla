------------------------------- MODULE BetBook -------------------------------
(***************************************************************************)
(* What the bet ledger promises, without saying how it is kept: every bet  *)
(* has one fate on the chain, the book is only ever moved along the life   *)
(* cycle of bet_ledger.py, and only when the fate bears it out.  A bet     *)
(* given up as dropped may be reopened or settled if it is in after all; a *)
(* settled, void or claimed entry is final.                                *)
(***************************************************************************)
CONSTANT Bets

VARIABLES
    fate,   \* what the chain has decided about the stake of a bet
    book    \* what the operator's ledger says about it

Fates == {"unknown", "void", "staked", "won", "lost", "refundable", "paid"}
Entries == {"none", "open", "dropped", "void", "won", "lost", "refund", "claimed"}

\* The steps of a stake on the chain.
FateSteps == { <<"unknown", "staked">>, <<"unknown", "void">>,
               <<"staked", "won">>, <<"staked", "lost">>, <<"staked", "refundable">>,
               <<"won", "paid">>, <<"refundable", "paid">> }

\* The steps of an entry, each with the fates under which it may be taken.
BookSteps(f) ==
    { <<"none", "open">>, <<"none", "dropped">>, <<"open", "dropped">> }
    \cup (IF f = "void" THEN { <<"none", "void">>, <<"open", "void">> } ELSE {})
    \cup (IF f \notin {"unknown", "void"} THEN { <<"dropped", "open">> } ELSE {})
    \cup (IF f \in {"won", "paid"} THEN { <<"open", "won">>, <<"dropped", "won">> } ELSE {})
    \cup (IF f = "lost" THEN { <<"open", "lost">>, <<"dropped", "lost">> } ELSE {})
    \cup (IF f \in {"refundable", "paid"}
          THEN { <<"open", "refund">>, <<"dropped", "refund">> } ELSE {})
    \cup (IF f = "paid" THEN { <<"won", "claimed">>, <<"refund", "claimed">> } ELSE {})

TypeOK ==
    /\ fate \in [Bets -> Fates]
    /\ book \in [Bets -> Entries]

Init ==
    /\ fate = [b \in Bets |-> "unknown"]
    /\ book = [b \in Bets |-> "none"]

\* The chain moves some stakes.
ChainMoves ==
    /\ fate' \in [Bets -> Fates]
    /\ \A b \in Bets : fate'[b] = fate[b] \/ <<fate[b], fate'[b]>> \in FateSteps
    /\ UNCHANGED book

\* The bot moves some entries.
BookMoves ==
    /\ book' \in [Bets -> Entries]
    /\ \A b \in Bets :
          book'[b] = book[b] \/ <<book[b], book'[b]>> \in BookSteps(fate[b])
    /\ UNCHANGED fate

Next == ChainMoves \/ BookMoves

Spec == Init /\ [][Next]_<<fate, book>>
=============================================================================
