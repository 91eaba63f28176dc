----------------------------- MODULE Settlement -----------------------------
(***************************************************************************)
(* The settlement life cycle of one envelope: the enum SettlementStatus    *)
(* and the table of legal moves that src/settlement/tracker.rs decides.    *)
(* Every module that stores or checks a status shares these definitions.   *)
(***************************************************************************)

Statuses == {"Queued", "Propagating", "Settled", "Failed", "Disputed"}

\* "no row" in settlement_status, or "not tracked" in the in-memory tracker
NoStatus == "None"

LegalTransitions ==
    {<<"Queued", "Propagating">>, <<"Queued", "Failed">>,
     <<"Propagating", "Settled">>, <<"Propagating", "Failed">>,
     <<"Propagating", "Disputed">>,
     <<"Disputed", "Settled">>, <<"Disputed", "Failed">>,
     <<"Failed", "Propagating">>}

CanTransition(from, to) == <<from, to>> \in LegalTransitions

\* SettlementTracker::transition: an untracked envelope or an illegal move is
\* an error and leaves the map as it was.
Transition(tracked, id, next) ==
    IF CanTransition(tracked[id], next)
    THEN [tracked EXCEPT ![id] = next]
    ELSE tracked
=============================================================================
