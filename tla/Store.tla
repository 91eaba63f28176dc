------------------------------- MODULE Store -------------------------------
(***************************************************************************)
(* SyncEngineDb of src/storage/db.rs as several tasks share it, an Arc of  *)
(* it each: a closure sent to the one database thread is atomic, but the   *)
(* stale sweep and saving an escalation are sequences of such closures,    *)
(* with those of other tasks in between.                                   *)
(***************************************************************************)
EXTENDS Settlement, Integers, Sequences

CONSTANTS Envelopes,
          Conflicts,          \* detected pairs <<envelope_a, envelope_b>>
          Tasks,
          BatchStatuses,      \* what relays report in batches
          MaxEscalations      \* bound on dispute_escalations rows

ASSUME StoreAssumption ==
    /\ Conflicts \subseteq Envelopes \X Envelopes
    /\ BatchStatuses \subseteq Statuses \ {"Disputed"}
    /\ MaxEscalations \in Nat

VARIABLES
    status,           \* settlement_status, NoStatus where there is no row
    escalations,      \* dispute_escalations rows in the order of their ids
    task              \* what each task still has to do

vars == <<status, escalations, task>>

Escalation == [conflict: Conflicts, submitted: BOOLEAN]

NoTask == [op |-> "none"]

TaskStates == {NoTask}
    \cup [op: {"sweep"}, stale: SUBSET Envelopes]
    \cup [op: {"escalate"}, conflict: Conflicts, side: {1, 2}]

Init == /\ status = [e \in Envelopes |-> NoStatus]
        /\ escalations = <<>>
        /\ task = [t \in Tasks |-> NoTask]

Become(t, state) == task' = [task EXCEPT ![t] = state]

\* the write of set_settlement_status: it asks nothing of the stored status
SetSettlementStatus(e, s) == status' = [status EXCEPT ![e] = s]

-----------------------------------------------------------------------------
(* Single transactions.                                                    *)

\* enqueue_transaction; message ids are never used twice
Enqueue(e) ==
    /\ status[e] = NoStatus
    /\ status' = [status EXCEPT ![e] = "Queued"]
    /\ UNCHANGED <<escalations, task>>

\* Bug: a batch update is applied without validating it.
ApplyAll(updates) ==
    /\ status' = [e \in Envelopes |->
          IF e \in DOMAIN updates THEN updates[e] ELSE status[e]]
    /\ UNCHANGED <<escalations, task>>

\* set_settlement_status_batch: legal moves are applied, the others rejected.
\* A batch names an envelope at most once.
SetSettlementStatusBatch(updates) ==
    /\ status' = [e \in Envelopes |->
          IF e \in DOMAIN updates /\ CanTransition(status[e], updates[e])
          THEN updates[e] ELSE status[e]]
    /\ UNCHANGED <<escalations, task>>

\* Bug: a relay picks up the newest row only.
SubmitNewest(id) ==
    /\ id = Len(escalations)
    /\ ~ escalations[id].submitted
    /\ escalations' = [escalations EXCEPT ![id].submitted = TRUE]
    /\ UNCHANGED <<status, task>>

\* a relay with connectivity submitted a row of list_pending_escalations
MarkEscalationSubmitted(id) ==
    /\ ~ escalations[id].submitted
    /\ escalations' = [escalations EXCEPT ![id].submitted = TRUE]
    /\ UNCHANGED <<status, task>>

-----------------------------------------------------------------------------
(* sweep_stale_envelopes: one SELECT, then one write per row it returned.  *)

Unfinished == {e \in Envelopes : status[e] \in {"Queued", "Propagating"}}

\* Which of the unfinished envelopes have a queued_envelopes row older than
\* the cutoff is left open.
ReadStale(t, stale) ==
    /\ task[t] = NoTask
    /\ stale \subseteq Unfinished
    /\ Become(t, [op |-> "sweep", stale |-> stale])
    /\ UNCHANGED <<status, escalations>>

FailStale(t, e) ==
    /\ task[t].op = "sweep"
    /\ e \in task[t].stale
    /\ SetSettlementStatus(e, "Failed")
    /\ Become(t, [task[t] EXCEPT !.stale = @ \ {e}])
    /\ UNCHANGED escalations

EndSweep(t) ==
    /\ task[t].op = "sweep"
    /\ task[t].stale = {}
    /\ Become(t, NoTask)
    /\ UNCHANGED <<status, escalations>>

-----------------------------------------------------------------------------
(* save_escalation: the row, then Disputed on envelope_a, on envelope_b.   *)

\* Bug: envelope_a is disputed before the escalation is stored.
DisputeBeforeInsert(t, c) ==
    /\ task[t] = NoTask
    /\ Len(escalations) < MaxEscalations
    /\ SetSettlementStatus(c[1], "Disputed")
    /\ Become(t, [op |-> "escalate", conflict |-> c, side |-> 2])
    /\ UNCHANGED escalations

InsertEscalation(t, c) ==
    /\ task[t] = NoTask
    /\ Len(escalations) < MaxEscalations
    /\ escalations' = Append(escalations, [conflict |-> c, submitted |-> FALSE])
    /\ Become(t, [op |-> "escalate", conflict |-> c, side |-> 1])
    /\ UNCHANGED status

DisputeSide(t) ==
    LET c == task[t].conflict
        n == task[t].side IN
    /\ task[t].op = "escalate"
    /\ SetSettlementStatus(c[n], "Disputed")
    /\ Become(t, IF n = 1 THEN [task[t] EXCEPT !.side = 2] ELSE NoTask)
    /\ UNCHANGED escalations

-----------------------------------------------------------------------------
(* Interruptions.                                                          *)

\* A statement fails and `?` returns, or the task's future is dropped between
\* two statements: what is left to do is not done.
Abandon(t) ==
    /\ task[t] # NoTask
    /\ Become(t, NoTask)
    /\ UNCHANGED <<status, escalations>>

\* The process dies and every task with it; the tables stay.
Crash ==
    /\ \E t \in Tasks : task[t] # NoTask
    /\ task' = [t \in Tasks |-> NoTask]
    /\ UNCHANGED <<status, escalations>>

-----------------------------------------------------------------------------
Batches == UNION {[named -> BatchStatuses] : named \in SUBSET Envelopes}

TaskStep(t) ==
    \/ \E stale \in SUBSET Envelopes : ReadStale(t, stale)
    \/ \E e \in Envelopes : FailStale(t, e)
    \/ EndSweep(t)
    \/ \E c \in Conflicts : InsertEscalation(t, c)
    \/ DisputeSide(t)
    \/ Abandon(t)

Next ==
    \/ \E e \in Envelopes : Enqueue(e)
    \/ \E updates \in Batches : SetSettlementStatusBatch(updates)
    \/ \E id \in DOMAIN escalations : MarkEscalationSubmitted(id)
    \/ \E t \in Tasks : TaskStep(t)
    \/ Crash

Spec == Init /\ [][Next]_vars

\* A relay with connectivity comes by again and again and submits what
\* list_pending_escalations gives it.
FairSpec ==
    Spec /\ \A id \in 1 .. MaxEscalations :
               WF_vars(id \in DOMAIN escalations /\ MarkEscalationSubmitted(id))

-----------------------------------------------------------------------------
(* Properties                                                              *)

\* Types: every row and every task's work list is well formed.
TypeOK ==
    /\ status \in [Envelopes -> Statuses \cup {NoStatus}]
    /\ escalations \in Seq(Escalation)
    /\ task \in [Tasks -> TaskStates]

Sides(c) == {c[1], c[2]}

Escalated(e) == \E id \in DOMAIN escalations : e \in Sides(escalations[id].conflict)

\* A Disputed envelope is always named by a stored escalation, however
\* save_escalation was interrupted: it is never blocked with nothing left
\* for a relay to submit (save_escalation, db.rs:1103).
DisputeIsEscalated ==
    \A e \in Envelopes : status[e] = "Disputed" => Escalated(e)

\* No interleaving of sweeps, escalations and batches puts an envelope
\* back to Queued, where the next open would dispatch it again (engine.rs:108).
NeverRequeued ==
    [][\A e \in Envelopes :
           status'[e] = "Queued" => status[e] \in {NoStatus, "Queued"}]_vars

\* Every dispute reaches the chain: an envelope that is Disputed is named by
\* an escalation that has been, or will be, submitted.
EveryDisputeIsSubmitted ==
    \A e \in Envelopes :
        status[e] = "Disputed" ~>
            \E id \in DOMAIN escalations :
                /\ e \in Sides(escalations[id].conflict)
                /\ escalations[id].submitted

\* The sweep "ignores already terminal envelopes" (the test at db.rs:1957),
\* and "Settled: Confirmed on-chain (terminal)" (spec/settlement.tla:9).
SettledIsTerminal ==
    [][\A e \in Envelopes :
           status[e] = "Settled" => status'[e] = "Settled"]_vars
=============================================================================
