---------------------------- MODULE StoreProofs ----------------------------
(***************************************************************************)
(* Safety of Store for every set of envelopes, conflicts and tasks.        *)
(***************************************************************************)
EXTENDS Store, TLAPS

LEMMA TaskShape ==
    ASSUME NEW w \in TaskStates
    PROVE  /\ w.op = "sweep" => w.stale \subseteq Envelopes
           /\ w.op = "escalate" =>
                  /\ w.conflict \in Conflicts
                  /\ w.side \in {1, 2}
                  /\ w.conflict[1] \in Envelopes
                  /\ w.conflict[2] \in Envelopes
                  /\ w.conflict[w.side] \in Sides(w.conflict)
  BY StoreAssumption DEF TaskStates, NoTask, Sides

LEMMA TypeInvariant == Spec => []TypeOK
<1> USE StoreAssumption
<1>1. Init => TypeOK
  BY DEF Init, TypeOK, TaskStates
<1>2. TypeOK /\ [Next]_vars => TypeOK'
  <2> SUFFICES ASSUME TypeOK, [Next]_vars
               PROVE  TypeOK'
    OBVIOUS
  <2> USE DEF TypeOK, Become, SetSettlementStatus
  <2>s. {"Queued", "Failed", "Disputed"} \subseteq Statuses
    BY DEF Statuses
  <2>n. NoTask \in TaskStates
    BY DEF TaskStates
  <2>1. ASSUME NEW e \in Envelopes, Enqueue(e)
        PROVE  TypeOK'
    BY <2>1, <2>s DEF Enqueue
  <2>2. ASSUME NEW updates \in Batches, SetSettlementStatusBatch(updates)
        PROVE  TypeOK'
    <3>1. \A e \in DOMAIN updates : updates[e] \in Statuses
      BY DEF Batches
    <3> QED BY <2>2, <3>1 DEF SetSettlementStatusBatch
  <2>3. ASSUME NEW id \in DOMAIN escalations, MarkEscalationSubmitted(id)
        PROVE  TypeOK'
    <3>1. escalations[id] \in Escalation
      OBVIOUS
    <3>2. [escalations[id] EXCEPT !.submitted = TRUE] \in Escalation
      BY <3>1 DEF Escalation
    <3> QED BY <2>3, <3>2 DEF MarkEscalationSubmitted
  <2>4. ASSUME NEW t \in Tasks, NEW stale \in SUBSET Envelopes, ReadStale(t, stale)
        PROVE  TypeOK'
    BY <2>4 DEF ReadStale, TaskStates
  <2>5. ASSUME NEW t \in Tasks, NEW e \in Envelopes, FailStale(t, e)
        PROVE  TypeOK'
    <3>1. [task[t] EXCEPT !.stale = @ \ {e}] \in TaskStates
      BY <2>5 DEF FailStale, TaskStates, NoTask
    <3> QED BY <2>5, <2>s, <3>1 DEF FailStale
  <2>6. ASSUME NEW t \in Tasks, EndSweep(t) \/ Abandon(t)
        PROVE  TypeOK'
    BY <2>6, <2>n DEF EndSweep, Abandon
  <2>7. ASSUME NEW t \in Tasks, NEW c \in Conflicts, InsertEscalation(t, c)
        PROVE  TypeOK'
    <3>1. [op |-> "escalate", conflict |-> c, side |-> 1] \in TaskStates
      BY DEF TaskStates
    <3>2. [conflict |-> c, submitted |-> FALSE] \in Escalation
      BY DEF Escalation
    <3> QED BY <2>7, <3>1, <3>2 DEF InsertEscalation
  <2>8. ASSUME NEW t \in Tasks, DisputeSide(t)
        PROVE  TypeOK'
    <3>1. [task[t] EXCEPT !.side = 2] \in TaskStates
      BY <2>8 DEF DisputeSide, TaskStates, NoTask
    <3> QED BY <2>8, <2>n, <2>s, <3>1 DEF DisputeSide
  <2>9. CASE Crash
    BY <2>9, <2>n DEF Crash
  <2>10. CASE UNCHANGED vars
    BY <2>10 DEF vars
  <2> QED BY <2>1, <2>2, <2>3, <2>4, <2>5, <2>6, <2>7, <2>8, <2>9, <2>10
          DEF Next, TaskStep
<1> QED BY <1>1, <1>2, PTL DEF Spec

-----------------------------------------------------------------------------
\* save_escalation under way has stored its row.
UnderWayIsStored ==
    \A t \in Tasks : task[t].op = "escalate" =>
        \E id \in DOMAIN escalations : escalations[id].conflict = task[t].conflict

EscalationInv == DisputeIsEscalated /\ UnderWayIsStored

\* Rows are appended and marked, never removed, and keep their conflict.
LEMMA RowsStay ==
    ASSUME TypeOK, [Next]_vars, NEW id \in DOMAIN escalations
    PROVE  /\ id \in DOMAIN escalations'
           /\ escalations'[id].conflict = escalations[id].conflict
<1> USE DEF TypeOK
<1>1. CASE UNCHANGED escalations
  BY <1>1
<1>2. ASSUME NEW k \in DOMAIN escalations, MarkEscalationSubmitted(k)
      PROVE  /\ id \in DOMAIN escalations'
             /\ escalations'[id].conflict = escalations[id].conflict
  <2>1. escalations[k] \in Escalation
    OBVIOUS
  <2> QED BY <1>2, <2>1 DEF MarkEscalationSubmitted, Escalation
<1>3. ASSUME NEW t \in Tasks, NEW c \in Conflicts, InsertEscalation(t, c)
      PROVE  /\ id \in DOMAIN escalations'
             /\ escalations'[id].conflict = escalations[id].conflict
  <2>1. [conflict |-> c, submitted |-> FALSE] \in Escalation
    BY DEF Escalation
  <2> QED BY <1>3, <2>1 DEF InsertEscalation
<1> QED BY <1>1, <1>2, <1>3
        DEF Next, TaskStep, vars, Enqueue, SetSettlementStatusBatch, ReadStale,
            FailStale, EndSweep, DisputeSide, Abandon, Crash

LEMMA EscalationInvariant == Spec => []EscalationInv
<1> USE StoreAssumption
<1>1. Init => EscalationInv
  BY DEF Init, EscalationInv, DisputeIsEscalated, UnderWayIsStored, NoTask, NoStatus
<1>2. TypeOK /\ EscalationInv /\ [Next]_vars => EscalationInv'
  <2> SUFFICES ASSUME TypeOK, EscalationInv, [Next]_vars
               PROVE  EscalationInv'
    OBVIOUS
  <2> USE DEF TypeOK, EscalationInv, Become, SetSettlementStatus
  <2> NoTask.op = "none"
    BY DEF NoTask
  <2>e. \A e \in Envelopes : Escalated(e) => Escalated(e)'
    BY RowsStay DEF Escalated
  <2>u. \A t \in Tasks :
            task'[t] = task[t] \/ task'[t].op # "escalate"
            \/ (task[t].op = "escalate" /\ task'[t].conflict = task[t].conflict)
            => (task'[t].op = "escalate" =>
                   \E id \in DOMAIN escalations' :
                       escalations'[id].conflict = task'[t].conflict)
    BY RowsStay DEF UnderWayIsStored
  <2>1. ASSUME NEW e \in Envelopes, Enqueue(e)
        PROVE  EscalationInv'
    BY <2>1, <2>e, <2>u DEF Enqueue, DisputeIsEscalated, UnderWayIsStored
  <2>2. ASSUME NEW updates \in Batches, SetSettlementStatusBatch(updates)
        PROVE  EscalationInv'
    <3>1. \A e \in DOMAIN updates : updates[e] # "Disputed"
      BY DEF Batches
    <3>2. \A e \in Envelopes : status'[e] = "Disputed" => status[e] = "Disputed"
      BY <2>2, <3>1 DEF SetSettlementStatusBatch
    <3> QED BY <2>2, <2>e, <2>u, <3>2
            DEF SetSettlementStatusBatch, DisputeIsEscalated, UnderWayIsStored
  <2>3. ASSUME NEW id \in DOMAIN escalations, MarkEscalationSubmitted(id)
        PROVE  EscalationInv'
    BY <2>3, <2>e, <2>u
    DEF MarkEscalationSubmitted, DisputeIsEscalated, UnderWayIsStored
  <2>4. ASSUME NEW t \in Tasks, NEW stale \in SUBSET Envelopes, ReadStale(t, stale)
        PROVE  EscalationInv'
    BY <2>4, <2>e, <2>u DEF ReadStale, DisputeIsEscalated, UnderWayIsStored
  <2>5. ASSUME NEW t \in Tasks, NEW e \in Envelopes, FailStale(t, e)
        PROVE  EscalationInv'
    <3>1. task[t].op = "sweep" /\ task'[t].op = "sweep"
      BY <2>5 DEF FailStale, TaskStates, NoTask
    <3> QED BY <2>5, <2>e, <2>u, <3>1
            DEF FailStale, DisputeIsEscalated, UnderWayIsStored
  <2>6. ASSUME NEW t \in Tasks, EndSweep(t) \/ Abandon(t)
        PROVE  EscalationInv'
    BY <2>6, <2>e, <2>u DEF EndSweep, Abandon, DisputeIsEscalated, UnderWayIsStored
  <2>7. ASSUME NEW t \in Tasks, NEW c \in Conflicts, InsertEscalation(t, c)
        PROVE  EscalationInv'
    <3>1. DisputeIsEscalated'
      BY <2>7, <2>e DEF InsertEscalation, DisputeIsEscalated
    <3>2. /\ Len(escalations) + 1 \in DOMAIN escalations'
          /\ escalations'[Len(escalations) + 1].conflict = c
      <4>1. [conflict |-> c, submitted |-> FALSE] \in Escalation
        BY DEF Escalation
      <4> QED BY <2>7, <4>1 DEF InsertEscalation
    <3>3. task'[t].conflict = c /\ \A u \in Tasks : u # t => task'[u] = task[u]
      BY <2>7 DEF InsertEscalation
    <3> QED BY <2>u, <3>1, <3>2, <3>3 DEF UnderWayIsStored
  <2>8. ASSUME NEW t \in Tasks, DisputeSide(t)
        PROVE  EscalationInv'
    <3>1. /\ task[t].conflict \in Conflicts
          /\ task[t].conflict[task[t].side] \in Sides(task[t].conflict)
          /\ \E id \in DOMAIN escalations :
                 escalations[id].conflict = task[t].conflict
      BY <2>8, TaskShape DEF DisputeSide, UnderWayIsStored
    <3>2. PICK e \in Envelopes : e = task[t].conflict[task[t].side]
      BY <2>8, TaskShape DEF DisputeSide
    <3>3. Escalated(e)
      BY <3>1, <3>2 DEF Escalated
    <3>4. \A f \in Envelopes : f # e => status'[f] = status[f]
      BY <2>8, <3>2 DEF DisputeSide
    <3>5. DisputeIsEscalated'
      BY <2>e, <3>3, <3>4 DEF DisputeIsEscalated
    <3>6. \A u \in Tasks : \/ task'[u] = task[u]
                           \/ task'[u].op # "escalate"
                           \/ /\ task[u].op = "escalate"
                              /\ task'[u].conflict = task[u].conflict
      BY <2>8 DEF DisputeSide, TaskStates, NoTask
    <3> QED BY <2>u, <3>5, <3>6 DEF UnderWayIsStored
  <2>9. CASE Crash
    BY <2>9, <2>e, <2>u DEF Crash, DisputeIsEscalated, UnderWayIsStored
  <2>10. CASE UNCHANGED vars
    BY <2>10, <2>e, <2>u DEF vars, DisputeIsEscalated, UnderWayIsStored
  <2> QED BY <2>1, <2>2, <2>3, <2>4, <2>5, <2>6, <2>7, <2>8, <2>9, <2>10
          DEF Next, TaskStep
<1> QED BY <1>1, <1>2, TypeInvariant, PTL DEF Spec

\* However save_escalation is interrupted and whatever runs beside it, no
\* envelope is Disputed without an escalation a relay can submit.
THEOREM DisputesAreEscalated == Spec => []DisputeIsEscalated
BY EscalationInvariant, PTL DEF EscalationInv

\* Sweeps, escalations, batches and crashes, in any interleaving, never put an
\* envelope back to Queued.
THEOREM NothingIsRequeued == Spec => NeverRequeued
<1>1. TypeOK /\ [Next]_vars =>
      [\A e \in Envelopes :
           status'[e] = "Queued" => status[e] \in {NoStatus, "Queued"}]_vars
  <2> SUFFICES ASSUME TypeOK, Next, NEW e \in Envelopes, status'[e] = "Queued"
               PROVE  status[e] \in {NoStatus, "Queued"}
    OBVIOUS
  <2> USE DEF TypeOK, SetSettlementStatus
  <2>1. CASE UNCHANGED status
    BY <2>1
  <2>2. ASSUME NEW f \in Envelopes, Enqueue(f)
        PROVE  status[e] \in {NoStatus, "Queued"}
    BY <2>2 DEF Enqueue
  <2>3. ASSUME NEW updates \in Batches, SetSettlementStatusBatch(updates)
        PROVE  status[e] \in {NoStatus, "Queued"}
    BY <2>3 DEF SetSettlementStatusBatch, CanTransition, LegalTransitions
  <2>4. ASSUME NEW t \in Tasks, NEW f \in Envelopes, FailStale(t, f)
        PROVE  status[e] \in {NoStatus, "Queued"}
    BY <2>4 DEF FailStale
  <2>5. ASSUME NEW t \in Tasks, DisputeSide(t)
        PROVE  status[e] \in {NoStatus, "Queued"}
    BY <2>5 DEF DisputeSide
  <2> QED BY <2>1, <2>2, <2>3, <2>4, <2>5
          DEF Next, TaskStep, MarkEscalationSubmitted, ReadStale, EndSweep,
              InsertEscalation, Abandon, Crash
<1> QED BY <1>1, TypeInvariant, PTL DEF Spec, NeverRequeued

-----------------------------------------------------------------------------
(* How a Settled envelope can lose its status: the two writes that ask     *)
(* nothing of the stored one meet it in two ways, and in no other.         *)

\* An envelope settles while a sweep that read it as unfinished still runs.
SettlesUnderSweep ==
    \E t \in Tasks : /\ task[t].op = "sweep"
                     /\ \E e \in task[t].stale :
                            status[e] # "Settled" /\ status'[e] = "Settled"

\* save_escalation disputes an envelope that has settled.
SettledIsDisputed ==
    \E t \in Tasks : /\ DisputeSide(t)
                     /\ status[task[t].conflict[task[t].side]] = "Settled"

SweepsSpareSettled ==
    \A t \in Tasks : task[t].op = "sweep" =>
        \A e \in task[t].stale : status[e] # "Settled"

\* Unless an envelope settles under a sweep, every step keeps Settled out of what is swept.
LEMMA SweepInvariant ==
    Spec /\ [][~ SettlesUnderSweep]_vars => []SweepsSpareSettled
<1>1. Init => SweepsSpareSettled
  BY DEF Init, SweepsSpareSettled, NoTask
<1>2. /\ TypeOK /\ SweepsSpareSettled /\ [Next]_vars /\ [~ SettlesUnderSweep]_vars
      => SweepsSpareSettled'
  <2> SUFFICES ASSUME TypeOK, SweepsSpareSettled, [Next]_vars,
                      [~ SettlesUnderSweep]_vars,
                      NEW t \in Tasks, task'[t].op = "sweep",
                      NEW e \in task'[t].stale
               PROVE  status'[e] # "Settled"
    BY DEF SweepsSpareSettled
  <2> USE DEF TypeOK, Become
  <2> NoTask.op = "none"
    BY DEF NoTask
  <2>1. CASE UNCHANGED vars
    BY <2>1 DEF vars, SweepsSpareSettled
  <2>2. CASE task[t].op = "sweep" /\ e \in task[t].stale
    BY <2>1, <2>2 DEF SweepsSpareSettled, SettlesUnderSweep
  <2>3. ASSUME NEW u \in Tasks, NEW stale \in SUBSET Envelopes, ReadStale(u, stale)
        PROVE  status'[e] # "Settled"
    <3>1. CASE u = t
      BY <2>3, <3>1 DEF ReadStale, Unfinished
    <3> QED BY <2>2, <2>3, <3>1 DEF ReadStale
  <2>4. ASSUME NEW u \in Tasks, NEW f \in Envelopes, FailStale(u, f)
        PROVE  status'[e] # "Settled"
    <3>1. task[u] \in [op: {"sweep"}, stale: SUBSET Envelopes]
      BY <2>4 DEF FailStale, TaskStates
    <3>2. task[t].op = "sweep" /\ e \in task[t].stale
      BY <2>4, <3>1 DEF FailStale
    <3> QED BY <2>2, <3>2
  <2>5. ASSUME NEW u \in Tasks, EndSweep(u) \/ Abandon(u)
        PROVE  status'[e] # "Settled"
    BY <2>2, <2>5 DEF EndSweep, Abandon
  <2>6. ASSUME NEW u \in Tasks, NEW c \in Conflicts, InsertEscalation(u, c)
        PROVE  status'[e] # "Settled"
    BY <2>2, <2>6 DEF InsertEscalation
  <2>7. ASSUME NEW u \in Tasks, DisputeSide(u)
        PROVE  status'[e] # "Settled"
    <3>1. task[u] \in [op: {"escalate"}, conflict: Conflicts, side: {1, 2}]
      BY <2>7 DEF DisputeSide, TaskStates
    <3>2. task'[u].op # "sweep"
      BY <2>7, <3>1 DEF DisputeSide
    <3> QED BY <2>2, <2>7, <3>2 DEF DisputeSide
  <2>8. CASE Crash
    BY <2>8 DEF Crash
  <2>9. ASSUME UNCHANGED task
        PROVE  status'[e] # "Settled"
    BY <2>2, <2>9
  <2> QED BY <2>1, <2>3, <2>4, <2>5, <2>6, <2>7, <2>8, <2>9
          DEF Next, TaskStep, Enqueue, SetSettlementStatusBatch,
              MarkEscalationSubmitted
<1> QED BY <1>1, <1>2, TypeInvariant, PTL DEF Spec

\* sweep_stale_envelopes and save_escalation write a status without asking for
\* the stored one.  Still a Settled envelope only loses its status when it
\* settled while a sweep that had read it was under way, or when it is disputed
\* although it has settled; batches, crashes and everything else respect it.
THEOREM OnlyRacesUnsettle ==
    Spec /\ [][~ SettlesUnderSweep]_vars /\ [][~ SettledIsDisputed]_vars
    => SettledIsTerminal
<1>1. /\ TypeOK /\ SweepsSpareSettled /\ [Next]_vars /\ [~ SettledIsDisputed]_vars
      => [\A e \in Envelopes :
              status[e] = "Settled" => status'[e] = "Settled"]_vars
  <2> SUFFICES ASSUME TypeOK, SweepsSpareSettled, Next, [~ SettledIsDisputed]_vars,
                      NEW e \in Envelopes, status[e] = "Settled"
               PROVE  status'[e] = "Settled"
    OBVIOUS
  <2> USE DEF TypeOK, SetSettlementStatus
  <2>1. CASE UNCHANGED status
    BY <2>1
  <2>2. ASSUME NEW f \in Envelopes, Enqueue(f)
        PROVE  status'[e] = "Settled"
    BY <2>2 DEF Enqueue, NoStatus
  <2>3. ASSUME NEW updates \in Batches, SetSettlementStatusBatch(updates)
        PROVE  status'[e] = "Settled"
    BY <2>3 DEF SetSettlementStatusBatch, CanTransition, LegalTransitions
  <2>4. ASSUME NEW t \in Tasks, NEW f \in Envelopes, FailStale(t, f)
        PROVE  status'[e] = "Settled"
    BY <2>4 DEF FailStale, SweepsSpareSettled
  <2>5. ASSUME NEW t \in Tasks, DisputeSide(t)
        PROVE  status'[e] = "Settled"
    <3>1. CASE UNCHANGED vars
      BY <2>1, <3>1 DEF vars
    <3>2. CASE task[t].conflict[task[t].side] # e
      BY <2>5, <3>2 DEF DisputeSide
    <3> QED BY <2>5, <3>1, <3>2 DEF SettledIsDisputed
  <2> QED BY <2>1, <2>2, <2>3, <2>4, <2>5
          DEF Next, TaskStep, MarkEscalationSubmitted, ReadStale, EndSweep,
              InsertEscalation, Abandon, Crash
<1> QED BY <1>1, TypeInvariant, SweepInvariant, PTL DEF Spec, SettledIsTerminal
=============================================================================
