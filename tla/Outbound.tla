------------------------------ MODULE Outbound -----------------------------
(***************************************************************************)
(* The path of a payment out of a wallet: OutboundTxQueue with its         *)
(* Emergency guard (queue/priority.rs), the DispatchWindow of a relay      *)
(* session (queue/dispatch.rs) and the clock both read (clock.rs).         *)
(* Dispatcher tasks follow the acknowledgment contract of dispatch.rs; the *)
(* wallet stores what it admits and, after a restart, replays every stored *)
(* row as priority.rs asks, with a clock that may have moved either way.   *)
(***************************************************************************)
EXTENDS Integers, Sequences, SequencesExt, FiniteSetsExt

CONSTANTS Envelopes,
          PriorityOf,      \* the TxPriority each is queued with
          Tasks,           \* the dispatcher tasks of one relay session
          MaxCount,        \* EmergencyGuardConfig: at most so many
          Window,          \*   within so many seconds
          MaxInFlight,     \* DispatchWindow: capacity
          Timeout,         \*   and seconds until a slot expires
          MaxTime          \* bound on the clock

Low == 0
Normal == 1
Emergency == 2

\* DispatchWindow::new refuses a window of no slots and a zero timeout
ASSUME OutboundAssumption ==
    /\ IsFiniteSet(Envelopes)
    /\ PriorityOf \in [Envelopes -> {Low, Normal, Emergency}]
    /\ MaxCount \in Nat /\ Window \in Nat
    /\ MaxInFlight \in Nat \ {0} /\ Timeout \in Nat \ {0}
    /\ MaxTime \in Nat

None == "none"
ASSUME NoneAssumption == None \notin Envelopes

VARIABLES
    now,        \* what the clock says
    rows,       \* stored envelopes: when they were enqueued and how far they got
    heap,       \* the in-memory queue
    history,    \* the guard's admission times, oldest admission first
    inFlight,   \* occupied slots and when they were taken
    held        \* the envelope each task popped and has no slot for yet

vars == <<now, rows, heap, history, inFlight, held>>

Times   == 0..MaxTime
Stored  == [at : Times, status : {"Queued", "Propagating", "Acknowledged"}]
Entries == [id : Envelopes, at : Times]
Slots   == UNION {[S -> Times] : S \in SUBSET Envelopes}

TypeOK ==
    /\ now \in Times
    /\ rows \in UNION {[S -> Stored] : S \in SUBSET Envelopes}
    /\ heap \in SUBSET Entries
    /\ history \in Seq(Times)
    /\ inFlight \in Slots
    /\ held \in [Tasks -> Envelopes \cup {None}]

-----------------------------------------------------------------------------
\* elapsed_since, and every saturating_sub of a time: a time in the future
\* has just passed
ElapsedSince(t) == IF now >= t THEN now - t ELSE 0

Emergencies == {e \in DOMAIN rows : PriorityOf[e] = Emergency}

\* Ord for QueuedTx
Before(x, y) ==
    \/ PriorityOf[x.id] > PriorityOf[y.id]
    \/ PriorityOf[x.id] = PriorityOf[y.id] /\ x.at < y.at

\* the entries a max-heap may serve first: equal ones in any order
Tops(queue) == {x \in queue : \A y \in queue : ~Before(y, x)}

\* EmergencyGuard::prune: from the front, up to the first that is recent
Prune(hist) ==
    LET recent == {i \in DOMAIN hist : ElapsedSince(hist[i]) < Window}
    IN IF recent = {} THEN <<>> ELSE SubSeq(hist, Min(recent), Len(hist))

\* DispatchWindow::sweep_expired
SweepExpired(slots) ==
    [e \in {f \in DOMAIN slots : ElapsedSince(slots[f]) < Timeout} |-> slots[e]]

WithRow(e, row) ==
    [f \in DOMAIN rows \cup {e} |-> IF f = e THEN row ELSE rows[f]]

\* the slots when e takes one, and the rows when it is sent
Taken(slots, e) ==
    [f \in DOMAIN slots \cup {e} |-> IF f = e THEN now ELSE slots[f]]

Sent(e) == WithRow(e, [rows[e] EXCEPT !.status =
                          IF @ = "Queued" THEN "Propagating" ELSE @])

Without(slots, e) == [f \in DOMAIN slots \ {e} |-> slots[f]]

-----------------------------------------------------------------------------
Init ==
    /\ now \in Times
    /\ rows = [e \in {} |-> 0]
    /\ heap = {}
    /\ history = <<>>
    /\ inFlight = [e \in {} |-> 0]
    /\ held = [t \in Tasks |-> None]

\* push and push_at of a new payment, and its row: an Emergency payment is
\* refused when the guard is full, and the guard forgets what it pruned.
Push(e) ==
    /\ e \notin DOMAIN rows
    /\ LET kept == Prune(history)
           full == Len(kept) >= MaxCount
       IN IF PriorityOf[e] = Emergency /\ full
          THEN history' = kept /\ UNCHANGED <<rows, heap>>
          ELSE /\ history' = IF PriorityOf[e] = Emergency
                             THEN Append(kept, now) ELSE history
               /\ heap' = heap \cup {[id |-> e, at |-> now]}
               /\ rows' = WithRow(e, [at |-> now, status |-> "Queued"])
    /\ UNCHANGED <<now, inFlight, held>>

\* A task looks whether there is capacity (is_at_capacity sweeps) and takes
\* the top of the queue; a replayed payment that already left is dropped.
Pop(t) ==
    /\ held[t] = None
    /\ inFlight' = SweepExpired(inFlight)
    /\ Cardinality(DOMAIN inFlight') < MaxInFlight
    /\ \E x \in Tops(heap) :
        /\ heap' = heap \ {x}
        /\ held' = [held EXCEPT ![t] =
              IF rows[x.id].status = "Queued" THEN x.id ELSE None]
    /\ UNCHANGED <<now, rows, history>>

\* A task takes up a payment whose slot is gone and that was never confirmed.
Retry(t, e) ==
    /\ held[t] = None
    /\ e \in DOMAIN rows /\ rows[e].status = "Propagating"
    /\ inFlight' = SweepExpired(inFlight)
    /\ e \notin DOMAIN inFlight'
    /\ held' = [held EXCEPT ![t] = e]
    /\ UNCHANGED <<now, rows, heap, history>>

\* Bug: the slot of a message that is outstanding is simply renewed.
AcquireAgain(t) ==
    LET e == held[t]
        swept == SweepExpired(inFlight)
    IN /\ e # None
       /\ Cardinality(DOMAIN swept \cup {e}) <= MaxInFlight
       /\ inFlight' = Taken(swept, e)
       /\ rows' = Sent(e)
       /\ held' = [held EXCEPT ![t] = None]
       /\ UNCHANGED <<now, heap, history>>

\* Bug: the capacity is_at_capacity saw is relied upon.
AcquireUnchecked(t) ==
    LET e == held[t]
        swept == SweepExpired(inFlight)
    IN /\ e # None /\ e \notin DOMAIN swept
       /\ inFlight' = Taken(swept, e)
       /\ rows' = Sent(e)
       /\ held' = [held EXCEPT ![t] = None]
       /\ UNCHANGED <<now, heap, history>>

\* Bug: a popped payment that finds no slot is dropped.
AcquireOrDrop(t) ==
    LET e == held[t]
        swept == SweepExpired(inFlight)
        free == e \notin DOMAIN swept /\ Cardinality(DOMAIN swept) < MaxInFlight
    IN /\ e # None
       /\ held' = [held EXCEPT ![t] = None]
       /\ inFlight' = IF free THEN Taken(swept, e) ELSE swept
       /\ rows' = IF free THEN Sent(e) ELSE rows
       /\ UNCHANGED <<now, heap, history>>

\* try_acquire for the held payment, which is sent if it gets a slot.
TryAcquire(t) ==
    LET e == held[t]
        swept == SweepExpired(inFlight)
    IN /\ e # None
       /\ \/ /\ e \in DOMAIN swept                       \* DuplicateInFlight
             /\ inFlight' = swept
             /\ held' = [held EXCEPT ![t] = None]
             /\ UNCHANGED rows
          \/ /\ e \notin DOMAIN swept
             /\ Cardinality(DOMAIN swept) >= MaxInFlight \* BackpressureWindowFull
             /\ inFlight' = swept
             /\ UNCHANGED <<held, rows>>
          \/ /\ e \notin DOMAIN swept
             /\ Cardinality(DOMAIN swept) < MaxInFlight
             /\ inFlight' = Taken(swept, e)
             /\ rows' = Sent(e)
             /\ held' = [held EXCEPT ![t] = None]
       /\ UNCHANGED <<now, heap, history>>

\* A relay confirms a payment, late or more than once perhaps.
Acknowledge(e) ==
    /\ e \in DOMAIN rows /\ rows[e].status # "Queued"
    /\ rows' = WithRow(e, [rows[e] EXCEPT !.status = "Acknowledged"])
    /\ inFlight' = Without(inFlight, e)
    /\ UNCHANGED <<now, heap, history, held>>

\* The transport reports a hard failure for a payment.
Abandon(e) ==
    /\ e \in DOMAIN inFlight
    /\ inFlight' = Without(inFlight, e)
    /\ UNCHANGED <<now, rows, heap, history, held>>

\* release_expired of the embedder's tick loop
ReleaseExpired ==
    /\ inFlight' = SweepExpired(inFlight)
    /\ UNCHANGED <<now, rows, heap, history, held>>

\* HybridClock moves only forward while the process lives.
Tick ==
    /\ now < MaxTime
    /\ now' = now + 1
    /\ UNCHANGED <<rows, heap, history, inFlight, held>>

\* Bug: a restored entry is stamped with the time of the restart.
StampedNow(clock) == {[id |-> e, at |-> clock] : e \in DOMAIN rows}

\* restore_at of every stored row
RestoredHeap(clock) == {[id |-> e, at |-> rows[e].at] : e \in DOMAIN rows}

\* Bug: as an engine that replays only what is still Queued would.
QueuedOnly == {e \in Emergencies : rows[e].status = "Queued"}

\* the rows whose times restore_at puts into the guard's history
Replayed == Emergencies

\* The process dies and another starts, with whatever the wall clock says;
\* list_queued_envelopes asks for no order.
Restart ==
    /\ now' \in Times
    /\ heap' = RestoredHeap(now')
    /\ \E order \in SetToSeqs(Replayed) :
          history' = [i \in DOMAIN order |-> rows[order[i]].at]
    /\ inFlight' = [e \in {} |-> 0]
    /\ held' = [t \in Tasks |-> None]
    /\ UNCHANGED rows

Next ==
    \/ \E e \in Envelopes : Push(e) \/ Acknowledge(e) \/ Abandon(e)
    \/ \E t \in Tasks : Pop(t) \/ TryAcquire(t)
    \/ \E t \in Tasks, e \in Envelopes : Retry(t, e)
    \/ ReleaseExpired
    \/ Tick
    \/ Restart

Spec == Init /\ [][Next]_vars

-----------------------------------------------------------------------------
\* However often the process restarts and wherever its clock goes, no span
\* of Window seconds contains more than MaxCount admitted Emergency
\* payments (priority.rs: a forced restart cannot reset the counter).
EmergencyBound == \A e \in Emergencies :
    Cardinality({f \in Emergencies :
        rows[f].at <= rows[e].at /\ rows[e].at - rows[f].at < Window}) <= MaxCount

\* A relay session never has more payments outstanding than its window,
\* whatever its tasks checked before they popped.
WindowBound == Cardinality(DOMAIN inFlight) <= MaxInFlight

\* What is stored is queued in memory, in a task's hands or was sent: a full
\* window or a crash loses no payment.
NothingForgotten == \A e \in DOMAIN rows : rows[e].status = "Queued" =>
    \/ [id |-> e, at |-> rows[e].at] \in heap
    \/ \E t \in Tasks : held[t] = e

\* A payment is sent again only when its last transmission was confirmed,
\* abandoned or timed out: a slot is never renewed while it is valid.
NoOverlappingSends == [][\A e \in DOMAIN inFlight \cap DOMAIN inFlight' :
    inFlight'[e] # inFlight[e] => ElapsedSince(inFlight[e]) >= Timeout]_vars

\* A payment leaves the queue only when no stored payment of its tier that
\* still waits is older by its own row, restarts included.
OldestOfTierFirst == [][\A t \in Tasks :
    (held[t] = None /\ held'[t] # None /\ rows[held'[t]].status = "Queued") =>
        \A e \in DOMAIN rows :
            (/\ rows[e].status = "Queued"
             /\ \A u \in Tasks : held'[u] # e
             /\ PriorityOf[e] = PriorityOf[held'[t]])
            => rows[held'[t]].at <= rows[e].at]_vars
=============================================================================
