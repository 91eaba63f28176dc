----------------------------- MODULE SyncEngine -----------------------------
(***************************************************************************)
(* The restart-safe driver of src/engine.rs: durable SQLite tables, the    *)
(* three in-memory structures rehydrated from them (sequence reservations, *)
(* outbound heap, settlement tracker), and every call that moves an        *)
(* envelope through both.  &mut self serialises the calls, so at most one  *)
(* is in flight; `call` says how far it got, and a crash, a failed write   *)
(* or a dropped future may end it there.                                   *)
(*                                                                         *)
(* An envelope is identified with the transaction it signs: the account    *)
(* and sequence encoded in the XDR, and a payload that tells two           *)
(* transactions for the same slot apart.  Its message_id is that record.   *)
(***************************************************************************)
EXTENDS Settlement, Integers

CONSTANTS Accounts, Payloads,
          MaxSequence,    \* bound on sequence numbers a wallet uses
          Priorities,     \* TxPriority tiers; the larger is served first
          OnDisk,         \* FALSE: the engine was opened on ":memory:"
          Faults,         \* faults beyond crashes and failed transactions
          Discipline      \* rules the embedding wallet keeps

ASSUME ConstantsAssumption ==
    /\ MaxSequence \in Nat
    /\ Priorities \subseteq Nat
    /\ OnDisk \in BOOLEAN
    /\ Faults \subseteq {"droppedFuture", "historyWrite"}
    /\ Discipline \subseteq {"monotoneSeed", "marksDispatched"}

Sequences == 0 .. MaxSequence
Envelopes == [account: Accounts, sequence: 1 .. MaxSequence, payload: Payloads]
QueuedTx  == [envelope: Envelopes, priority: Priorities]

NoSequence == -1      \* Option::None of a reservation, below every sequence
NoPriority == -1      \* no queued_envelopes row

VARIABLES
    \* durable: the SQLite tables
    diskReserved,     \* sequence_reservations.last_reserved per account
    diskRow,          \* priority column of each queued_envelopes row
    diskStatus,       \* settlement_status per envelope
    \* volatile
    reserved,         \* SequenceReservationManager::reserved
    heap,             \* OutboundTxQueue: number of heap entries per QueuedTx
    tracker,          \* SettlementTracker::statuses
    call,             \* the method in progress and the step it has reached
    \* history, read by properties only
    handed,           \* how often next_to_dispatch returned each envelope
    baselines         \* every baseline an account was ever seeded with

disk    == <<diskReserved, diskRow, diskStatus>>
memory  == <<reserved, heap, tracker>>
history == <<handed, baselines>>
vars    == <<disk, memory, call, history>>

Idle   == [step |-> "idle"]
Closed == [step |-> "closed"]       \* no process: only the disk exists

Calls == {Idle, Closed}
    \cup [step: {"seed"}, account: Accounts, sequence: Sequences]
    \cup [step: {"enqueue", "enqueued", "dispatch"}, tx: QueuedTx]
    \cup [step: {"mark"}, envelope: Envelopes, status: Statuses]

EmptyHeap == [tx \in QueuedTx |-> 0]
Untracked == [e \in Envelopes |-> NoStatus]

\* SyncEngine::open on a database file with no rows
Init ==
    /\ diskReserved = [a \in Accounts |-> NoSequence]
    /\ diskRow = [e \in Envelopes |-> NoPriority]
    /\ diskStatus = Untracked
    /\ reserved = [a \in Accounts |-> NoSequence]
    /\ heap = EmptyHeap
    /\ tracker = Untracked
    /\ call = Idle
    /\ handed = [e \in Envelopes |-> 0]
    /\ baselines = [a \in Accounts |-> {}]

-----------------------------------------------------------------------------
(* Rehydration.  queued_envelopes rows are never deleted by the engine: an *)
(* envelope is restored to the tracker whatever its status, and to the     *)
(* heap only while Queued.                                                 *)

RowStatus(e) == IF diskStatus[e] = NoStatus THEN "Queued" ELSE diskStatus[e]

\* Bug: open pushes every stored row, whatever its settlement status.
AnyStoredRow(tx) == diskRow[tx.envelope] = tx.priority

\* Bug: open tracks every row as freshly queued.
EverythingQueued ==
    [e \in Envelopes |-> IF diskRow[e] = NoPriority THEN NoStatus ELSE "Queued"]

RestoredTracker ==
    [e \in Envelopes |->
        IF diskRow[e] = NoPriority THEN NoStatus ELSE RowStatus(e)]

Dispatchable(tx) == /\ diskRow[tx.envelope] = tx.priority
                    /\ RowStatus(tx.envelope) = "Queued"

\* Bug: open forgets to put the Queued rows back in the heap.
NothingRestored == EmptyHeap

RestoredHeap == [tx \in QueuedTx |-> IF Dispatchable(tx) THEN 1 ELSE 0]

Open ==
    /\ call = Closed
    /\ reserved' = diskReserved
    /\ tracker' = RestoredTracker
    /\ heap' = RestoredHeap
    /\ call' = Idle
    /\ UNCHANGED <<disk, history>>

\* Battery death, eviction, reboot, or dropping the engine: at any step.  The
\* end of a ":memory:" engine is the end of its database, and of the story.
Crash ==
    /\ call # Closed
    /\ OnDisk
    /\ reserved' = [a \in Accounts |-> NoSequence]
    /\ tracker' = Untracked
    /\ heap' = EmptyHeap
    /\ call' = Closed
    /\ UNCHANGED <<disk, history>>

-----------------------------------------------------------------------------
(* seed_account: the manager is overwritten first, then the row.           *)

SeedAccount(a, n) ==
    /\ call = Idle
    /\ "monotoneSeed" \in Discipline => n >= diskReserved[a]
    /\ reserved' = [reserved EXCEPT ![a] = n]
    /\ baselines' = [baselines EXCEPT ![a] = @ \cup {n}]
    /\ call' = [step |-> "seed", account |-> a, sequence |-> n]
    /\ UNCHANGED <<disk, heap, tracker, handed>>

SaveReservation ==
    /\ call.step = "seed"
    /\ diskReserved' = [diskReserved EXCEPT ![call.account] = call.sequence]
    /\ call' = Idle
    /\ UNCHANGED <<diskRow, diskStatus, memory, history>>

SaveReservationFails ==
    /\ call.step = "seed"
    /\ call' = Idle
    /\ UNCHANGED <<disk, memory, history>>

-----------------------------------------------------------------------------
(* queue_payment                                                           *)

\* the baseline queue_payment falls back to for an unknown account
LastReserved(a) == IF reserved[a] = NoSequence THEN 0 ELSE reserved[a]

AutoSeeded(a) ==
    IF reserved[a] = NoSequence
    THEN [baselines EXCEPT ![a] = @ \cup {0}]
    ELSE baselines

\* Bug: the sequence in the XDR is not compared with the reserved one.
QueueUnchecked(tx) ==
    LET a == tx.envelope.account IN
    /\ call = Idle
    /\ reserved' = [reserved EXCEPT ![a] = LastReserved(a) + 1]
    /\ baselines' = AutoSeeded(a)
    /\ call' = [step |-> "enqueue", tx |-> tx]
    /\ UNCHANGED <<disk, heap, tracker, handed>>

\* Bug: the payment is pushed and tracked before it is stored.
QueueBeforeStoring(tx) ==
    LET a == tx.envelope.account IN
    /\ call = Idle
    /\ tx.envelope.sequence = LastReserved(a) + 1
    /\ reserved' = [reserved EXCEPT ![a] = LastReserved(a) + 1]
    /\ baselines' = AutoSeeded(a)
    /\ heap' = [heap EXCEPT ![tx] = @ + 1]
    /\ tracker' = [tracker EXCEPT ![tx.envelope] = "Queued"]
    /\ call' = [step |-> "enqueue", tx |-> tx]
    /\ UNCHANGED <<disk, handed>>

\* reserve_next agreed with the sequence in the XDR; the envelope is signed
\* and on its way to the database.
QueuePayment(tx) ==
    LET a == tx.envelope.account IN
    /\ call = Idle
    /\ tx.envelope.sequence = LastReserved(a) + 1
    /\ reserved' = [reserved EXCEPT ![a] = LastReserved(a) + 1]
    /\ baselines' = AutoSeeded(a)
    /\ call' = [step |-> "enqueue", tx |-> tx]
    /\ UNCHANGED <<disk, heap, tracker, handed>>

\* Unparsable XDR, SourceAccountMismatch or SequenceMismatch: the reservation
\* is released, only the automatic baseline remains.
QueuePaymentRejected(a) ==
    /\ call = Idle
    /\ reserved[a] = NoSequence
    /\ reserved' = [reserved EXCEPT ![a] = 0]
    /\ baselines' = AutoSeeded(a)
    /\ UNCHANGED <<disk, heap, tracker, call, handed>>

\* Bug: the transaction omits the sequence_reservations row.
EnqueueWithoutReservation(tx) ==
    /\ diskRow' = [diskRow EXCEPT ![tx.envelope] = tx.priority]
    /\ diskStatus' = [diskStatus EXCEPT ![tx.envelope] = "Queued"]
    /\ UNCHANGED diskReserved

\* enqueue_transaction: three tables in one SQLite transaction
EnqueueTransaction(tx) ==
    LET e == tx.envelope IN
    /\ diskReserved' = [diskReserved EXCEPT ![e.account] = e.sequence]
    /\ diskRow' = [diskRow EXCEPT ![e] = tx.priority]
    /\ diskStatus' = [diskStatus EXCEPT ![e] = "Queued"]

CommitEnqueue ==
    /\ call.step = "enqueue"
    /\ EnqueueTransaction(call.tx)
    /\ call' = [step |-> "enqueued", tx |-> call.tx]
    /\ UNCHANGED <<memory, history>>

\* Bug: a failed enqueue keeps its reservation.
NotReleased(a, n) == reserved

\* SequenceReservationManager::release of the sequence just reserved
Release(a, n) ==
    IF reserved[a] = n THEN [reserved EXCEPT ![a] = n - 1] ELSE reserved

EnqueueFails ==
    /\ call.step = "enqueue"
    /\ reserved' = Release(call.tx.envelope.account, call.tx.envelope.sequence)
    /\ call' = Idle
    /\ UNCHANGED <<disk, heap, tracker, history>>

\* push_at and track, then Ok(envelope)
FinishEnqueue ==
    /\ call.step = "enqueued"
    /\ heap' = [heap EXCEPT ![call.tx] = @ + 1]
    /\ tracker' = [tracker EXCEPT ![call.tx.envelope] = "Queued"]
    /\ call' = Idle
    /\ UNCHANGED <<disk, reserved, history>>

-----------------------------------------------------------------------------
(* next_to_dispatch.  Entries of equal priority are served in the order of *)
(* their enqueued_at, which is abstracted: any of them may be first.       *)

Front(tx) ==
    /\ heap[tx] > 0
    /\ \A other \in QueuedTx : heap[other] > 0 => other.priority <= tx.priority

\* open_dispatch_connection: on ":memory:" it is an empty database of its own,
\* without a settlement_status table, and its INSERT always fails.
DispatchConnectionHasTables == OnDisk

\* persist_dispatch_status succeeds; when it fails nothing changes and
\* next_to_dispatch returns None.
PersistDispatch(tx) ==
    /\ call = Idle
    /\ Front(tx)
    /\ DispatchConnectionHasTables
    /\ diskStatus' = [diskStatus EXCEPT ![tx.envelope] = "Propagating"]
    /\ call' = [step |-> "dispatch", tx |-> tx]
    /\ UNCHANGED <<diskReserved, diskRow, memory, history>>

\* pop, Transition (a refusal is only logged) and Some(envelope)
FinishDispatch ==
    LET e == call.tx.envelope IN
    /\ call.step = "dispatch"
    /\ heap' = [heap EXCEPT ![call.tx] = @ - 1]
    /\ tracker' = Transition(tracker, e, "Propagating")
    /\ handed' = [handed EXCEPT ![e] = @ + 1]
    /\ call' = Idle
    /\ UNCHANGED <<disk, reserved, baselines>>

-----------------------------------------------------------------------------
(* mark_settlement: validated against the tracker; set_settlement_status   *)
(* then commits the status row and the history row one after the other.    *)

\* Bug: the move is not validated before it is written.
MarkUnvalidated(e, s) ==
    /\ call = Idle
    /\ tracker[e] \notin {NoStatus, "Queued"}
    /\ diskStatus' = [diskStatus EXCEPT ![e] = s]
    /\ call' = [step |-> "mark", envelope |-> e, status |-> s]
    /\ UNCHANGED <<diskReserved, diskRow, memory, history>>

MarkSettlement(e, s) ==
    /\ call = Idle
    /\ CanTransition(tracker[e], s)
    /\ "marksDispatched" \in Discipline => tracker[e] # "Queued"
    /\ diskStatus' = [diskStatus EXCEPT ![e] = s]
    /\ call' = [step |-> "mark", envelope |-> e, status |-> s]
    /\ UNCHANGED <<diskReserved, diskRow, memory, history>>

FinishMark ==
    /\ call.step = "mark"
    /\ tracker' = Transition(tracker, call.envelope, call.status)
    /\ call' = Idle
    /\ UNCHANGED <<disk, reserved, heap, history>>

\* The status row is committed but its history row is not: the error is
\* returned before the tracker advances.
HistoryWriteFails ==
    /\ "historyWrite" \in Faults
    /\ call.step = "mark"
    /\ call' = Idle
    /\ UNCHANGED <<disk, memory, history>>

-----------------------------------------------------------------------------
(* The caller drops the future of a call (a timeout, a lost select! race). *)
(* The closure already sent to the database thread still runs, so the      *)
(* write happens or fails as before, but nothing after the .await does.    *)

\* Bug: a guard releases the reservation when the future is dropped.
DropReleasesReservation ==
    /\ "droppedFuture" \in Faults
    /\ call.step = "enqueue"
    /\ EnqueueTransaction(call.tx) \/ UNCHANGED disk
    /\ reserved' = Release(call.tx.envelope.account, call.tx.envelope.sequence)
    /\ call' = Idle
    /\ UNCHANGED <<heap, tracker, history>>

DropQueuePayment ==
    /\ "droppedFuture" \in Faults
    /\ call.step = "enqueue"
    /\ EnqueueTransaction(call.tx) \/ UNCHANGED disk
    /\ call' = Idle
    /\ UNCHANGED <<memory, history>>

DropMarkSettlement ==
    /\ "droppedFuture" \in Faults
    /\ call.step = "mark"
    /\ call' = Idle
    /\ UNCHANGED <<disk, memory, history>>

-----------------------------------------------------------------------------
Next ==
    \/ Open
    \/ Crash
    \/ \E a \in Accounts, n \in Sequences : SeedAccount(a, n)
    \/ SaveReservation
    \/ SaveReservationFails
    \/ \E tx \in QueuedTx : QueuePayment(tx)
    \/ \E a \in Accounts : QueuePaymentRejected(a)
    \/ CommitEnqueue
    \/ EnqueueFails
    \/ FinishEnqueue
    \/ \E tx \in QueuedTx : PersistDispatch(tx)
    \/ FinishDispatch
    \/ \E e \in Envelopes, s \in Statuses : MarkSettlement(e, s)
    \/ FinishMark
    \/ HistoryWriteFails
    \/ DropQueuePayment
    \/ DropMarkSettlement

Spec == Init /\ [][Next]_vars

(* A process that runs goes on running and a device that died is switched  *)
(* on again (weak fairness of Open and of the code after each .await); the *)
(* application polls next_to_dispatch for ever and the disk is not broken  *)
(* for ever, but crashes and failures may come in between (strong          *)
(* fairness).  Nothing obliges a wallet to pay or a relay to answer.       *)
Fairness ==
    /\ WF_vars(Open)
    /\ WF_vars(SaveReservation \/ SaveReservationFails)
    /\ WF_vars(CommitEnqueue \/ EnqueueFails)
    /\ WF_vars(FinishEnqueue)
    /\ WF_vars(FinishDispatch)
    /\ WF_vars(FinishMark)
    /\ SF_vars(\E tx \in QueuedTx : PersistDispatch(tx))

FairSpec == Spec /\ Fairness

-----------------------------------------------------------------------------
(* Properties                                                              *)

\* Types: in particular every count of heap entries stays a natural number,
\* so next_to_dispatch pops only what a peek reported (engine.rs:282-285).
TypeOK ==
    /\ diskReserved \in [Accounts -> Sequences \cup {NoSequence}]
    /\ diskRow \in [Envelopes -> Priorities \cup {NoPriority}]
    /\ diskStatus \in [Envelopes -> Statuses \cup {NoStatus}]
    /\ reserved \in [Accounts -> Sequences \cup {NoSequence}]
    /\ heap \in [QueuedTx -> Nat]
    /\ tracker \in [Envelopes -> Statuses \cup {NoStatus}]
    /\ call \in Calls
    /\ handed \in [Envelopes -> Nat]
    /\ baselines \in [Accounts -> SUBSET Sequences]

Stored(e) == diskRow[e] # NoPriority
Slot(e) == <<e.account, e.sequence>>

\* No two different signed payments are ever stored for one account and one
\* sequence number, whatever crashes, failed writes and rollbacks come
\* between them: they would be a double spend by the device's own owner
\* (queue_payment and open; "reuse a sequence number", engine.rs:12).
NoSequenceReuse ==
    \A e, f \in Envelopes :
        Stored(e) /\ Stored(f) /\ Slot(e) = Slot(f) => e = f

\* next_to_dispatch returns an envelope at most once in the whole life of the
\* database, across restarts at any step of any call ("re-dispatch an
\* envelope that was already handed to the mesh", engine.rs:13).
AtMostOneHandoff == \A e \in Envelopes : handed[e] <= 1

\* Between calls, the heap and the tracker are exactly what open would
\* rebuild from the tables, so a crash there cannot be noticed
\* (the crash-consistency contract, engine.rs:9-13).
MemoryIsRebuilt ==
    call = Idle => heap = RestoredHeap /\ tracker = RestoredTracker

\* The sequence numbers an account has used leave no hole: each one follows
\* a baseline the account was seeded with or the sequence of another stored
\* payment.  A hole blocks every later payment on chain (the rollback of
\* queue_payment, engine.rs:240-242).
NoSkippedSequence ==
    \A e \in Envelopes : Stored(e) =>
        \/ e.sequence - 1 \in baselines[e.account]
        \/ \E f \in Envelopes :
               Stored(f) /\ Slot(f) = <<e.account, e.sequence - 1>>

\* The heap holds nothing that is not stored with the same priority: no
\* call shows memory a payment before the transaction that stores it has
\* committed (queue_payment's "BEFORE any in-memory update").
HeapBackedByDisk ==
    \A tx \in QueuedTx : heap[tx] > 0 => diskRow[tx.envelope] = tx.priority

\* What settlement_status reports is the stored status or, when a call was
\* interrupted after its write, the status one legal move before it: memory
\* is never ahead of the disk and never more than one move behind
\* (mark_settlement, next_to_dispatch).
TrackerAtMostOneMoveBehind ==
    \A e \in Envelopes : tracker[e] # NoStatus =>
        \/ diskStatus[e] = tracker[e]
        \/ CanTransition(tracker[e], diskStatus[e])

\* A payment the wallet stored does not wait for ever: as long as the
\* application polls next_to_dispatch, it leaves the Queued state, through
\* crashes and reopenings.
EveryPaymentLeavesQueue ==
    \A e \in Envelopes :
        diskStatus[e] = "Queued" ~> diskStatus[e] # "Queued"

\* An envelope stored as Propagating has been handed to the mesh, or the call
\* that hands it over is still running: "a crash mid-call can never silently
\* lose a queued payment" (engine.rs:11-12).
NoSilentLoss ==
    \A e \in Envelopes : diskStatus[e] = "Propagating" =>
        \/ handed[e] > 0
        \/ call.step = "dispatch" /\ call.tx.envelope = e

\* "Settled: Confirmed on-chain (terminal)" (spec/settlement.tla:9): no step
\* replaces a stored Settled by another status.
SettledIsTerminal ==
    [][\A e \in Envelopes :
           diskStatus[e] = "Settled" => diskStatus'[e] = "Settled"]_vars

-----------------------------------------------------------------------------
(* The refinement: the durable status is the ledger's status, and an       *)
(* envelope has been handed over once next_to_dispatch has returned it.    *)

Ledger == INSTANCE DurableLedger WITH
    SlotOf <- [e \in Envelopes |-> Slot(e)],
    status <- diskStatus,
    handedOver <- {e \in Envelopes : handed[e] > 0}

\* The engine implements the ledger it promises: its durable steps are the
\* ledger's admissions, legal moves and hand-overs, all the rest stutters.
ImplementsLedger == Ledger!Spec
=============================================================================
