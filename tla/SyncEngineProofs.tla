-------------------------- MODULE SyncEngineProofs --------------------------
(***************************************************************************)
(* Safety of SyncEngine for every set of accounts, payloads and            *)
(* priorities, every bound on sequence numbers and every choice of faults. *)
(***************************************************************************)
EXTENDS SyncEngine, TLAPS

\* What the step of a call says of its other fields.
LEMMA CallShape ==
    ASSUME NEW c \in Calls
    PROVE  /\ c.step = "seed" => /\ c.account \in Accounts
                                 /\ c.sequence \in Sequences
           /\ c.step \in {"enqueue", "enqueued", "dispatch"} => c.tx \in QueuedTx
           /\ c.step = "mark" => /\ c.envelope \in Envelopes
                                 /\ c.status \in Statuses
  BY DEF Calls, Idle, Closed

\* The fields of a heap entry.
LEMMA QueuedTxShape ==
    ASSUME NEW tx \in QueuedTx
    PROVE  /\ tx.envelope \in Envelopes
           /\ tx.priority \in Priorities
           /\ tx.envelope.account \in Accounts
           /\ tx.envelope.sequence \in 1 .. MaxSequence
  BY DEF QueuedTx, Envelopes

\* A call under way has not yet popped the entry it peeked.
PeekedIsQueued == call.step = "dispatch" => heap[call.tx] > 0

TypeInv == TypeOK /\ PeekedIsQueued

\* What SettlementTracker::transition returns has its type.
LEMMA TransitionType ==
    ASSUME NEW t \in [Envelopes -> Statuses \cup {NoStatus}],
           NEW e \in Envelopes, NEW s \in Statuses
    PROVE  Transition(t, e, s) \in [Envelopes -> Statuses \cup {NoStatus}]
  BY DEF Transition

\* Every step keeps the types, and the peeked entry in the heap.
LEMMA TypeInvInvariant == Spec => []TypeInv
<1> USE ConstantsAssumption DEF NoSequence, NoPriority, Sequences
<1>1. Init => TypeInv
  BY DEF Init, TypeInv, TypeOK, PeekedIsQueued, Calls, Idle, Untracked,
         EmptyHeap, NoStatus
<1>2. TypeInv /\ [Next]_vars => TypeInv'
  <2> SUFFICES ASSUME TypeInv, [Next]_vars PROVE TypeInv'
    OBVIOUS
  <2> USE DEF TypeInv, TypeOK, PeekedIsQueued
  <2> Idle \in Calls /\ Closed \in Calls /\ Idle.step = "idle" /\ Closed.step = "closed"
    BY DEF Calls, Idle, Closed
  <2>1. CASE Open
    <3>1. RestoredTracker \in [Envelopes -> Statuses \cup {NoStatus}]
      BY DEF RestoredTracker, RowStatus, Statuses
    <3>2. RestoredHeap \in [QueuedTx -> Nat]
      BY DEF RestoredHeap
    <3> QED BY <2>1, <3>1, <3>2 DEF Open, disk, history
  <2>2. CASE Crash
    BY <2>2 DEF Crash, disk, history, Untracked, EmptyHeap
  <2>3. ASSUME NEW a \in Accounts, NEW n \in Sequences, SeedAccount(a, n)
        PROVE  TypeInv'
    <3>1. call' \in Calls /\ call'.step = "seed"
      BY <2>3 DEF SeedAccount, Calls
    <3> QED BY <2>3, <3>1 DEF SeedAccount, disk
  <2>4. CASE SaveReservation \/ SaveReservationFails
    BY <2>4, CallShape
    DEF SaveReservation, SaveReservationFails, disk, memory, history
  <2>5. ASSUME NEW tx \in QueuedTx, QueuePayment(tx)
        PROVE  TypeInv'
    <3>1. call' \in Calls /\ call'.step = "enqueue"
      BY <2>5 DEF QueuePayment, Calls
    <3>2. AutoSeeded(tx.envelope.account) \in [Accounts -> SUBSET Sequences]
      BY QueuedTxShape DEF AutoSeeded
    <3>3. LastReserved(tx.envelope.account) + 1 \in Sequences
      BY <2>5, QueuedTxShape DEF QueuePayment
    <3> QED BY <2>5, <3>1, <3>2, <3>3 DEF QueuePayment, disk
  <2>6. ASSUME NEW a \in Accounts, QueuePaymentRejected(a)
        PROVE  TypeInv'
    BY <2>6 DEF QueuePaymentRejected, AutoSeeded, disk
  <2>7. CASE CommitEnqueue
    <3>1. call.tx \in QueuedTx
      BY <2>7, CallShape DEF CommitEnqueue
    <3>2. call' \in Calls /\ call'.step = "enqueued"
      BY <2>7, <3>1, CallShape DEF CommitEnqueue, Calls
    <3> QED BY <2>7, <3>1, <3>2, QueuedTxShape
            DEF CommitEnqueue, EnqueueTransaction, memory, history, Statuses
  <2>8. CASE EnqueueFails
    <3>1. call.tx \in QueuedTx
      BY <2>8, CallShape DEF EnqueueFails
    <3>2. reserved' \in [Accounts -> Sequences \cup {NoSequence}]
      BY <2>8, <3>1, QueuedTxShape DEF EnqueueFails, Release
    <3> QED BY <2>8, <3>2 DEF EnqueueFails, disk, history
  <2>9. CASE FinishEnqueue
    <3>1. call.tx \in QueuedTx
      BY <2>9, CallShape DEF FinishEnqueue
    <3> QED BY <2>9, <3>1, QueuedTxShape
            DEF FinishEnqueue, disk, history, Statuses
  <2>10. ASSUME NEW tx \in QueuedTx, PersistDispatch(tx)
         PROVE  TypeInv'
    <3>1. call' \in Calls /\ call'.step = "dispatch" /\ call'.tx = tx
      BY <2>10 DEF PersistDispatch, Calls
    <3> QED BY <2>10, <3>1, QueuedTxShape
            DEF PersistDispatch, Front, memory, history, Statuses
  <2>11. CASE FinishDispatch
    <3>1. call.tx \in QueuedTx
      BY <2>11, CallShape DEF FinishDispatch
    <3> QED BY <2>11, <3>1, QueuedTxShape, TransitionType
            DEF FinishDispatch, disk, Statuses
  <2>12. ASSUME NEW e \in Envelopes, NEW s \in Statuses, MarkSettlement(e, s)
         PROVE  TypeInv'
    <3>1. call' \in Calls /\ call'.step = "mark"
      BY <2>12 DEF MarkSettlement, Calls
    <3> QED BY <2>12, <3>1 DEF MarkSettlement, memory, history
  <2>13. CASE FinishMark
    BY <2>13, CallShape, TransitionType DEF FinishMark, disk, history
  <2>14. CASE HistoryWriteFails \/ DropMarkSettlement
    BY <2>14 DEF HistoryWriteFails, DropMarkSettlement, disk, memory, history
  <2>15. CASE DropQueuePayment
    <3>1. call.tx \in QueuedTx
      BY <2>15, CallShape DEF DropQueuePayment
    <3> QED BY <2>15, <3>1, QueuedTxShape
            DEF DropQueuePayment, EnqueueTransaction, disk, memory, history,
                Statuses
  <2>16. CASE UNCHANGED vars
    BY <2>16 DEF vars, disk, memory, history
  <2> QED BY <2>1, <2>2, <2>3, <2>4, <2>5, <2>6, <2>7, <2>8, <2>9, <2>10,
             <2>11, <2>12, <2>13, <2>14, <2>15, <2>16 DEF Next
<1> QED BY <1>1, <1>2, PTL DEF Spec

\* The heap never loses an entry that is not there, and every variable keeps
\* its type: next_to_dispatch pops what it peeked (engine.rs:282-285).
THEOREM TypeCorrect == Spec => []TypeOK
BY TypeInvInvariant, PTL DEF TypeInv

-----------------------------------------------------------------------------
(* The inductive invariant behind the crash-consistency contract.  Its     *)
(* parts relate memory, disk and the call in progress: without the ones on *)
(* the call, an enqueue could commit a sequence the disk already covers,   *)
(* and a finished enqueue could push a second copy of an envelope.         *)

\* every stored payment lies at or below the stored reservation
StoredAtMostReserved ==
    \A e \in Envelopes : Stored(e) => e.sequence <= diskReserved[e.account]

\* memory never hands out a sequence the disk already covers
MemoryReservesAhead ==
    call # Closed => \A a \in Accounts : diskReserved[a] <= reserved[a]

SeedIsMonotone ==
    call.step = "seed" => /\ diskReserved[call.account] <= call.sequence
                          /\ reserved[call.account] = call.sequence

EnqueueIsFresh ==
    call.step = "enqueue" =>
        /\ reserved[call.tx.envelope.account] = call.tx.envelope.sequence
        /\ diskReserved[call.tx.envelope.account] < call.tx.envelope.sequence

SequenceInv ==
    /\ NoSequenceReuse
    /\ StoredAtMostReserved
    /\ MemoryReservesAhead
    /\ SeedIsMonotone
    /\ EnqueueIsFresh

\* an envelope that was handed over is stored, is no longer Queued, and has
\* no entry left in the heap
HandedIsGone ==
    \A e \in Envelopes : handed[e] # 0 =>
        /\ handed[e] = 1
        /\ Stored(e)
        /\ diskStatus[e] \notin {NoStatus, "Queued"}

QueuedNotHanded ==
    \A tx \in QueuedTx : heap[tx] > 0 => heap[tx] = 1 /\ handed[tx.envelope] = 0

StoredInCall ==
    /\ call.step = "enqueued" =>
           /\ diskRow[call.tx.envelope] = call.tx.priority
           /\ handed[call.tx.envelope] = 0
           /\ heap[call.tx] = 0
    /\ call.step = "dispatch" =>
           diskStatus[call.tx.envelope] \notin {NoStatus, "Queued"}

HandoffInv ==
    /\ HeapBackedByDisk
    /\ HandedIsGone
    /\ QueuedNotHanded
    /\ StoredInCall

-----------------------------------------------------------------------------
(* Sequence numbers.                                                       *)

\* With monotone seeding every step keeps the reservations ahead of the stored numbers.
LEMMA SequenceInvariant ==
    ASSUME "monotoneSeed" \in Discipline
    PROVE  Spec => []SequenceInv
<1> USE ConstantsAssumption DEF NoSequence, NoPriority, Sequences
<1>1. Init => SequenceInv
  BY DEF Init, SequenceInv, NoSequenceReuse, StoredAtMostReserved, Stored,
         MemoryReservesAhead, SeedIsMonotone, EnqueueIsFresh, Idle, Closed
<1>2. TypeInv /\ SequenceInv /\ [Next]_vars => SequenceInv'
  <2> SUFFICES ASSUME TypeInv, SequenceInv, [Next]_vars PROVE SequenceInv'
    OBVIOUS
  <2> USE DEF TypeInv, TypeOK, SequenceInv, MemoryReservesAhead, SeedIsMonotone,
              EnqueueIsFresh
  <2> Idle.step = "idle" /\ Closed.step = "closed" /\ Idle # Closed
    BY DEF Idle, Closed
  \* The disk changes in three ways; what does not touch it keeps its half.
  <2>a. ASSUME UNCHANGED <<diskRow, diskReserved>>
        PROVE  (NoSequenceReuse /\ StoredAtMostReserved)'
    BY <2>a DEF NoSequenceReuse, StoredAtMostReserved, Stored
  <2>b. ASSUME call.step = "enqueue", EnqueueTransaction(call.tx)
        PROVE  /\ (NoSequenceReuse /\ StoredAtMostReserved)'
               /\ \A a \in Accounts : reserved[a] >= diskReserved'[a]
    <3> DEFINE e == call.tx.envelope
    <3>1. call.tx \in QueuedTx /\ e \in Envelopes /\ e.account \in Accounts
      BY <2>b, CallShape, QueuedTxShape
    <3>2. e.sequence \in 1 .. MaxSequence
      BY <3>1, QueuedTxShape
    <3>3. \A f \in Envelopes : /\ f.account \in Accounts
                               /\ f.sequence \in 1 .. MaxSequence
      BY DEF Envelopes
    <3>4. \A f \in Envelopes : Stored(f) /\ Slot(f) = Slot(e) => f.sequence < e.sequence
      BY <2>b, <3>1, <3>2, <3>3 DEF StoredAtMostReserved, Slot
    <3>5. \A f \in Envelopes : Stored(f) => Slot(f) # Slot(e)
      BY <3>2, <3>3, <3>4 DEF Slot
    <3>6. \A f \in Envelopes : Stored(f)' => Stored(f) \/ f = e
      BY <2>b, <3>1 DEF EnqueueTransaction, Stored
    <3>7. NoSequenceReuse'
      BY <3>5, <3>6 DEF NoSequenceReuse
    <3>8. StoredAtMostReserved'
      BY <2>b, <3>1, <3>2, <3>3, <3>6 DEF EnqueueTransaction, StoredAtMostReserved
    <3>9. call # Closed
      BY <2>b
    <3>10. \A a \in Accounts : reserved[a] >= diskReserved'[a]
      BY <2>b, <3>1, <3>2, <3>9 DEF EnqueueTransaction
    <3> QED BY <3>7, <3>8, <3>10
  <2>1. CASE Open
    BY <2>1, <2>a DEF Open, disk
  <2>2. CASE Crash
    BY <2>2, <2>a DEF Crash, disk
  <2>3. ASSUME NEW a \in Accounts, NEW n \in Sequences, SeedAccount(a, n)
        PROVE  SequenceInv'
    BY <2>3, <2>a DEF SeedAccount, disk
  <2>4. CASE SaveReservation
    <3>1. call.account \in Accounts /\ call.sequence \in Sequences
      BY <2>4, CallShape DEF SaveReservation
    <3>2. \A e \in Envelopes : e.account \in Accounts /\ e.sequence \in Nat
      BY DEF Envelopes
    <3>3. StoredAtMostReserved'
      BY <2>4, <3>1, <3>2 DEF SaveReservation, StoredAtMostReserved, Stored
    <3>4. NoSequenceReuse'
      BY <2>4 DEF SaveReservation, NoSequenceReuse, Stored
    <3>5. call # Closed
      BY <2>4 DEF SaveReservation
    <3> QED BY <2>4, <3>1, <3>3, <3>4, <3>5 DEF SaveReservation, memory
  <2>5. CASE SaveReservationFails
    BY <2>5, <2>a DEF SaveReservationFails, disk, memory
  <2>6. ASSUME NEW tx \in QueuedTx, QueuePayment(tx)
        PROVE  SequenceInv'
    BY <2>6, <2>a, QueuedTxShape DEF QueuePayment, LastReserved, disk
  <2>7. ASSUME NEW a \in Accounts, QueuePaymentRejected(a)
        PROVE  SequenceInv'
    BY <2>7, <2>a DEF QueuePaymentRejected, disk
  <2>8. CASE CommitEnqueue
    BY <2>8, <2>b DEF CommitEnqueue, memory
  <2>9. CASE EnqueueFails
    <3>1. call.tx \in QueuedTx
      BY <2>9, CallShape DEF EnqueueFails
    <3>2. call # Closed
      BY <2>9 DEF EnqueueFails
    <3> QED BY <2>9, <2>a, <3>1, <3>2, QueuedTxShape DEF EnqueueFails, Release, disk
  <2>10. CASE FinishEnqueue
    BY <2>10, <2>a DEF FinishEnqueue, disk
  <2>11. ASSUME NEW tx \in QueuedTx, PersistDispatch(tx)
         PROVE  SequenceInv'
    BY <2>11, <2>a DEF PersistDispatch, memory
  <2>12. CASE FinishDispatch
    BY <2>12, <2>a DEF FinishDispatch, disk
  <2>13. ASSUME NEW e \in Envelopes, NEW s \in Statuses, MarkSettlement(e, s)
         PROVE  SequenceInv'
    BY <2>13, <2>a DEF MarkSettlement, memory
  <2>14. CASE FinishMark
    BY <2>14, <2>a DEF FinishMark, disk
  <2>15. CASE HistoryWriteFails \/ DropMarkSettlement
    BY <2>15, <2>a DEF HistoryWriteFails, DropMarkSettlement, disk, memory
  <2>16. CASE DropQueuePayment
    <3>1. CASE EnqueueTransaction(call.tx)
      BY <2>16, <2>b, <3>1 DEF DropQueuePayment, memory
    <3>2. CASE UNCHANGED disk
      BY <2>16, <2>a, <3>2 DEF DropQueuePayment, disk, memory
    <3> QED BY <2>16, <3>1, <3>2 DEF DropQueuePayment
  <2>17. CASE UNCHANGED vars
    BY <2>17, <2>a DEF vars, disk, memory
  <2> QED BY <2>1, <2>2, <2>3, <2>4, <2>5, <2>6, <2>7, <2>8, <2>9, <2>10,
             <2>11, <2>12, <2>13, <2>14, <2>15, <2>16, <2>17 DEF Next
<1> QED BY <1>1, <1>2, TypeInvInvariant, PTL DEF Spec

\* Two different payments never occupy one sequence number of one account,
\* through every crash, failed write, dropped future and rollback, as long as
\* the wallet does not seed an account below its stored reservation.
THEOREM SequenceNeverReused ==
    ASSUME "monotoneSeed" \in Discipline
    PROVE  Spec => []NoSequenceReuse
BY SequenceInvariant, PTL DEF SequenceInv

-----------------------------------------------------------------------------
(* Handing over.                                                           *)

\* With monotone seeding every step keeps heap entries backed by rows not handed over.
LEMMA HandoffInvariant ==
    ASSUME "monotoneSeed" \in Discipline
    PROVE  Spec => []HandoffInv
<1> USE ConstantsAssumption DEF NoSequence, NoPriority
<1>1. Init => HandoffInv
  BY DEF Init, HandoffInv, HeapBackedByDisk, HandedIsGone, QueuedNotHanded,
         StoredInCall, EmptyHeap, Idle
<1>2. TypeInv /\ SequenceInv /\ HandoffInv /\ [Next]_vars => HandoffInv'
  <2> SUFFICES ASSUME TypeInv, SequenceInv, HandoffInv, [Next]_vars
               PROVE  HandoffInv'
    OBVIOUS
  <2> USE DEF TypeInv, TypeOK, PeekedIsQueued, HandoffInv, HeapBackedByDisk,
              HandedIsGone, QueuedNotHanded, StoredInCall, Stored
  <2> Idle.step = "idle" /\ Closed.step = "closed"
    BY DEF Idle, Closed
  <2> \A tx \in QueuedTx : tx.envelope \in Envelopes /\ tx.priority \in Priorities
    BY QueuedTxShape
  <2>a. \A t, u \in QueuedTx :
            t.envelope = u.envelope /\ t.priority = u.priority => t = u
    BY DEF QueuedTx
  \* Storing a new payment: it was not stored, so it is not in the heap and
  \* was never handed over.
  <2>b. ASSUME call.step = "enqueue", EnqueueTransaction(call.tx),
               UNCHANGED <<heap, handed>>
        PROVE  /\ (HeapBackedByDisk /\ HandedIsGone /\ QueuedNotHanded)'
               /\ diskRow'[call.tx.envelope] = call.tx.priority
               /\ handed[call.tx.envelope] = 0
               /\ heap[call.tx] = 0
    <3>1. call.tx \in QueuedTx
      BY <2>b, CallShape
    <3>2. call.tx.envelope.account \in Accounts
          /\ call.tx.envelope.sequence \in 1 .. MaxSequence
      BY <3>1, QueuedTxShape
    <3>3. ~ Stored(call.tx.envelope)
      BY <2>b, <3>1, <3>2 DEF SequenceInv, StoredAtMostReserved, EnqueueIsFresh, Sequences
    <3>4. handed[call.tx.envelope] = 0
      BY <3>1, <3>3
    <3>5. \A t \in QueuedTx : t.envelope = call.tx.envelope => heap[t] = 0
      BY <3>3
    <3> QED BY <2>b, <3>1, <3>3, <3>4, <3>5 DEF EnqueueTransaction
  <2>1. CASE Open
    <3>1. \A t \in QueuedTx : heap'[t] > 0 => heap'[t] = 1 /\ Dispatchable(t)
      BY <2>1 DEF Open, RestoredHeap
    <3>2. \A t \in QueuedTx : Dispatchable(t) =>
              /\ diskRow[t.envelope] = t.priority
              /\ handed[t.envelope] = 0
      BY DEF Dispatchable, RowStatus
    <3> QED BY <2>1, <3>1, <3>2 DEF Open, disk, history
  <2>2. CASE Crash
    BY <2>2 DEF Crash, EmptyHeap, disk, history
  <2>3. ASSUME NEW a \in Accounts, NEW n \in Sequences, SeedAccount(a, n)
        PROVE  HandoffInv'
    BY <2>3 DEF SeedAccount, disk
  <2>4. CASE SaveReservation \/ SaveReservationFails
    BY <2>4 DEF SaveReservation, SaveReservationFails, disk, memory, history
  <2>5. ASSUME NEW tx \in QueuedTx, QueuePayment(tx)
        PROVE  HandoffInv'
    BY <2>5 DEF QueuePayment, disk
  <2>6. ASSUME NEW a \in Accounts, QueuePaymentRejected(a)
        PROVE  HandoffInv'
    BY <2>6 DEF QueuePaymentRejected, disk
  <2>7. CASE CommitEnqueue
    BY <2>7, <2>b DEF CommitEnqueue, memory, history
  <2>8. CASE EnqueueFails
    BY <2>8 DEF EnqueueFails, disk, history
  <2>9. CASE FinishEnqueue
    <3>1. call.tx \in QueuedTx
      BY <2>9, CallShape DEF FinishEnqueue
    <3>2. \A t \in QueuedTx : heap'[t] = IF t = call.tx THEN heap[t] + 1 ELSE heap[t]
      BY <2>9, <3>1 DEF FinishEnqueue
    <3> QED BY <2>9, <3>1, <3>2 DEF FinishEnqueue, disk, history
  <2>10. ASSUME NEW tx \in QueuedTx, PersistDispatch(tx)
         PROVE  HandoffInv'
    BY <2>10 DEF PersistDispatch, memory, history, NoStatus
  <2>11. CASE FinishDispatch
    <3>1. call.tx \in QueuedTx /\ heap[call.tx] = 1 /\ handed[call.tx.envelope] = 0
      BY <2>11, CallShape DEF FinishDispatch
    <3>2. \A t \in QueuedTx : heap'[t] = IF t = call.tx THEN 0 ELSE heap[t]
      BY <2>11, <3>1 DEF FinishDispatch
    <3>3. \A e \in Envelopes :
              handed'[e] = IF e = call.tx.envelope THEN 1 ELSE handed[e]
      BY <2>11, <3>1 DEF FinishDispatch
    <3>4. \A t \in QueuedTx : heap'[t] > 0 => t.envelope # call.tx.envelope
      BY <3>1, <3>2, <2>a
    <3>5. diskRow[call.tx.envelope] \in Priorities
      BY <3>1
    <3> QED BY <2>11, <3>1, <3>2, <3>3, <3>4, <3>5 DEF FinishDispatch, disk
  <2>12. ASSUME NEW e \in Envelopes, NEW s \in Statuses, MarkSettlement(e, s)
         PROVE  HandoffInv'
    <3>1. s \notin {NoStatus, "Queued"}
      BY <2>12 DEF MarkSettlement, CanTransition, LegalTransitions, NoStatus
    <3> QED BY <2>12, <3>1 DEF MarkSettlement, memory, history
  <2>13. CASE FinishMark
    BY <2>13 DEF FinishMark, disk, history
  <2>14. CASE HistoryWriteFails \/ DropMarkSettlement
    BY <2>14 DEF HistoryWriteFails, DropMarkSettlement, disk, memory, history
  <2>15. CASE DropQueuePayment
    <3>1. CASE EnqueueTransaction(call.tx)
      BY <2>15, <2>b, <3>1 DEF DropQueuePayment, memory, history
    <3>2. CASE UNCHANGED disk
      BY <2>15, <3>2 DEF DropQueuePayment, disk, memory, history
    <3> QED BY <2>15, <3>1, <3>2 DEF DropQueuePayment
  <2>16. CASE UNCHANGED vars
    BY <2>16 DEF vars, disk, memory, history
  <2> QED BY <2>1, <2>2, <2>3, <2>4, <2>5, <2>6, <2>7, <2>8, <2>9, <2>10,
             <2>11, <2>12, <2>13, <2>14, <2>15, <2>16 DEF Next
<1> QED BY <1>1, <1>2, TypeInvInvariant, SequenceInvariant, PTL DEF Spec

\* next_to_dispatch never returns an envelope twice, whatever the wallet marks
\* and wherever the device dies, as long as seeds are monotone.
THEOREM HandedOverOnce ==
    ASSUME "monotoneSeed" \in Discipline
    PROVE  Spec => []AtMostOneHandoff
<1>1. TypeInv /\ HandoffInv => AtMostOneHandoff
  BY DEF TypeInv, TypeOK, HandoffInv, HandedIsGone, AtMostOneHandoff
<1> QED BY <1>1, TypeInvInvariant, HandoffInvariant, PTL

\* Nothing is in the heap before the transaction that stores it has committed.
THEOREM HeapIsBackedByDisk ==
    ASSUME "monotoneSeed" \in Discipline
    PROVE  Spec => []HeapBackedByDisk
BY HandoffInvariant, PTL DEF HandoffInv

-----------------------------------------------------------------------------
(* No holes: every reservation, in memory or on disk, stands on a baseline *)
(* or on a stored payment, save the one of the payment being stored.       *)

Anchored(a, n) ==
    \/ n \in baselines[a]
    \/ \E f \in Envelopes : Stored(f) /\ Slot(f) = <<a, n>>

StoredIsAnchored ==
    \A e \in Envelopes : Stored(e) => Anchored(e.account, e.sequence - 1)

DiskIsAnchored ==
    \A a \in Accounts :
        diskReserved[a] # NoSequence => Anchored(a, diskReserved[a])

MemoryIsAnchored ==
    \A a \in Accounts : reserved[a] # NoSequence =>
        \/ Anchored(a, reserved[a])
        \/ /\ call.step = "enqueue"
           /\ call.tx.envelope.account = a
           /\ call.tx.envelope.sequence = reserved[a]

EnqueueIsAnchored ==
    call.step = "enqueue" =>
        /\ Anchored(call.tx.envelope.account, call.tx.envelope.sequence - 1)
        /\ reserved[call.tx.envelope.account] = call.tx.envelope.sequence

SeedIsAnchored ==
    call.step = "seed" => call.sequence \in baselines[call.account]

AnchorInv ==
    /\ StoredIsAnchored
    /\ DiskIsAnchored
    /\ MemoryIsAnchored
    /\ EnqueueIsAnchored
    /\ SeedIsAnchored

\* Rows are never deleted and the history of baselines only grows.
LEMMA AnchorsStay ==
    ASSUME TypeInv, [Next]_vars, NEW a \in Accounts, NEW n, Anchored(a, n)
    PROVE  Anchored(a, n)'
<1> USE ConstantsAssumption DEF NoPriority, TypeInv, TypeOK
<1>1. ASSUME NEW tx \in QueuedTx, EnqueueTransaction(tx)
      PROVE  \A f \in Envelopes : Stored(f) => Stored(f)'
  BY <1>1, QueuedTxShape DEF EnqueueTransaction, Stored
<1>2. baselines[a] \subseteq baselines'[a]
  BY DEF Next, vars, disk, memory, history, Open, Crash, SeedAccount,
         SaveReservation, SaveReservationFails, QueuePayment,
         QueuePaymentRejected, AutoSeeded, CommitEnqueue, EnqueueFails,
         FinishEnqueue, PersistDispatch, FinishDispatch, MarkSettlement,
         FinishMark, HistoryWriteFails, DropQueuePayment, DropMarkSettlement
<1>3. \A f \in Envelopes : Stored(f) => Stored(f)'
  <2>1. CASE UNCHANGED diskRow
    BY <2>1 DEF Stored
  <2>2. CASE call.step = "enqueue" /\ EnqueueTransaction(call.tx)
    BY <2>2, <1>1, CallShape
  <2> QED
    BY <2>1, <2>2
    DEF Next, vars, disk, Open, Crash, SeedAccount, SaveReservation,
        SaveReservationFails, QueuePayment, QueuePaymentRejected,
        CommitEnqueue, EnqueueFails, FinishEnqueue, PersistDispatch,
        FinishDispatch, MarkSettlement, FinishMark, HistoryWriteFails,
        DropQueuePayment, DropMarkSettlement
<1> QED BY <1>2, <1>3 DEF Anchored

\* A queue_payment whose future is dropped and whose write fails as well: the
\* one call that reserves a sequence number, stores nothing and releases nothing.
PaymentLost == DropQueuePayment /\ UNCHANGED disk

\* Unless a payment is lost so, every step keeps reservations anchored in a seed or a row.
LEMMA AnchorInvariant == Spec /\ [][~ PaymentLost]_vars => []AnchorInv
<1> USE ConstantsAssumption DEF NoSequence, NoPriority
<1>1. Init => AnchorInv
  BY DEF Init, AnchorInv, StoredIsAnchored, DiskIsAnchored, MemoryIsAnchored,
         EnqueueIsAnchored, SeedIsAnchored, Stored, Idle
<1>2. TypeInv /\ AnchorInv /\ [Next]_vars /\ [~ PaymentLost]_vars => AnchorInv'
  <2> SUFFICES ASSUME TypeInv, AnchorInv, [Next]_vars, [~ PaymentLost]_vars
               PROVE  AnchorInv'
    OBVIOUS
  <2> USE DEF TypeInv, TypeOK, AnchorInv, DiskIsAnchored, MemoryIsAnchored,
              EnqueueIsAnchored, SeedIsAnchored, StoredIsAnchored
  <2> Idle.step = "idle" /\ Closed.step = "closed"
    BY DEF Idle, Closed
  <2>a. \A e \in Envelopes : e.account \in Accounts /\ e.sequence \in 1 .. MaxSequence
    BY DEF Envelopes
  <2>b. \A a \in Accounts : \A n : Anchored(a, n) => Anchored(a, n)'
    BY AnchorsStay
  <2>c. ASSUME UNCHANGED diskRow
        PROVE  StoredIsAnchored'
    BY <2>a, <2>b, <2>c DEF Stored
  <2>d. ASSUME call.step = "enqueue", EnqueueTransaction(call.tx),
               UNCHANGED <<reserved, baselines>>,
               call'.step \notin {"enqueue", "seed"}
        PROVE  AnchorInv'
    <3>1. PICK e \in Envelopes : e = call.tx.envelope
      BY <2>d, CallShape, QueuedTxShape
    <3>2. PICK tx \in QueuedTx : tx = call.tx
      BY <2>d, CallShape
    <3>3. \A f \in Envelopes : Stored(f)' => f = e \/ Stored(f)
      BY <2>d, <3>1, <3>2 DEF EnqueueTransaction, Stored
    <3>4. Anchored(e.account, e.sequence - 1)'
      BY <2>d, <3>1, <2>a, <2>b
    <3>5. StoredIsAnchored'
      BY <3>3, <3>4, <2>a, <2>b
    <3>6. Stored(e)'
      BY <2>d, <3>1, <3>2, QueuedTxShape DEF EnqueueTransaction, Stored
    <3>7. Anchored(e.account, e.sequence)'
      BY <3>6 DEF Anchored, Slot
    <3>8. \A b \in Accounts : diskReserved'[b] =
              IF b = e.account THEN e.sequence ELSE diskReserved[b]
      BY <2>d, <3>1, <2>a DEF EnqueueTransaction
    <3> QED BY <2>d, <3>1, <3>5, <3>7, <3>8, <2>a, <2>b
  <2>1. CASE Open
    BY <2>1, <2>b, <2>c DEF Open, disk
  <2>2. CASE Crash
    BY <2>2, <2>b, <2>c DEF Crash, disk
  <2>3. ASSUME NEW a \in Accounts, NEW n \in Sequences, SeedAccount(a, n)
        PROVE  AnchorInv'
    <3>1. n \in baselines'[a] /\ reserved'[a] = n
          /\ \A b \in Accounts : b # a => reserved'[b] = reserved[b]
      BY <2>3 DEF SeedAccount
    <3>2. Anchored(a, n)'
      BY <3>1 DEF Anchored
    <3> QED BY <2>3, <2>b, <2>c, <3>1, <3>2 DEF SeedAccount, disk, Idle
  <2>4. CASE SaveReservation
    <3>1. PICK a \in Accounts, n \in Sequences : a = call.account /\ n = call.sequence
      BY <2>4, CallShape DEF SaveReservation
    <3>2. Anchored(a, n)'
      BY <2>4, <3>1, <2>b DEF SaveReservation, Anchored
    <3>3. \A b \in Accounts : diskReserved'[b] = IF b = a THEN n ELSE diskReserved[b]
      BY <2>4, <3>1 DEF SaveReservation
    <3> QED BY <2>4, <2>b, <2>c, <3>2, <3>3 DEF SaveReservation, memory
  <2>5. CASE SaveReservationFails
    BY <2>5, <2>b, <2>c DEF SaveReservationFails, disk, memory
  <2>6. ASSUME NEW tx \in QueuedTx, QueuePayment(tx)
        PROVE  AnchorInv'
    <3>1. PICK a \in Accounts, n \in 1 .. MaxSequence :
              a = tx.envelope.account /\ n = tx.envelope.sequence
      BY QueuedTxShape
    <3>2. /\ n - 1 = LastReserved(a)
          /\ \A b \in Accounts : reserved'[b] = IF b = a THEN n ELSE reserved[b]
          /\ call'.step = "enqueue" /\ call'.tx = tx
      BY <2>6, <3>1 DEF QueuePayment, LastReserved, Sequences
    <3>3. Anchored(a, n - 1)'
      <4>1. CASE reserved[a] = NoSequence
        <5>1. 0 \in baselines'[a]
          BY <2>6, <3>1, <4>1 DEF QueuePayment, AutoSeeded
        <5> QED BY <3>2, <4>1, <5>1 DEF LastReserved, Anchored
      <4>2. CASE reserved[a] # NoSequence
        <5>1. n - 1 = reserved[a] /\ Anchored(a, n - 1)
          BY <2>6, <3>2, <4>2 DEF QueuePayment, LastReserved, Idle
        <5> QED BY <5>1, <2>b
      <4> QED BY <4>1, <4>2
    <3>4. ASSUME NEW b \in Accounts, b # a, reserved'[b] # NoSequence
          PROVE  \E k \in Sequences : k = reserved'[b] /\ Anchored(b, k)'
      BY <2>6, <3>2, <3>4, <2>b DEF QueuePayment, Idle
    <3>5. MemoryIsAnchored'
      BY <3>1, <3>2, <3>4
    <3> QED BY <2>6, <2>b, <2>c, <3>1, <3>2, <3>3, <3>5 DEF QueuePayment, disk
  <2>7. ASSUME NEW a \in Accounts, QueuePaymentRejected(a)
        PROVE  AnchorInv'
    <3>1. 0 \in baselines'[a] /\ reserved'[a] = 0
          /\ \A b \in Accounts : b # a => reserved'[b] = reserved[b]
      BY <2>7 DEF QueuePaymentRejected, AutoSeeded
    <3>2. Anchored(a, 0)'
      BY <3>1 DEF Anchored
    <3> QED BY <2>7, <2>b, <2>c, <3>1, <3>2 DEF QueuePaymentRejected, disk
  <2>8. CASE CommitEnqueue
    BY <2>8, <2>d DEF CommitEnqueue, memory, history
  <2>9. CASE EnqueueFails
    <3>1. PICK e \in Envelopes : e = call.tx.envelope
      BY <2>9, CallShape, QueuedTxShape DEF EnqueueFails
    <3>2. \A b \in Accounts : reserved'[b] =
              IF b = e.account THEN e.sequence - 1 ELSE reserved[b]
      BY <2>9, <3>1, <2>a DEF EnqueueFails, Release
    <3>3. Anchored(e.account, e.sequence - 1)'
      BY <2>9, <3>1, <2>a, <2>b DEF EnqueueFails
    <3> QED BY <2>9, <3>1, <3>2, <3>3, <2>a, <2>b, <2>c DEF EnqueueFails, disk
  <2>10. CASE FinishEnqueue
    BY <2>10, <2>b, <2>c DEF FinishEnqueue, disk
  <2>11. ASSUME NEW tx \in QueuedTx, PersistDispatch(tx)
         PROVE  AnchorInv'
    BY <2>11, <2>b, <2>c DEF PersistDispatch, memory
  <2>12. CASE FinishDispatch
    BY <2>12, <2>b, <2>c DEF FinishDispatch, disk
  <2>13. ASSUME NEW e \in Envelopes, NEW s \in Statuses, MarkSettlement(e, s)
         PROVE  AnchorInv'
    BY <2>13, <2>b, <2>c DEF MarkSettlement, memory
  <2>14. CASE FinishMark
    BY <2>14, <2>b, <2>c DEF FinishMark, disk
  <2>15. CASE HistoryWriteFails \/ DropMarkSettlement
    BY <2>15, <2>b, <2>c DEF HistoryWriteFails, DropMarkSettlement, disk, memory
  <2>16. CASE DropQueuePayment
    <3>1. CASE UNCHANGED disk
      <4>1. UNCHANGED vars
        BY <2>16, <3>1 DEF PaymentLost
      <4> QED BY <2>16, <4>1 DEF DropQueuePayment, vars
    <3>2. CASE EnqueueTransaction(call.tx)
      BY <2>16, <3>2, <2>d DEF DropQueuePayment, memory, history
    <3> QED BY <2>16, <3>1, <3>2 DEF DropQueuePayment
  <2>17. CASE UNCHANGED vars
    <3>1. UNCHANGED <<diskRow, diskReserved, reserved, call, baselines>>
      BY <2>17 DEF vars, disk, memory, history
    <3> QED BY <3>1 DEF Anchored, Stored
  <2> QED BY <2>1, <2>2, <2>3, <2>4, <2>5, <2>6, <2>7, <2>8, <2>9, <2>10,
             <2>11, <2>12, <2>13, <2>14, <2>15, <2>16, <2>17 DEF Next
<1> QED BY <1>1, <1>2, TypeInvInvariant, PTL DEF Spec

\* A hole in an account's sequence numbers has one cause: a queue_payment whose
\* future was dropped while its write failed.  Crashes, rejected payments,
\* failed writes of calls that are waited for, dropped futures whose write
\* lands and interrupted mark_settlements leave none.
THEOREM OnlyLostPaymentsSkip ==
    Spec /\ [][~ PaymentLost]_vars => []NoSkippedSequence
<1>1. AnchorInv => NoSkippedSequence
  BY DEF AnchorInv, StoredIsAnchored, Anchored, NoSkippedSequence
<1> QED BY <1>1, AnchorInvariant, PTL

\* Crashes, failed writes and rejected payments leave no hole in an account's
\* sequence numbers, as long as no queue_payment future is dropped.
THEOREM NoSequenceSkipped ==
    ASSUME "droppedFuture" \notin Faults
    PROVE  Spec => []NoSkippedSequence
<1>1. ~ PaymentLost
  BY DEF PaymentLost, DropQueuePayment
<1>2. [~ PaymentLost]_vars
  BY <1>1
<1> QED BY <1>2, OnlyLostPaymentsSkip, PTL

-----------------------------------------------------------------------------
(* What holds of SyncEngine when the wallet keeps the discipline its docs    *)
(* ask for: the tracker against the disk, the invisibility of a restart,     *)
(* and the implementation of DurableLedger.                                  *)

\* Settlements are reported only for envelopes that left the heap.
Disciplined == {"monotoneSeed", "marksDispatched"} \subseteq Discipline

\* Storing a payment writes its status row in the same transaction.
StoredHasStatus == \A e \in Envelopes : Stored(e) <=> diskStatus[e] # NoStatus

TrackedIsStored == \A e \in Envelopes : tracker[e] # NoStatus => Stored(e)

HeapIsTrackedQueued ==
    \A tx \in QueuedTx : heap[tx] > 0 => tracker[tx.envelope] = "Queued"

\* what the write of the call in progress left for its memory update
WriteAhead ==
    /\ call.step = "enqueued" => diskStatus[call.tx.envelope] = "Queued"
    /\ call.step = "dispatch" => diskStatus[call.tx.envelope] = "Propagating"
    /\ call.step = "mark" => /\ diskStatus[call.envelope] = call.status
                             /\ CanTransition(tracker[call.envelope], call.status)
                             /\ tracker[call.envelope] # "Queued"

TrackerInv ==
    /\ TrackerAtMostOneMoveBehind
    /\ StoredHasStatus
    /\ TrackedIsStored
    /\ HeapIsTrackedQueued
    /\ WriteAhead

\* Legal moves start and end at a real status, never end at Queued.
LEMMA LegalMoves ==
    ASSUME NEW from, NEW to, CanTransition(from, to)
    PROVE  /\ from # NoStatus /\ to \notin {NoStatus, "Queued"}
           /\ from # to
           /\ from \in Statuses /\ to \in Statuses
  BY DEF CanTransition, LegalTransitions, NoStatus, Statuses

\* The table of legal moves has the one next_to_dispatch makes.
LEMMA DispatchIsLegal == CanTransition("Queued", "Propagating")
  BY DEF CanTransition, LegalTransitions

\* The envelope of a fresh enqueue has no row, no status and no heap entry.
LEMMA EnqueuedIsNew ==
    ASSUME TypeInv, SequenceInv, call.step = "enqueue"
    PROVE  /\ call.tx \in QueuedTx
           /\ call.tx.envelope \in Envelopes
           /\ \A f \in Envelopes :
                  Slot(f) = Slot(call.tx.envelope) => ~ Stored(f)
  <1>1. /\ call.tx \in QueuedTx /\ call.tx.envelope \in Envelopes
        /\ call.tx.envelope.account \in Accounts
        /\ call.tx.envelope.sequence \in 1 .. MaxSequence
    BY CallShape, QueuedTxShape DEF TypeInv, TypeOK
  <1>2. \A f \in Envelopes : f.account \in Accounts /\ f.sequence \in 1 .. MaxSequence
    BY DEF Envelopes
  <1>3. \A f \in Envelopes : Slot(f) = Slot(call.tx.envelope) =>
            /\ f.account = call.tx.envelope.account
            /\ f.sequence = call.tx.envelope.sequence
    BY DEF Slot
  <1> QED BY <1>1, <1>2, <1>3, ConstantsAssumption
          DEF SequenceInv, StoredAtMostReserved, EnqueueIsFresh, TypeInv,
              TypeOK, Sequences, NoSequence

\* With both disciplines every step keeps the tracker at most one write behind the disk.
LEMMA TrackerInvariant ==
    ASSUME Disciplined
    PROVE  Spec => []TrackerInv
<1> USE ConstantsAssumption DEF NoSequence, NoPriority
<1>1. Init => TrackerInv
  BY DEF Init, TrackerInv, TrackerAtMostOneMoveBehind, StoredHasStatus,
         TrackedIsStored, HeapIsTrackedQueued, WriteAhead, Stored, Untracked,
         EmptyHeap, Idle
<1>2. TypeInv /\ SequenceInv /\ HandoffInv /\ TrackerInv /\ [Next]_vars => TrackerInv'
  <2> SUFFICES ASSUME TypeInv, SequenceInv, HandoffInv, TrackerInv, [Next]_vars
               PROVE  TrackerInv'
    OBVIOUS
  <2> USE DEF TypeInv, TypeOK, PeekedIsQueued, TrackerInv,
              TrackerAtMostOneMoveBehind, StoredHasStatus, TrackedIsStored,
              HeapIsTrackedQueued, WriteAhead, Stored
  <2> Idle.step = "idle" /\ Closed.step = "closed"
    BY DEF Idle, Closed
  <2> \A tx \in QueuedTx : tx.envelope \in Envelopes /\ tx.priority \in Priorities
    BY QueuedTxShape
  <2>a. \A t, u \in QueuedTx :
            t.envelope = u.envelope /\ t.priority = u.priority => t = u
    BY DEF QueuedTx
  <2>b. ASSUME call.step = "enqueue", EnqueueTransaction(call.tx), UNCHANGED memory
        PROVE  /\ (TrackerAtMostOneMoveBehind /\ StoredHasStatus)'
               /\ (TrackedIsStored /\ HeapIsTrackedQueued)'
               /\ diskStatus'[call.tx.envelope] = "Queued"
    <3>1. /\ call.tx \in QueuedTx /\ call.tx.envelope \in Envelopes
          /\ ~ Stored(call.tx.envelope)
      BY <2>b, EnqueuedIsNew
    <3>2. tracker[call.tx.envelope] = NoStatus
      BY <3>1
    <3> QED BY <2>b, <3>1, <3>2 DEF EnqueueTransaction, memory, NoStatus
  <2>1. CASE Open
    <3>1. \A e \in Envelopes : tracker'[e] = diskStatus[e]
      BY <2>1 DEF Open, RestoredTracker, RowStatus
    <3>2. \A t \in QueuedTx : heap'[t] > 0 => Dispatchable(t)
      BY <2>1 DEF Open, RestoredHeap
    <3>3. \A t \in QueuedTx : Dispatchable(t) => tracker'[t.envelope] = "Queued"
      BY <3>1 DEF Dispatchable, RowStatus
    <3> QED BY <2>1, <3>1, <3>2, <3>3 DEF Open, disk
  <2>2. CASE Crash
    BY <2>2 DEF Crash, EmptyHeap, Untracked, disk
  <2>3. ASSUME NEW a \in Accounts, NEW n \in Sequences, SeedAccount(a, n)
        PROVE  TrackerInv'
    BY <2>3 DEF SeedAccount, disk
  <2>4. CASE SaveReservation \/ SaveReservationFails
    BY <2>4 DEF SaveReservation, SaveReservationFails, disk, memory
  <2>5. ASSUME NEW tx \in QueuedTx, QueuePayment(tx)
        PROVE  TrackerInv'
    BY <2>5 DEF QueuePayment, disk
  <2>6. ASSUME NEW a \in Accounts, QueuePaymentRejected(a)
        PROVE  TrackerInv'
    BY <2>6 DEF QueuePaymentRejected, disk
  <2>7. CASE CommitEnqueue
    BY <2>7, <2>b DEF CommitEnqueue
  <2>8. CASE EnqueueFails
    BY <2>8 DEF EnqueueFails, disk
  <2>9. CASE FinishEnqueue
    <3>1. call.tx \in QueuedTx
      BY <2>9, CallShape DEF FinishEnqueue
    <3>2. \A t \in QueuedTx : heap'[t] > 0 => heap[t] > 0 \/ t = call.tx
      BY <2>9, <3>1 DEF FinishEnqueue
    <3>3. \A e \in Envelopes : tracker'[e] =
              IF e = call.tx.envelope THEN "Queued" ELSE tracker[e]
      BY <2>9, <3>1 DEF FinishEnqueue
    <3>4. diskRow[call.tx.envelope] \in Priorities
      BY <2>9, <3>1 DEF FinishEnqueue, HandoffInv, StoredInCall
    <3> QED BY <2>9, <3>1, <3>2, <3>3, <3>4 DEF FinishEnqueue, disk
  <2>10. ASSUME NEW tx \in QueuedTx, PersistDispatch(tx)
         PROVE  TrackerInv'
    <3>1. heap[tx] > 0 /\ tracker[tx.envelope] = "Queued"
      BY <2>10 DEF PersistDispatch, Front
    <3>2. Stored(tx.envelope)
      BY <3>1 DEF NoStatus
    <3>3. \A e \in Envelopes : diskStatus'[e] =
              IF e = tx.envelope THEN "Propagating" ELSE diskStatus[e]
      BY <2>10 DEF PersistDispatch
    <3>4. call'.step = "dispatch" /\ call'.tx = tx
      BY <2>10 DEF PersistDispatch
    <3> QED BY <2>10, <3>1, <3>2, <3>3, <3>4, DispatchIsLegal
            DEF PersistDispatch, memory, NoStatus
  <2>11. CASE FinishDispatch
    <3>1. call.tx \in QueuedTx /\ heap[call.tx] = 1
          /\ tracker[call.tx.envelope] = "Queued"
      BY <2>11, CallShape DEF FinishDispatch, HandoffInv, QueuedNotHanded
    <3>2. \A t \in QueuedTx : heap'[t] > 0 => heap[t] > 0 /\ t # call.tx
      BY <2>11, <3>1 DEF FinishDispatch
    <3>3. \A e \in Envelopes : tracker'[e] =
              IF e = call.tx.envelope THEN "Propagating" ELSE tracker[e]
      BY <2>11, <3>1, DispatchIsLegal DEF FinishDispatch, Transition
    <3>4. \A t \in QueuedTx : heap'[t] > 0 => t.envelope # call.tx.envelope
      BY <3>1, <3>2, <2>a DEF HandoffInv, HeapBackedByDisk
    <3> QED BY <2>11, <3>1, <3>2, <3>3, <3>4 DEF FinishDispatch, disk, NoStatus
  <2>12. ASSUME NEW e \in Envelopes, NEW s \in Statuses, MarkSettlement(e, s)
         PROVE  TrackerInv'
    <3>1. CanTransition(tracker[e], s) /\ tracker[e] # "Queued"
      BY <2>12 DEF MarkSettlement, Disciplined
    <3>2. Stored(e) /\ s # NoStatus
      BY <3>1, LegalMoves
    <3>3. \A f \in Envelopes : diskStatus'[f] = IF f = e THEN s ELSE diskStatus[f]
      BY <2>12 DEF MarkSettlement
    <3> QED BY <2>12, <3>1, <3>2, <3>3 DEF MarkSettlement, memory
  <2>13. CASE FinishMark
    <3>1. call.envelope \in Envelopes
      BY <2>13, CallShape DEF FinishMark
    <3>2. \A e \in Envelopes : tracker'[e] =
              IF e = call.envelope THEN call.status ELSE tracker[e]
      BY <2>13, <3>1 DEF FinishMark, Transition
    <3>3. Stored(call.envelope)
      BY <2>13, <3>1, LegalMoves DEF FinishMark
    <3> QED BY <2>13, <3>1, <3>2, <3>3 DEF FinishMark, disk
  <2>14. CASE HistoryWriteFails \/ DropMarkSettlement
    BY <2>14 DEF HistoryWriteFails, DropMarkSettlement, disk, memory
  <2>15. CASE DropQueuePayment
    <3>1. CASE EnqueueTransaction(call.tx)
      BY <2>15, <2>b, <3>1 DEF DropQueuePayment
    <3>2. CASE UNCHANGED disk
      BY <2>15, <3>2 DEF DropQueuePayment, disk, memory
    <3> QED BY <2>15, <3>1, <3>2 DEF DropQueuePayment
  <2>16. CASE UNCHANGED vars
    BY <2>16 DEF vars, disk, memory
  <2> QED BY <2>1, <2>2, <2>3, <2>4, <2>5, <2>6, <2>7, <2>8, <2>9, <2>10,
             <2>11, <2>12, <2>13, <2>14, <2>15, <2>16 DEF Next
<1>3. "monotoneSeed" \in Discipline
  BY DEF Disciplined
<1> QED BY <1>1, <1>2, <1>3, TypeInvInvariant, SequenceInvariant,
           HandoffInvariant, PTL DEF Spec

\* settlement_status is the stored status or the one a legal move before it,
\* whatever write fails and whichever future is dropped.
THEOREM TrackerFollowsDisk ==
    ASSUME Disciplined
    PROVE  Spec => []TrackerAtMostOneMoveBehind
BY TrackerInvariant, PTL DEF TrackerInv

-----------------------------------------------------------------------------
(* Silent loss: what has left Queued was handed to the mesh.               *)

\* The device dies after persist_dispatch_status and before next_to_dispatch
\* returns: the stored status says Propagating and nobody has the envelope.
DispatchCrashes == Crash /\ call.step = "dispatch"

LeftQueueIsHanded ==
    \A e \in Envelopes : diskStatus[e] \notin {NoStatus, "Queued"} =>
        \/ handed[e] > 0
        \/ call.step = "dispatch" /\ call.tx.envelope = e

\* Unless the device dies there, every step keeps whatever left Queued handed over.
LEMMA LeftQueueInvariant ==
    ASSUME Disciplined
    PROVE  Spec /\ [][~ DispatchCrashes]_vars => []LeftQueueIsHanded
<1>1. Init => LeftQueueIsHanded
  BY DEF Init, LeftQueueIsHanded, Untracked
<1>2. /\ TypeInv /\ SequenceInv /\ TrackerInv /\ LeftQueueIsHanded
      /\ [Next]_vars /\ [~ DispatchCrashes]_vars
      => LeftQueueIsHanded'
  <2> SUFFICES ASSUME TypeInv, SequenceInv, TrackerInv, LeftQueueIsHanded,
                      [Next]_vars, [~ DispatchCrashes]_vars
               PROVE  LeftQueueIsHanded'
    OBVIOUS
  <2> USE DEF TypeInv, TypeOK, LeftQueueIsHanded
  <2> Idle.step = "idle" /\ Closed.step = "closed"
    BY DEF Idle, Closed
  <2> \A tx \in QueuedTx : tx.envelope \in Envelopes
    BY QueuedTxShape
  <2>a. ASSUME call.step # "dispatch", UNCHANGED <<diskStatus, handed>>
        PROVE  LeftQueueIsHanded'
    BY <2>a
  <2>b. ASSUME call.step = "enqueue", EnqueueTransaction(call.tx), UNCHANGED handed
        PROVE  LeftQueueIsHanded'
    <3>1. call.tx \in QueuedTx /\ call.tx.envelope \in Envelopes
      BY <2>b, EnqueuedIsNew
    <3>2. \A e \in Envelopes : diskStatus'[e] =
              IF e = call.tx.envelope THEN "Queued" ELSE diskStatus[e]
      BY <2>b, <3>1 DEF EnqueueTransaction
    <3> QED BY <2>b, <3>2
  <2>1. CASE Open
    BY <2>1, <2>a DEF Open, disk, history
  <2>2. CASE UNCHANGED vars
    BY <2>2 DEF vars, disk, history
  <2>3. CASE Crash
    <3>1. CASE call.step = "dispatch"
      BY <2>2, <2>3, <3>1 DEF DispatchCrashes
    <3> QED BY <2>3, <2>a, <3>1 DEF Crash, disk, history
  <2>4. ASSUME NEW a \in Accounts, NEW n \in Sequences, SeedAccount(a, n)
        PROVE  LeftQueueIsHanded'
    BY <2>4, <2>a DEF SeedAccount, disk
  <2>5. CASE SaveReservation \/ SaveReservationFails
    BY <2>5, <2>a DEF SaveReservation, SaveReservationFails, disk, history
  <2>6. ASSUME NEW tx \in QueuedTx, QueuePayment(tx)
        PROVE  LeftQueueIsHanded'
    BY <2>6, <2>a DEF QueuePayment, disk
  <2>7. CASE CommitEnqueue
    BY <2>7, <2>b DEF CommitEnqueue, history
  <2>8. CASE EnqueueFails \/ FinishEnqueue \/ FinishMark
    BY <2>8, <2>a DEF EnqueueFails, FinishEnqueue, FinishMark, disk, history
  <2>9. ASSUME NEW tx \in QueuedTx, PersistDispatch(tx)
        PROVE  LeftQueueIsHanded'
    <3>1. \A e \in Envelopes : e # tx.envelope => diskStatus'[e] = diskStatus[e]
      BY <2>9 DEF PersistDispatch
    <3>2. call'.step = "dispatch" /\ call'.tx = tx
      BY <2>9 DEF PersistDispatch
    <3> QED BY <2>9, <3>1, <3>2 DEF PersistDispatch, history
  <2>10. CASE FinishDispatch
    <3>1. call.tx \in QueuedTx /\ call.tx.envelope \in Envelopes
      BY <2>10, CallShape DEF FinishDispatch
    <3>2. \A e \in Envelopes : handed'[e] =
              IF e = call.tx.envelope THEN handed[e] + 1 ELSE handed[e]
      BY <2>10, <3>1 DEF FinishDispatch
    <3> QED BY <2>10, <3>1, <3>2 DEF FinishDispatch, disk
  <2>11. ASSUME NEW e \in Envelopes, NEW s \in Statuses, MarkSettlement(e, s)
         PROVE  LeftQueueIsHanded'
    <3>1. CanTransition(tracker[e], s) /\ tracker[e] # "Queued"
      BY <2>11 DEF MarkSettlement, Disciplined
    <3>2. diskStatus[e] \notin {NoStatus, "Queued"}
      BY <3>1, LegalMoves DEF TrackerInv, TrackerAtMostOneMoveBehind
    <3>3. handed[e] > 0
      BY <2>11, <3>2 DEF MarkSettlement
    <3>4. \A f \in Envelopes : f # e => diskStatus'[f] = diskStatus[f]
      BY <2>11 DEF MarkSettlement
    <3> QED BY <2>11, <3>3, <3>4 DEF MarkSettlement, history
  <2>12. CASE HistoryWriteFails \/ DropMarkSettlement
    BY <2>12, <2>a DEF HistoryWriteFails, DropMarkSettlement, disk, history
  <2>13. CASE DropQueuePayment
    <3>1. CASE EnqueueTransaction(call.tx)
      BY <2>13, <2>b, <3>1 DEF DropQueuePayment, history
    <3>2. CASE UNCHANGED disk
      BY <2>13, <2>a, <3>2 DEF DropQueuePayment, disk, history
    <3> QED BY <2>13, <3>1, <3>2 DEF DropQueuePayment
  <2>14. ASSUME NEW a \in Accounts, QueuePaymentRejected(a)
         PROVE  LeftQueueIsHanded'
    BY <2>14, <2>a DEF QueuePaymentRejected, disk
  <2> QED BY <2>1, <2>2, <2>3, <2>4, <2>5, <2>6, <2>7, <2>8, <2>9, <2>10,
             <2>11, <2>12, <2>13, <2>14 DEF Next
<1>3. "monotoneSeed" \in Discipline
  BY DEF Disciplined
<1> QED BY <1>1, <1>2, <1>3, TypeInvInvariant, SequenceInvariant,
           TrackerInvariant, PTL DEF Spec

\* A payment is lost silently in one place only: the device dies between
\* persist_dispatch_status and the return of next_to_dispatch.  No other crash,
\* failed write, dropped future or settlement report loses one.
THEOREM OnlyDispatchCrashesLose ==
    ASSUME Disciplined
    PROVE  Spec /\ [][~ DispatchCrashes]_vars => []NoSilentLoss
<1>1. LeftQueueIsHanded => NoSilentLoss
  BY DEF LeftQueueIsHanded, NoSilentLoss, NoStatus
<1> QED BY <1>1, LeftQueueInvariant, PTL

-----------------------------------------------------------------------------
(* Without calls cut off after their write, memory is exact between calls. *)

TouchedBy(e) ==
    \/ call.step \in {"enqueued", "dispatch"} /\ call.tx.envelope = e
    \/ call.step = "mark" /\ call.envelope = e

TrackerInStep ==
    call # Closed =>
        \A e \in Envelopes : TouchedBy(e) \/ tracker[e] = diskStatus[e]

HeapInStep ==
    call # Closed =>
        \A tx \in QueuedTx : Dispatchable(tx) =>
            heap[tx] > 0 \/ call = [step |-> "enqueued", tx |-> tx]

RestartInv == TrackerInStep /\ HeapInStep

\* A mark_settlement that ended between its status row and the tracker.
MarkInterrupted == HistoryWriteFails \/ DropMarkSettlement

\* A queue_payment whose future was dropped although its write lands: the
\* payment is stored and memory has not heard of it.
PaymentUnnoticed == DropQueuePayment /\ EnqueueTransaction(call.tx)

\* Unless a call is cut off after its write, every step keeps memory what open would rebuild.
LEMMA RestartInvariant ==
    ASSUME Disciplined
    PROVE  Spec /\ [][~ MarkInterrupted]_vars /\ [][~ PaymentUnnoticed]_vars
           => []RestartInv
<1> USE ConstantsAssumption DEF NoSequence, NoPriority
<1>1. Init => RestartInv
  <2> SUFFICES ASSUME Init
               PROVE  RestartInv
    OBVIOUS
  <2>1. TrackerInStep
    BY DEF Init, TrackerInStep
  <2>2. \A tx \in QueuedTx : ~ Dispatchable(tx)
    BY QueuedTxShape DEF Init, Dispatchable
  <2> QED BY <2>1, <2>2 DEF RestartInv, HeapInStep
<1>2. /\ TypeInv /\ SequenceInv /\ HandoffInv /\ TrackerInv /\ RestartInv
      /\ [Next]_vars /\ [~ MarkInterrupted]_vars /\ [~ PaymentUnnoticed]_vars
      => RestartInv'
  <2> SUFFICES ASSUME TypeInv, SequenceInv, HandoffInv, TrackerInv, RestartInv,
                      [Next]_vars, [~ MarkInterrupted]_vars, [~ PaymentUnnoticed]_vars
               PROVE  RestartInv'
    OBVIOUS
  <2> USE DEF TypeInv, TypeOK, RestartInv, TrackerInStep, HeapInStep, TouchedBy
  <2> Idle.step = "idle" /\ Closed.step = "closed" /\ Idle # Closed
    BY DEF Idle, Closed
  <2> \A tx \in QueuedTx : tx.envelope \in Envelopes /\ tx.priority \in Priorities
    BY QueuedTxShape
  <2>a. \A t, u \in QueuedTx :
            t.envelope = u.envelope /\ t.priority = u.priority => t = u
    BY DEF QueuedTx
  <2>b. \A tx \in QueuedTx : Dispatchable(tx) => diskStatus[tx.envelope] = "Queued"
    BY DEF Dispatchable, RowStatus, TrackerInv, StoredHasStatus, Stored
  <2>1. CASE Open
    <3>1. \A e \in Envelopes : tracker'[e] = diskStatus[e]
      BY <2>1 DEF Open, RestoredTracker, RowStatus, TrackerInv, StoredHasStatus,
                  Stored
    <3>2. \A t \in QueuedTx : Dispatchable(t) => heap'[t] > 0
      BY <2>1 DEF Open, RestoredHeap
    <3> QED BY <2>1, <3>1, <3>2 DEF Open, disk, Dispatchable, RowStatus
  <2>2. CASE Crash
    BY <2>2 DEF Crash
  <2>3. ASSUME NEW a \in Accounts, NEW n \in Sequences, SeedAccount(a, n)
        PROVE  RestartInv'
    BY <2>3 DEF SeedAccount, disk, Dispatchable, RowStatus
  <2>4. CASE SaveReservation \/ SaveReservationFails
    BY <2>4 DEF SaveReservation, SaveReservationFails, disk, memory,
                Dispatchable, RowStatus
  <2>5. ASSUME NEW tx \in QueuedTx, QueuePayment(tx)
        PROVE  RestartInv'
    BY <2>5 DEF QueuePayment, disk, Dispatchable, RowStatus
  <2>6. ASSUME NEW a \in Accounts, QueuePaymentRejected(a)
        PROVE  RestartInv'
    BY <2>6 DEF QueuePaymentRejected, disk, Dispatchable, RowStatus
  <2>7. CASE CommitEnqueue
    <3>1. call.step = "enqueue" /\ call # Closed /\ call # Idle
      BY <2>7 DEF CommitEnqueue
    <3>2. call.tx \in QueuedTx /\ call' = [step |-> "enqueued", tx |-> call.tx]
      BY <2>7, <3>1, CallShape DEF CommitEnqueue
    <3>3. \A e \in Envelopes : e # call.tx.envelope =>
              diskStatus'[e] = diskStatus[e] /\ diskRow'[e] = diskRow[e]
      BY <2>7, <3>2 DEF CommitEnqueue, EnqueueTransaction
    <3>4. TrackerInStep'
      BY <2>7, <3>1, <3>2, <3>3 DEF CommitEnqueue, memory
    <3>5. diskRow'[call.tx.envelope] = call.tx.priority
      BY <2>7, <3>2 DEF CommitEnqueue, EnqueueTransaction
    <3>6. ASSUME NEW t \in QueuedTx, Dispatchable(t)', t # call.tx
          PROVE  heap'[t] > 0
      <4>1. t.envelope # call.tx.envelope
        BY <3>2, <3>5, <3>6, <2>a DEF Dispatchable
      <4>2. Dispatchable(t)
        BY <3>3, <3>6, <4>1 DEF Dispatchable, RowStatus
      <4>3. call # [step |-> "enqueued", tx |-> t]
        BY <3>1
      <4> QED BY <2>7, <3>1, <4>2, <4>3 DEF CommitEnqueue, memory
    <3> QED BY <3>2, <3>4, <3>6
  <2>8. CASE EnqueueFails
    BY <2>8 DEF EnqueueFails, disk, Dispatchable, RowStatus
  <2>9. CASE FinishEnqueue
    <3>1. call.tx \in QueuedTx /\ call # Closed /\ diskStatus[call.tx.envelope] = "Queued"
      BY <2>9, CallShape DEF FinishEnqueue, TrackerInv, WriteAhead
    <3>2. \A t \in QueuedTx : heap'[t] = IF t = call.tx THEN heap[t] + 1 ELSE heap[t]
      BY <2>9, <3>1 DEF FinishEnqueue
    <3>3. \A e \in Envelopes : tracker'[e] =
              IF e = call.tx.envelope THEN "Queued" ELSE tracker[e]
      BY <2>9, <3>1 DEF FinishEnqueue
    <3>4. \A t \in QueuedTx : call = [step |-> "enqueued", tx |-> t] => t = call.tx
      OBVIOUS
    <3> QED BY <2>9, <3>1, <3>2, <3>3, <3>4
            DEF FinishEnqueue, disk, Dispatchable, RowStatus
  <2>10. ASSUME NEW tx \in QueuedTx, PersistDispatch(tx)
         PROVE  RestartInv'
    <3>1. \A e \in Envelopes : diskStatus'[e] =
              IF e = tx.envelope THEN "Propagating" ELSE diskStatus[e]
      BY <2>10 DEF PersistDispatch
    <3>2. call'.step = "dispatch" /\ call'.tx = tx
      BY <2>10 DEF PersistDispatch
    <3>3. \A t \in QueuedTx : Dispatchable(t)' => Dispatchable(t)
      BY <2>10, <3>1 DEF PersistDispatch, Dispatchable, RowStatus, NoStatus
    <3>4. \A t \in QueuedTx : call # [step |-> "enqueued", tx |-> t]
      BY <2>10 DEF PersistDispatch
    <3> QED BY <2>10, <3>1, <3>2, <3>3, <3>4 DEF PersistDispatch, memory
  <2>11. CASE FinishDispatch
    <3>1. call.tx \in QueuedTx /\ tracker[call.tx.envelope] = "Queued"
          /\ diskStatus[call.tx.envelope] = "Propagating"
      BY <2>11, CallShape
      DEF FinishDispatch, TrackerInv, HeapIsTrackedQueued, WriteAhead,
          PeekedIsQueued
    <3>2. \A t \in QueuedTx : t # call.tx => heap'[t] = heap[t]
      BY <2>11, <3>1 DEF FinishDispatch
    <3>3. \A e \in Envelopes : tracker'[e] =
              IF e = call.tx.envelope THEN "Propagating" ELSE tracker[e]
      BY <2>11, <3>1, DispatchIsLegal DEF FinishDispatch, Transition
    <3>4. \A t \in QueuedTx : call # [step |-> "enqueued", tx |-> t]
      BY <2>11 DEF FinishDispatch
    <3>5. ~ Dispatchable(call.tx)
      BY <3>1, <2>b
    <3> QED BY <2>11, <3>1, <3>2, <3>3, <3>4, <3>5
            DEF FinishDispatch, disk, Dispatchable, RowStatus
  <2>12. ASSUME NEW e \in Envelopes, NEW s \in Statuses, MarkSettlement(e, s)
         PROVE  RestartInv'
    <3>1. CanTransition(tracker[e], s)
      BY <2>12 DEF MarkSettlement
    <3>2. s \notin {"Queued", NoStatus}
      BY <3>1, LegalMoves
    <3>3. \A f \in Envelopes : diskStatus'[f] = IF f = e THEN s ELSE diskStatus[f]
      BY <2>12 DEF MarkSettlement
    <3>4. call'.step = "mark" /\ call'.envelope = e
      BY <2>12 DEF MarkSettlement
    <3>5. \A t \in QueuedTx : Dispatchable(t)' => Dispatchable(t)
      BY <2>12, <3>2, <3>3 DEF MarkSettlement, Dispatchable, RowStatus
    <3>6. \A t \in QueuedTx : call # [step |-> "enqueued", tx |-> t]
      BY <2>12 DEF MarkSettlement
    <3> QED BY <2>12, <3>3, <3>4, <3>5, <3>6 DEF MarkSettlement, memory
  <2>13. CASE FinishMark
    <3>1. /\ call.envelope \in Envelopes
          /\ CanTransition(tracker[call.envelope], call.status)
          /\ diskStatus[call.envelope] = call.status
      BY <2>13, CallShape DEF FinishMark, TrackerInv, WriteAhead
    <3>2. \A e \in Envelopes : tracker'[e] =
              IF e = call.envelope THEN call.status ELSE tracker[e]
      BY <2>13, <3>1 DEF FinishMark, Transition
    <3>3. \A t \in QueuedTx : call # [step |-> "enqueued", tx |-> t]
      BY <2>13 DEF FinishMark
    <3> QED BY <2>13, <3>1, <3>2, <3>3 DEF FinishMark, disk, Dispatchable, RowStatus
  <2>14. CASE UNCHANGED vars
    BY <2>14 DEF vars, disk, memory, Dispatchable, RowStatus
  <2>15. CASE MarkInterrupted
    BY <2>14, <2>15
  <2>16. CASE DropQueuePayment
    <3>1. CASE EnqueueTransaction(call.tx)
      BY <2>14, <2>16, <3>1 DEF PaymentUnnoticed
    <3>2. CASE UNCHANGED disk
      BY <2>16, <3>2 DEF DropQueuePayment, disk, memory, Dispatchable, RowStatus
    <3> QED BY <2>16, <3>1, <3>2 DEF DropQueuePayment
  <2> QED BY <2>1, <2>2, <2>3, <2>4, <2>5, <2>6, <2>7, <2>8, <2>9, <2>10,
             <2>11, <2>12, <2>13, <2>14, <2>15, <2>16 DEF Next, MarkInterrupted
<1>3. "monotoneSeed" \in Discipline
  BY DEF Disciplined
<1> QED BY <1>1, <1>2, <1>3, TypeInvInvariant, SequenceInvariant,
           HandoffInvariant, TrackerInvariant, PTL DEF Spec

\* Only a call cut off after its write leaves memory behind the tables: without
\* one, memory between the calls of a disciplined wallet is what open would
\* rebuild, through crashes, failed writes and dropped calls that wrote nothing.
THEOREM OnlyCutOffCallsShow ==
    ASSUME Disciplined
    PROVE  Spec /\ [][~ MarkInterrupted]_vars /\ [][~ PaymentUnnoticed]_vars
           => []MemoryIsRebuilt
<1>1. "monotoneSeed" \in Discipline
  BY DEF Disciplined
<1>2. TypeInv /\ HandoffInv /\ TrackerInv /\ RestartInv => MemoryIsRebuilt
  <2> SUFFICES ASSUME TypeInv, HandoffInv, TrackerInv, RestartInv, call = Idle
               PROVE  heap = RestoredHeap /\ tracker = RestoredTracker
    BY DEF MemoryIsRebuilt
  <2>1. call.step = "idle" /\ call # Closed
    BY DEF Idle, Closed
  <2>2. \A e \in Envelopes : tracker[e] = diskStatus[e]
    BY <2>1 DEF RestartInv, TrackerInStep, TouchedBy
  <2>3. tracker = RestoredTracker
    BY <2>2 DEF RestoredTracker, RowStatus, TypeInv, TypeOK, TrackerInv,
                StoredHasStatus, Stored
  <2>4. \A tx \in QueuedTx : heap[tx] > 0 => Dispatchable(tx) /\ heap[tx] = 1
    BY <2>2, QueuedTxShape
    DEF HandoffInv, HeapBackedByDisk, QueuedNotHanded, TrackerInv,
        HeapIsTrackedQueued, Dispatchable, RowStatus
  <2>5. \A tx \in QueuedTx : Dispatchable(tx) => heap[tx] > 0
    BY <2>1 DEF RestartInv, HeapInStep
  <2>6. heap = RestoredHeap
    BY <2>4, <2>5 DEF RestoredHeap, TypeInv, TypeOK
  <2> QED BY <2>3, <2>6
<1> QED BY <1>1, <1>2, TypeInvInvariant, HandoffInvariant, TrackerInvariant,
           RestartInvariant, PTL

\* Without the two further faults, a restart between two calls of a disciplined
\* wallet cannot be noticed.
THEOREM RestartIsInvisible ==
    ASSUME Disciplined, Faults = {}
    PROVE  Spec => []MemoryIsRebuilt
<1>1. ~ MarkInterrupted /\ ~ PaymentUnnoticed
  BY DEF MarkInterrupted, PaymentUnnoticed, HistoryWriteFails,
         DropMarkSettlement, DropQueuePayment
<1>2. [~ MarkInterrupted]_vars /\ [~ PaymentUnnoticed]_vars
  BY <1>1
<1> QED BY <1>2, OnlyCutOffCallsShow, PTL

-----------------------------------------------------------------------------
(* The implementation of DurableLedger: four of the engine's steps may     *)
(* write the ledger's variables, all the others leave them as they were.   *)
(* The tracker need not be exact for that: an envelope whose queue_payment *)
(* was dropped is not tracked until open, and no call can move it either.  *)

\* What is tracked and not being written is what is stored.
TrackedInStep ==
    call # Closed =>
        \A e \in Envelopes : \/ tracker[e] = NoStatus
                             \/ TouchedBy(e)
                             \/ tracker[e] = diskStatus[e]

\* Unless a mark is interrupted, every step keeps what is tracked what is stored.
LEMMA TrackedInvariant ==
    ASSUME Disciplined
    PROVE  Spec /\ [][~ MarkInterrupted]_vars => []TrackedInStep
<1> USE ConstantsAssumption DEF NoSequence, NoPriority
<1>1. Init => TrackedInStep
  BY DEF Init, TrackedInStep
<1>2. /\ TypeInv /\ SequenceInv /\ HandoffInv /\ TrackerInv /\ TrackedInStep
      /\ [Next]_vars /\ [~ MarkInterrupted]_vars
      => TrackedInStep'
  <2> SUFFICES ASSUME TypeInv, SequenceInv, HandoffInv, TrackerInv, TrackedInStep,
                      [Next]_vars, [~ MarkInterrupted]_vars
               PROVE  TrackedInStep'
    OBVIOUS
  <2> USE DEF TypeInv, TypeOK, TrackedInStep, TouchedBy
  <2> Idle.step = "idle" /\ Closed.step = "closed" /\ Idle # Closed
    BY DEF Idle, Closed
  <2> \A tx \in QueuedTx : tx.envelope \in Envelopes
    BY QueuedTxShape
  <2>a. ASSUME call.step = "enqueue", EnqueueTransaction(call.tx), UNCHANGED memory
        PROVE  TrackedInStep'
    <3>1. /\ call.tx \in QueuedTx /\ call.tx.envelope \in Envelopes
          /\ ~ Stored(call.tx.envelope)
      BY <2>a, EnqueuedIsNew
    <3>2. tracker'[call.tx.envelope] = NoStatus
      BY <2>a, <3>1 DEF memory, TrackerInv, TrackedIsStored
    <3>3. \A e \in Envelopes : e # call.tx.envelope =>
              diskStatus'[e] = diskStatus[e] /\ tracker'[e] = tracker[e]
      BY <2>a, <3>1 DEF EnqueueTransaction, memory
    <3>4. \A e \in Envelopes : TouchedBy(e) => FALSE
      BY <2>a
    <3>5. call # Closed
      BY <2>a
    <3> QED BY <3>2, <3>3, <3>4, <3>5
  <2>1. CASE Open
    <3>1. \A e \in Envelopes : tracker'[e] = diskStatus[e]
      BY <2>1 DEF Open, RestoredTracker, RowStatus, TrackerInv, StoredHasStatus,
                  Stored
    <3> QED BY <2>1, <3>1 DEF Open, disk
  <2>2. CASE Crash
    BY <2>2 DEF Crash
  <2>3. ASSUME NEW a \in Accounts, NEW n \in Sequences, SeedAccount(a, n)
        PROVE  TrackedInStep'
    BY <2>3 DEF SeedAccount, disk
  <2>4. CASE SaveReservation \/ SaveReservationFails
    BY <2>4 DEF SaveReservation, SaveReservationFails, disk, memory
  <2>5. ASSUME NEW tx \in QueuedTx, QueuePayment(tx)
        PROVE  TrackedInStep'
    BY <2>5 DEF QueuePayment, disk
  <2>6. ASSUME NEW a \in Accounts, QueuePaymentRejected(a)
        PROVE  TrackedInStep'
    BY <2>6 DEF QueuePaymentRejected, disk
  <2>7. CASE CommitEnqueue
    BY <2>7, <2>a DEF CommitEnqueue
  <2>8. CASE EnqueueFails
    BY <2>8 DEF EnqueueFails, disk
  <2>9. CASE FinishEnqueue
    <3>1. /\ call.tx \in QueuedTx /\ call # Closed
          /\ diskStatus[call.tx.envelope] = "Queued"
      BY <2>9, CallShape DEF FinishEnqueue, TrackerInv, WriteAhead
    <3>2. \A e \in Envelopes : tracker'[e] =
              IF e = call.tx.envelope THEN "Queued" ELSE tracker[e]
      BY <2>9, <3>1 DEF FinishEnqueue
    <3> QED BY <2>9, <3>1, <3>2 DEF FinishEnqueue, disk
  <2>10. ASSUME NEW tx \in QueuedTx, PersistDispatch(tx)
         PROVE  TrackedInStep'
    <3>1. \A e \in Envelopes : diskStatus'[e] =
              IF e = tx.envelope THEN "Propagating" ELSE diskStatus[e]
      BY <2>10 DEF PersistDispatch
    <3>2. call'.step = "dispatch" /\ call'.tx = tx
      BY <2>10 DEF PersistDispatch
    <3> QED BY <2>10, <3>1, <3>2 DEF PersistDispatch, memory
  <2>11. CASE FinishDispatch
    <3>1. /\ call.tx \in QueuedTx /\ tracker[call.tx.envelope] = "Queued"
          /\ diskStatus[call.tx.envelope] = "Propagating" /\ call # Closed
      BY <2>11, CallShape
      DEF FinishDispatch, TrackerInv, HeapIsTrackedQueued, WriteAhead,
          PeekedIsQueued
    <3>2. \A e \in Envelopes : tracker'[e] =
              IF e = call.tx.envelope THEN "Propagating" ELSE tracker[e]
      BY <2>11, <3>1, DispatchIsLegal DEF FinishDispatch, Transition
    <3> QED BY <2>11, <3>1, <3>2 DEF FinishDispatch, disk
  <2>12. ASSUME NEW e \in Envelopes, NEW s \in Statuses, MarkSettlement(e, s)
         PROVE  TrackedInStep'
    <3>1. \A f \in Envelopes : diskStatus'[f] = IF f = e THEN s ELSE diskStatus[f]
      BY <2>12 DEF MarkSettlement
    <3>2. call'.step = "mark" /\ call'.envelope = e
      BY <2>12 DEF MarkSettlement
    <3> QED BY <2>12, <3>1, <3>2 DEF MarkSettlement, memory
  <2>13. CASE FinishMark
    <3>1. /\ call.envelope \in Envelopes /\ call # Closed
          /\ CanTransition(tracker[call.envelope], call.status)
          /\ diskStatus[call.envelope] = call.status
      BY <2>13, CallShape DEF FinishMark, TrackerInv, WriteAhead
    <3>2. \A e \in Envelopes : tracker'[e] =
              IF e = call.envelope THEN call.status ELSE tracker[e]
      BY <2>13, <3>1 DEF FinishMark, Transition
    <3> QED BY <2>13, <3>1, <3>2 DEF FinishMark, disk
  <2>14. CASE UNCHANGED vars
    BY <2>14 DEF vars, disk, memory
  <2>15. CASE MarkInterrupted
    BY <2>14, <2>15
  <2>16. CASE DropQueuePayment
    <3>1. CASE EnqueueTransaction(call.tx)
      BY <2>16, <2>a, <3>1 DEF DropQueuePayment
    <3>2. CASE UNCHANGED disk
      BY <2>16, <3>2 DEF DropQueuePayment, disk, memory
    <3> QED BY <2>16, <3>1, <3>2 DEF DropQueuePayment
  <2> QED BY <2>1, <2>2, <2>3, <2>4, <2>5, <2>6, <2>7, <2>8, <2>9, <2>10,
             <2>11, <2>12, <2>13, <2>14, <2>15, <2>16 DEF Next, MarkInterrupted
<1>3. "monotoneSeed" \in Discipline
  BY DEF Disciplined
<1> QED BY <1>1, <1>2, <1>3, TypeInvInvariant, SequenceInvariant,
           HandoffInvariant, TrackerInvariant, PTL DEF Spec

\* The steps that neither write settlement_status nor return an envelope.
LedgerStutters ==
    /\ UNCHANGED diskStatus
    /\ UNCHANGED handed

\* A step that changes neither rows nor what was handed over stutters in the ledger.
LEMMA StutterMapsToStutter == LedgerStutters => UNCHANGED Ledger!vars
  BY DEF LedgerStutters, Ledger!vars

\* Every step is one of DurableLedger or changes nothing it can see.
LEMMA StepsImplementLedger ==
    ASSUME Disciplined, TypeInv, SequenceInv, HandoffInv, TrackerInv,
           TrackedInStep, Next, ~ MarkInterrupted
    PROVE  Ledger!Next \/ UNCHANGED Ledger!vars
<1> USE DEF TypeInv, TypeOK
<1> Idle.step = "idle" /\ Closed.step = "closed" /\ Idle # Closed
  BY DEF Idle, Closed
<1> Ledger!Statuses = Statuses /\ Ledger!NoStatus = NoStatus
    /\ \A x, y : Ledger!CanTransition(x, y) <=> CanTransition(x, y)
  BY DEF Ledger!Statuses, Statuses, Ledger!NoStatus, NoStatus,
         Ledger!CanTransition, CanTransition, Ledger!LegalTransitions,
         LegalTransitions
<1>a. call = Idle => \A e \in Envelopes :
          tracker[e] # NoStatus => tracker[e] = diskStatus[e]
  BY DEF TrackedInStep, TouchedBy
<1>1. ASSUME call.step = "enqueue", EnqueueTransaction(call.tx), UNCHANGED history
      PROVE  Ledger!Next
  <2> DEFINE e == call.tx.envelope
  <2>1. /\ call.tx \in QueuedTx /\ e \in Envelopes
        /\ \A f \in Envelopes : Slot(f) = Slot(e) => ~ Stored(f)
    BY <1>1, EnqueuedIsNew
  <2>2. \A f \in Envelopes : Slot(f) = Slot(e) => diskStatus[f] = NoStatus
    BY <2>1 DEF TrackerInv, StoredHasStatus
  <2>3. diskStatus' = [diskStatus EXCEPT ![e] = "Queued"] /\ handed' = handed
    BY <1>1 DEF EnqueueTransaction, history
  <2>4. Ledger!Admit(e)
    BY <2>1, <2>2, <2>3 DEF Ledger!Admit
  <2> QED BY <2>1, <2>4 DEF Ledger!Next
<1>2. ASSUME NEW tx \in QueuedTx, PersistDispatch(tx)
      PROVE  Ledger!Next
  <2> DEFINE e == tx.envelope
  <2>1. e \in Envelopes
    BY QueuedTxShape
  <2>2. diskStatus[e] = "Queued"
    BY <1>2, <1>a, <2>1
    DEF PersistDispatch, Front, TrackerInv, HeapIsTrackedQueued, NoStatus
  <2>3. diskStatus' = [diskStatus EXCEPT ![e] = "Propagating"] /\ handed' = handed
    BY <1>2 DEF PersistDispatch, history
  <2>4. Ledger!Advance(e)
    BY <2>1, <2>2, <2>3, DispatchIsLegal DEF Ledger!Advance, Statuses
  <2> QED BY <2>1, <2>4 DEF Ledger!Next
<1>3. CASE FinishDispatch
  <2>1. call.tx \in QueuedTx /\ call.tx.envelope \in Envelopes
    BY <1>3, CallShape, QueuedTxShape DEF FinishDispatch
  <2>2. PICK e \in Envelopes : e = call.tx.envelope
    BY <2>1
  <2>3. diskStatus[e] = "Propagating" /\ handed[e] = 0
    BY <1>3, <2>1, <2>2 DEF FinishDispatch, TrackerInv, WriteAhead, HandoffInv,
                            QueuedNotHanded, PeekedIsQueued
  <2>4. /\ diskStatus' = diskStatus
        /\ \A f \in Envelopes : handed'[f] = IF f = e THEN 1 ELSE handed[f]
    BY <1>3, <2>2, <2>3 DEF FinishDispatch, disk
  <2>5. {f \in Envelopes : handed'[f] > 0} = {f \in Envelopes : handed[f] > 0} \cup {e}
    BY <2>4
  <2>6. Ledger!HandOver(e)
    BY <2>3, <2>4, <2>5 DEF Ledger!HandOver
  <2> QED BY <2>6 DEF Ledger!Next
<1>4. ASSUME NEW e \in Envelopes, NEW s \in Statuses, MarkSettlement(e, s)
      PROVE  Ledger!Next
  <2>1. CanTransition(diskStatus[e], s)
    BY <1>4, <1>a, LegalMoves DEF MarkSettlement
  <2>2. diskStatus' = [diskStatus EXCEPT ![e] = s] /\ handed' = handed
    BY <1>4 DEF MarkSettlement, history
  <2>3. Ledger!Advance(e)
    BY <2>1, <2>2 DEF Ledger!Advance
  <2> QED BY <2>3 DEF Ledger!Next
<1>5. CASE Open \/ Crash \/ SaveReservation \/ SaveReservationFails
  BY <1>5, StutterMapsToStutter
  DEF Open, Crash, SaveReservation, SaveReservationFails, LedgerStutters, disk,
      history
<1>6. ASSUME NEW a \in Accounts, NEW n \in Sequences,
             SeedAccount(a, n) \/ QueuePaymentRejected(a)
      PROVE  UNCHANGED Ledger!vars
  BY <1>6, StutterMapsToStutter
  DEF SeedAccount, QueuePaymentRejected, LedgerStutters, disk
<1>7. ASSUME NEW tx \in QueuedTx, QueuePayment(tx)
      PROVE  UNCHANGED Ledger!vars
  BY <1>7, StutterMapsToStutter DEF QueuePayment, LedgerStutters, disk
<1>8. CASE EnqueueFails \/ FinishEnqueue \/ FinishMark
  BY <1>8, StutterMapsToStutter
  DEF EnqueueFails, FinishEnqueue, FinishMark, LedgerStutters, disk, history
<1>9. CASE CommitEnqueue
  BY <1>1, <1>9 DEF CommitEnqueue
<1>10. CASE DropQueuePayment
  <2>1. CASE EnqueueTransaction(call.tx)
    BY <1>1, <1>10, <2>1 DEF DropQueuePayment
  <2>2. CASE UNCHANGED disk
    BY <1>10, <2>2, StutterMapsToStutter
    DEF DropQueuePayment, LedgerStutters, disk, history
  <2> QED BY <1>10, <2>1, <2>2 DEF DropQueuePayment
<1>11. Sequences # {}
  BY ConstantsAssumption DEF Sequences
<1> QED BY <1>2, <1>3, <1>4, <1>5, <1>6, <1>7, <1>8, <1>9, <1>10, <1>11
        DEF Next, MarkInterrupted

\* As long as no mark_settlement is interrupted between its two writes or
\* before its memory update, the engine of a disciplined wallet implements the
\* ledger, through crashes, failed writes and dropped queue_payments: one
\* admission per slot, legal moves only, at most one hand-over per envelope,
\* and that one when it is Propagating.
THEOREM OnlyInterruptedMarksDiverge ==
    ASSUME Disciplined
    PROVE  Spec /\ [][~ MarkInterrupted]_vars => ImplementsLedger
<1>1. "monotoneSeed" \in Discipline
  BY DEF Disciplined
<1>2. Init => Ledger!Init
  BY DEF Init, Ledger!Init, Untracked, Ledger!NoStatus, NoStatus
<1>3. /\ TypeInv /\ SequenceInv /\ HandoffInv /\ TrackerInv /\ TrackedInStep
      /\ [Next]_vars /\ [~ MarkInterrupted]_vars
      => [Ledger!Next]_(Ledger!vars)
  <2>1. UNCHANGED vars => UNCHANGED Ledger!vars
    BY StutterMapsToStutter DEF vars, disk, history, LedgerStutters
  <2> QED BY <2>1, StepsImplementLedger
<1> QED BY <1>1, <1>2, <1>3, TypeInvInvariant, SequenceInvariant,
           HandoffInvariant, TrackerInvariant, TrackedInvariant, PTL
        DEF Spec, ImplementsLedger, Ledger!Spec

\* Without the two further faults, with every call run to its end or to a crash,
\* the engine of a disciplined wallet implements the ledger.
THEOREM ImplementsTheLedger ==
    ASSUME Disciplined, Faults = {}
    PROVE  Spec => ImplementsLedger
<1>1. ~ MarkInterrupted
  BY DEF MarkInterrupted, HistoryWriteFails, DropMarkSettlement
<1>2. [~ MarkInterrupted]_vars
  BY <1>1
<1> QED BY <1>2, OnlyInterruptedMarksDiverge, PTL

\* A wallet that reports settlements only for what was dispatched never sees a
\* stored Settled replaced, as long as no mark_settlement is interrupted.
THEOREM SettledStays ==
    ASSUME Disciplined
    PROVE  Spec /\ [][~ MarkInterrupted]_vars => SettledIsTerminal
<1>1. ASSUME NEW e \in Envelopes, diskStatus[e] = "Settled",
             [Ledger!Next]_(Ledger!vars)
      PROVE  diskStatus'[e] = "Settled"
  <2>1. CASE UNCHANGED Ledger!vars
    BY <1>1, <2>1 DEF Ledger!vars
  <2>2. ASSUME NEW f \in Envelopes, Ledger!Admit(f)
        PROVE  diskStatus'[e] = "Settled"
    <3>1. f # e
      BY <1>1, <2>2 DEF Ledger!Admit, Ledger!NoStatus
    <3> QED BY <1>1, <2>2, <3>1 DEF Ledger!Admit
  <2>3. ASSUME NEW f \in Envelopes, Ledger!Advance(f)
        PROVE  diskStatus'[e] = "Settled"
    <3>1. f # e
      BY <1>1, <2>3
      DEF Ledger!Advance, Ledger!CanTransition, Ledger!LegalTransitions
    <3> QED BY <1>1, <2>3, <3>1 DEF Ledger!Advance
  <2>4. ASSUME NEW f \in Envelopes, Ledger!HandOver(f)
        PROVE  diskStatus'[e] = "Settled"
    BY <1>1, <2>4 DEF Ledger!HandOver
  <2> QED BY <1>1, <2>1, <2>2, <2>3, <2>4 DEF Ledger!Next
<1>2. [Ledger!Next]_(Ledger!vars) =>
          [\A e \in Envelopes :
               diskStatus[e] = "Settled" => diskStatus'[e] = "Settled"]_vars
  BY <1>1
<1> QED BY <1>2, OnlyInterruptedMarksDiverge, PTL
        DEF ImplementsLedger, Ledger!Spec, SettledIsTerminal
=============================================================================
