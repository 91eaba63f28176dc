---------------------------- MODULE NativeHandle ----------------------------
(* The C interface of ffi.rs: native threads share one engine handle, whose
   mutex serialises them, and every call catches panics. A panic in a call
   leaves the engine's memory wherever it was; the poisoned mutex then turns
   every later call away until the handle is closed and opened again.

   The engine behind the handle is reduced to what a panic can tear apart: the
   last reserved sequence number, the payments in memory and the rows on disk.
   The callers keep the contract of the module's docs (a handle is closed once
   and not in use) and open one handle at a time on a database. *)
EXTENDS Integers, Sequences

CONSTANTS Threads,       \* native threads
          MaxPayments,   \* bound on the payments of a database
          MaxPanics      \* bound on the panics

ASSUME HandleAssumption == MaxPayments \in Nat /\ MaxPanics \in Nat

VARIABLES
    handle,    \* no handle, a usable one or a poisoned one
    holder,    \* the thread that holds the handle's mutex
    progress,  \* how far the holder's call has come
    engine,    \* the engine's memory: last reserved number, payments tracked
    rows,      \* the sequence numbers of the stored payments, in order
    answer,    \* each thread's last answer to a status call, and the truth then
    panics     \* panics so far

handleVars == <<handle, holder, progress, engine, rows, answer, panics>>

Null == "null"
Usable == "usable"
Poisoned == "poisoned"
Nobody == "nobody"
ASSUME NobodyAssumption == Nobody \notin Threads
NoAnswer == [known |-> 0, stored |-> 0]
Stages == {"idle", "locked", "reserved", "stored"}

HandleTypeOK ==
    /\ handle \in {Null, Usable, Poisoned}
    /\ holder \in Threads \cup {Nobody}
    /\ progress \in Stages
    /\ engine \in [reserved : 0..(MaxPayments + MaxPanics), tracked : 0..MaxPayments]
    /\ Len(rows) <= MaxPayments
    /\ answer \in [Threads -> [known : 0..MaxPayments, stored : 0..MaxPayments]]
    /\ panics \in 0..MaxPanics

HandleInit ==
    /\ handle = Null
    /\ holder = Nobody
    /\ progress = "idle"
    /\ engine = [reserved |-> 0, tracked |-> 0]
    /\ rows = <<>>
    /\ answer = [t \in Threads |-> NoAnswer]
    /\ panics = 0

LastNumber == IF rows = <<>> THEN 0 ELSE rows[Len(rows)]

(* sse_engine_open: the engine is rebuilt from the rows. *)
SseEngineOpen ==
    /\ handle = Null
    /\ handle' = Usable
    /\ engine' = [reserved |-> LastNumber, tracked |-> Len(rows)]
    /\ UNCHANGED <<holder, progress, rows, answer, panics>>

(* sse_engine_close: nobody is inside. *)
SseEngineClose ==
    /\ handle # Null
    /\ holder = Nobody
    /\ handle' = Null
    /\ UNCHANGED <<holder, progress, engine, rows, answer, panics>>

(* Bug: the guard is taken out of the poison error. *)
LockAnyway(t) ==
    /\ handle # Null
    /\ holder = Nobody

(* lock(): a poisoned mutex is an error, and the call answers null. *)
Lock(t) ==
    /\ handle = Usable
    /\ holder = Nobody

(* sse_queue_payment gets the mutex ... *)
BeginQueuePayment(t) ==
    /\ Lock(t)
    /\ Len(rows) < MaxPayments
    /\ holder' = t
    /\ progress' = "locked"
    /\ UNCHANGED <<handle, engine, rows, answer, panics>>

(* ... the engine reserves and signs ... *)
ReserveNumber ==
    /\ progress = "locked"
    /\ progress' = "reserved"
    /\ engine' = [engine EXCEPT !.reserved = @ + 1]
    /\ UNCHANGED <<handle, holder, rows, answer, panics>>

(* ... writes the row ... *)
StorePayment ==
    /\ progress = "reserved"
    /\ progress' = "stored"
    /\ rows' = Append(rows, engine.reserved)
    /\ UNCHANGED <<handle, holder, engine, answer, panics>>

(* ... or fails to, gives the number back and answers null ... *)
StorageError ==
    /\ progress = "reserved"
    /\ progress' = "idle"
    /\ holder' = Nobody
    /\ engine' = [engine EXCEPT !.reserved = @ - 1]
    /\ UNCHANGED <<handle, rows, answer, panics>>

(* ... takes the payment into memory and answers its message id. *)
EndQueuePayment ==
    /\ progress = "stored"
    /\ progress' = "idle"
    /\ holder' = Nobody
    /\ engine' = [engine EXCEPT !.tracked = @ + 1]
    /\ UNCHANGED <<handle, rows, answer, panics>>

(* catch_unwind: the guard is dropped while panicking, which poisons the mutex;
   the call answers null. *)
CatchPanic ==
    /\ holder # Nobody
    /\ panics < MaxPanics
    /\ panics' = panics + 1
    /\ handle' = Poisoned
    /\ holder' = Nobody
    /\ progress' = "idle"
    /\ UNCHANGED <<engine, rows, answer>>

(* sse_settlement_status answers from the tracker, under the mutex. *)
SseSettlementStatus(t) ==
    /\ Lock(t)
    /\ answer' = [answer EXCEPT ![t] =
                      [known |-> engine.tracked, stored |-> Len(rows)]]
    /\ UNCHANGED <<handle, holder, progress, engine, rows, panics>>

HandleNext ==
    \/ SseEngineOpen \/ SseEngineClose
    \/ \E t \in Threads : BeginQueuePayment(t) \/ SseSettlementStatus(t)
    \/ ReserveNumber \/ StorePayment \/ StorageError \/ EndQueuePayment
    \/ CatchPanic

HandleSpec == HandleInit /\ [][HandleNext]_handleVars

-----------------------------------------------------------------------------
(* Wherever calls panic, no thread is ever told less than what is stored, and
   no number is skipped: an engine torn by a panic answers nothing and signs
   nothing until it has been rebuilt. *)
PanicsStayContained ==
    /\ \A t \in Threads : answer[t].known = answer[t].stored
    /\ \A i \in DOMAIN rows : rows[i] = i
=============================================================================
