--------------------------- MODULE OutboundProofs ---------------------------
(***************************************************************************)
(* Proofs about Outbound, for any set of payments, any number of           *)
(* dispatcher tasks and any limits of the guard and of the window.         *)
(***************************************************************************)
EXTENDS Outbound, FiniteSetTheorems, TLAPS

USE DEF Low, Normal, Emergency

\* What the in-memory structures say of a payment agrees with its row: the
\* queue knows its admission time, and a slot is only held for what was sent.
MemoryAgrees ==
    /\ \A x \in heap : x.id \in DOMAIN rows /\ x.at = rows[x.id].at
    /\ \A t \in Tasks : held[t] # None => held[t] \in DOMAIN rows
    /\ \A e \in DOMAIN inFlight : e \in DOMAIN rows /\ rows[e].status # "Queued"

\* the Emergency payments the guard must still count
Recent == {e \in Emergencies : ElapsedSince(rows[e].at) < Window}

\* f tells apart the members of S by a place in hist that holds the time
\* each was admitted at
Counted(S, hist, f) ==
    /\ f \in [S -> DOMAIN hist]
    /\ \A d, e \in S : f[d] = f[e] => d = e
    /\ \A e \in S : hist[f[e]] = rows[e].at

\* The guard's history has an entry of its own for every recent payment,
\* whatever else it holds and in whatever order.
GuardRemembers == \E f \in [Recent -> DOMAIN history] : Counted(Recent, history, f)

Inv ==
    /\ TypeOK
    /\ MemoryAgrees
    /\ NothingForgotten
    /\ WindowBound
    /\ GuardRemembers
    /\ EmergencyBound

-----------------------------------------------------------------------------
\* The type invariant gives each row, slot and entry its parts.
LEMMA Parts ==
    ASSUME TypeOK
    PROVE  /\ DOMAIN rows \subseteq Envelopes
           /\ rows \in [DOMAIN rows -> Stored]
           /\ \A e \in DOMAIN rows :
                /\ rows[e].at \in Times /\ rows[e].at \in Int
                /\ rows[e].status \in {"Queued", "Propagating", "Acknowledged"}
           /\ now \in Times /\ now \in Int
           /\ DOMAIN inFlight \subseteq Envelopes
           /\ inFlight \in [DOMAIN inFlight -> Times]
           /\ \A e \in DOMAIN inFlight : inFlight[e] \in Times /\ inFlight[e] \in Int
           /\ IsFiniteSet(DOMAIN rows) /\ IsFiniteSet(DOMAIN inFlight)
<1>1. PICK S \in SUBSET Envelopes : rows \in [S -> Stored]
  BY DEF TypeOK
<1>2. PICK T \in SUBSET Envelopes : inFlight \in [T -> Times]
  BY DEF TypeOK, Slots
<1>3. IsFiniteSet(S) /\ IsFiniteSet(T)
  BY FS_Subset, OutboundAssumption
<1>4. \A t \in Times : t \in Int
  BY DEF Times
<1> QED
  BY <1>1, <1>2, <1>3, <1>4 DEF TypeOK, Stored

\* Sweeping, taking and giving up slots yield slots again.
LEMMA SlotOperations ==
    ASSUME TypeOK
    PROVE  /\ SweepExpired(inFlight) \in Slots
           /\ DOMAIN SweepExpired(inFlight) \subseteq DOMAIN inFlight
           /\ \A e \in Envelopes :
                /\ Taken(SweepExpired(inFlight), e) \in Slots
                /\ Without(inFlight, e) \in Slots
<1>1. inFlight \in [DOMAIN inFlight -> Times] /\ DOMAIN inFlight \subseteq Envelopes
      /\ now \in Times
  BY Parts
<1> DEFINE D == {f \in DOMAIN inFlight : ElapsedSince(inFlight[f]) < Timeout}
<1>2. D \in SUBSET Envelopes /\ SweepExpired(inFlight) \in [D -> Times]
  BY <1>1 DEF SweepExpired
<1>3. SweepExpired(inFlight) \in Slots /\ DOMAIN SweepExpired(inFlight) = D
  BY <1>2 DEF Slots
<1>4. ASSUME NEW e \in Envelopes
      PROVE  /\ Taken(SweepExpired(inFlight), e) \in Slots
             /\ Without(inFlight, e) \in Slots
  <2>1. /\ D \cup {e} \in SUBSET Envelopes
        /\ Taken(SweepExpired(inFlight), e) \in [D \cup {e} -> Times]
    BY <1>1, <1>2, <1>3 DEF Taken
  <2>2. /\ DOMAIN inFlight \ {e} \in SUBSET Envelopes
        /\ Without(inFlight, e) \in [DOMAIN inFlight \ {e} -> Times]
    BY <1>1 DEF Without
  <2> QED
    BY <2>1, <2>2 DEF Slots
<1> QED
  BY <1>3, <1>4

\* A nonempty set of natural numbers has a least member, which is its Min.
LEMMA LeastMember ==
    ASSUME NEW S \in SUBSET Nat, S # {}
    PROVE  Min(S) \in S /\ \A n \in S : Min(S) =< n
<1> DEFINE R == OpToRel(<, Nat)
<1>1. \A x, y \in Nat : <<x, y>> \in R <=> x < y
  BY DEF OpToRel
<1>2. IsWellFoundedOn(R, Nat)
  BY NatLessThanWellFounded
<1> HIDE DEF R
<1>3. PICK m \in S : \A n \in S : ~(<<n, m>> \in R)
  BY <1>2, WFMin
<1>4. \A n \in S : ~(n < m) /\ n \in Nat /\ m \in Nat
  BY <1>1, <1>3
<1>5. \A n \in S : m =< n
  BY <1>4
<1> QED
  BY <1>3, <1>5 DEF Min

\* The slots of a process that has just started.
LEMMA EmptySlots == [e \in {} |-> 0] \in Slots
<1>1. [e \in {} |-> 0] \in [{} -> Times] /\ {} \in SUBSET Envelopes
  OBVIOUS
<1> QED
  BY <1>1 DEF Slots

\* Replaying a finite set in some order lists each of its members once.
LEMMA OrderListsAll ==
    ASSUME NEW S, IsFiniteSet(S), NEW order \in SetToSeqs(S)
    PROVE  /\ DOMAIN order = 1..Cardinality(S) /\ Cardinality(S) \in Nat
           /\ order \in [1..Cardinality(S) -> S]
           /\ \A e \in S : \E i \in 1..Cardinality(S) : order[i] = e
<1> DEFINE n == Cardinality(S)
<1>1. n \in Nat
  BY FS_CardinalityType
<1>2. /\ order \in [1..n -> S]
      /\ \A i, j \in 1..n : i # j => order[i] # order[j]
  BY DEF SetToSeqs
<1> HIDE DEF n
<1> DEFINE listed == {order[i] : i \in 1..n}
<1>3. listed \subseteq S /\ IsFiniteSet(1..n) /\ Cardinality(1..n) = n
  BY <1>1, <1>2, FS_Interval
<1>4. order \in Bijection(1..n, listed)
  BY <1>2 DEF Bijection, Injection, Surjection, IsInjective
<1>5. Cardinality(listed) = n
  BY <1>3, <1>4, FS_Bijection DEF ExistsBijection
<1>6. listed = S
  BY <1>3, <1>5, FS_Subset DEF n
<1> QED
  BY <1>1, <1>2, <1>6 DEF n

\* Pruning drops a prefix in which nothing is recent.
LEMMA PruneKeepsTheRecent ==
    ASSUME NEW hist \in Seq(Times), now \in Times
    PROVE  /\ Prune(hist) \in Seq(Times)
           /\ \E k \in 0..Len(hist) :
                /\ Len(Prune(hist)) = Len(hist) - k
                /\ \A i \in 1..(Len(hist) - k) : Prune(hist)[i] = hist[i + k]
                /\ \A i \in 1..Len(hist) : ElapsedSince(hist[i]) < Window => k < i
<1> DEFINE recent == {i \in DOMAIN hist : ElapsedSince(hist[i]) < Window}
<1>1. DOMAIN hist = 1..Len(hist) /\ Len(hist) \in Nat
  OBVIOUS
<1>2. CASE recent = {}
  <2>1. Prune(hist) = <<>>
    BY <1>2 DEF Prune
  <2>2. Len(<<>>) = 0 /\ <<>> \in Seq(Times)
    OBVIOUS
  <2>3. /\ Len(hist) \in 0..Len(hist)
        /\ Len(Prune(hist)) = Len(hist) - Len(hist)
        /\ 1..(Len(hist) - Len(hist)) = {}
    BY <1>1, <2>1, <2>2
  <2>4. \A i \in 1..Len(hist) : ~(ElapsedSince(hist[i]) < Window)
    BY <1>1, <1>2
  <2> QED
    BY <2>1, <2>2, <2>3, <2>4
<1>3. CASE recent # {}
  <2>1. recent \in SUBSET Nat /\ recent \subseteq 1..Len(hist)
    BY <1>1
  <2> DEFINE m == Min(recent)
  <2>2. m \in recent /\ \A i \in recent : m =< i
    BY <1>3, <2>1, LeastMember
  <2>3. Prune(hist) = SubSeq(hist, m, Len(hist))
    BY <1>3 DEF Prune
  <2>4. m \in 1..Len(hist)
    BY <2>1, <2>2
  <2> HIDE DEF m
  <2>5. /\ SubSeq(hist, m, Len(hist)) \in Seq(Times)
        /\ Len(SubSeq(hist, m, Len(hist))) = Len(hist) - (m - 1)
        /\ \A i \in 1..(Len(hist) - (m - 1)) :
              SubSeq(hist, m, Len(hist))[i] = hist[i + (m - 1)]
    BY <1>1, <2>4
  <2>6. m - 1 \in 0..Len(hist)
    BY <1>1, <2>4
  <2>7. \A i \in 1..Len(hist) : ElapsedSince(hist[i]) < Window => m - 1 < i
    BY <1>1, <2>2, <2>4
  <2> QED
    BY <2>3, <2>5, <2>6, <2>7
<1> QED
  BY <1>2, <1>3

\* Writing one row leaves the others alone.
LEMMA WithRowFacts ==
    ASSUME TypeOK, NEW e \in Envelopes, NEW row \in Stored
    PROVE  /\ WithRow(e, row) \in UNION {[S -> Stored] : S \in SUBSET Envelopes}
           /\ DOMAIN WithRow(e, row) = DOMAIN rows \cup {e}
           /\ WithRow(e, row)[e] = row
           /\ \A f \in DOMAIN rows : f # e => WithRow(e, row)[f] = rows[f]
<1>1. rows \in [DOMAIN rows -> Stored] /\ DOMAIN rows \subseteq Envelopes
  BY Parts
<1>2. WithRow(e, row) \in [DOMAIN rows \cup {e} -> Stored]
  BY <1>1 DEF WithRow
<1>3. DOMAIN rows \cup {e} \in SUBSET Envelopes
  BY <1>1
<1> QED
  BY <1>2, <1>3 DEF WithRow

\* Sending a stored payment changes its status only, and it is not Queued then.
LEMMA SentFacts ==
    ASSUME TypeOK, NEW e \in DOMAIN rows
    PROVE  /\ Sent(e) \in UNION {[S -> Stored] : S \in SUBSET Envelopes}
           /\ DOMAIN Sent(e) = DOMAIN rows
           /\ Sent(e)[e].status # "Queued"
           /\ Sent(e)[e].at = rows[e].at
           /\ \A f \in DOMAIN rows : f # e => Sent(e)[f] = rows[f]
<1> DEFINE row == [rows[e] EXCEPT !.status = IF @ = "Queued" THEN "Propagating" ELSE @]
<1>1. e \in Envelopes /\ rows[e] \in Stored
  BY Parts
<1>2. row \in Stored /\ row.status # "Queued" /\ row.at = rows[e].at
  BY <1>1 DEF Stored
<1>3. Sent(e) = WithRow(e, row)
  BY DEF Sent
<1> HIDE DEF row
<1>4. /\ WithRow(e, row) \in UNION {[S -> Stored] : S \in SUBSET Envelopes}
      /\ DOMAIN WithRow(e, row) = DOMAIN rows \cup {e}
      /\ WithRow(e, row)[e] = row
      /\ \A f \in DOMAIN rows : f # e => WithRow(e, row)[f] = rows[f]
  BY <1>1, <1>2, WithRowFacts
<1>5. DOMAIN rows \cup {e} = DOMAIN rows
  OBVIOUS
<1> QED
  BY <1>2, <1>3, <1>4, <1>5

\* Type correctness (stores, queue, guard history, slots and tasks).
LEMMA StepTypes == TypeOK /\ MemoryAgrees /\ [Next]_vars => TypeOK'
<1> SUFFICES ASSUME TypeOK, MemoryAgrees, [Next]_vars PROVE TypeOK'
  OBVIOUS
<1> USE DEF TypeOK
<1>1. ASSUME NEW e \in Envelopes, Push(e) PROVE TypeOK'
  <2>1. [at |-> now, status |-> "Queued"] \in Stored /\ [id |-> e, at |-> now] \in Entries
    BY DEF Stored, Entries
  <2>2. Prune(history) \in Seq(Times) /\ Append(Prune(history), now) \in Seq(Times)
    BY PruneKeepsTheRecent
  <2>3. WithRow(e, [at |-> now, status |-> "Queued"])
          \in UNION {[S -> Stored] : S \in SUBSET Envelopes}
    BY <2>1, WithRowFacts
  <2>4. /\ history' \in {history, Prune(history), Append(Prune(history), now)}
        /\ heap' \in {heap, heap \cup {[id |-> e, at |-> now]}}
        /\ rows' \in {rows, WithRow(e, [at |-> now, status |-> "Queued"])}
        /\ UNCHANGED <<now, inFlight, held>>
    BY <1>1 DEF Push
  <2> QED
    BY <2>1, <2>2, <2>3, <2>4
<1>2. ASSUME NEW e \in Envelopes, Acknowledge(e) PROVE TypeOK'
  <2>1. [rows[e] EXCEPT !.status = "Acknowledged"] \in Stored
    BY <1>2, Parts DEF Acknowledge, Stored
  <2>2. rows' \in UNION {[S -> Stored] : S \in SUBSET Envelopes} /\ inFlight' \in Slots
    BY <1>2, <2>1, WithRowFacts, SlotOperations DEF Acknowledge
  <2> QED
    BY <1>2, <2>2 DEF Acknowledge
<1>3. ASSUME NEW e \in Envelopes, Abandon(e) PROVE TypeOK'
  BY <1>3, SlotOperations DEF Abandon
<1>4. ASSUME NEW t \in Tasks, Pop(t) PROVE TypeOK'
  <2>1. PICK x \in Tops(heap) : /\ heap' = heap \ {x}
                                /\ held' = [held EXCEPT ![t] =
                                     IF rows[x.id].status = "Queued" THEN x.id ELSE None]
    BY <1>4 DEF Pop
  <2>2. x.id \in Envelopes
    BY DEF Tops, Entries
  <2>3. held' \in [Tasks -> Envelopes \cup {None}]
    BY <2>1, <2>2
  <2> QED
    BY <1>4, <2>1, <2>3, SlotOperations DEF Pop
<1>5. ASSUME NEW t \in Tasks, TryAcquire(t) PROVE TypeOK'
  <2>1. held[t] # None /\ held[t] \in Envelopes /\ held[t] \in DOMAIN rows
    BY <1>5 DEF TryAcquire, MemoryAgrees
  <2>2. /\ inFlight' \in {SweepExpired(inFlight), Taken(SweepExpired(inFlight), held[t])}
        /\ rows' \in {rows, Sent(held[t])}
        /\ held' \in {held, [held EXCEPT ![t] = None]}
        /\ UNCHANGED <<now, heap, history>>
    BY <1>5 DEF TryAcquire
  <2>3. Sent(held[t]) \in UNION {[S -> Stored] : S \in SUBSET Envelopes}
    BY <2>1, SentFacts
  <2> QED
    BY <2>1, <2>2, <2>3, SlotOperations
<1>6. ASSUME NEW t \in Tasks, NEW e \in Envelopes, Retry(t, e) PROVE TypeOK'
  BY <1>6, SlotOperations DEF Retry
<1>7. ASSUME ReleaseExpired PROVE TypeOK'
  BY <1>7, SlotOperations DEF ReleaseExpired
<1>8. ASSUME Tick PROVE TypeOK'
  BY <1>8, OutboundAssumption DEF Tick, Times
<1>9. ASSUME Restart PROVE TypeOK'
  <2>1. heap' \in SUBSET Entries
    BY <1>9, Parts DEF Restart, RestoredHeap, Entries
  <2>2. inFlight' \in Slots /\ held' \in [Tasks -> Envelopes \cup {None}]
    BY <1>9, EmptySlots DEF Restart
  <2>3. history' \in Seq(Times)
    <3>1. PICK order \in SetToSeqs(Emergencies) :
             history' = [i \in DOMAIN order |-> rows[order[i]].at]
      BY <1>9 DEF Restart, Replayed
    <3>2. Emergencies \subseteq DOMAIN rows /\ IsFiniteSet(Emergencies)
      BY Parts, FS_Subset DEF Emergencies
    <3>3. history' \in [1..Cardinality(Emergencies) -> Times]
      BY <3>1, <3>2, OrderListsAll, Parts
    <3> QED
      BY <3>2, <3>3, FS_CardinalityType
  <2> QED
    BY <1>9, <2>1, <2>2, <2>3 DEF Restart
<1>10. ASSUME UNCHANGED vars PROVE TypeOK'
  BY <1>10 DEF vars, Stored, Entries, Slots
<1> QED
  BY <1>1, <1>2, <1>3, <1>4, <1>5, <1>6, <1>7, <1>8, <1>9, <1>10 DEF Next

-----------------------------------------------------------------------------
\* What Push does to the rows and the queue when it admits a payment.
LEMMA AdmissionFacts ==
    ASSUME TypeOK, NEW e \in Envelopes, e \notin DOMAIN rows,
           rows' = WithRow(e, [at |-> now, status |-> "Queued"])
    PROVE  /\ DOMAIN rows' = DOMAIN rows \cup {e}
           /\ rows'[e] = [at |-> now, status |-> "Queued"]
           /\ \A f \in DOMAIN rows : f # e /\ rows'[f] = rows[f]
<1> DEFINE row == [at |-> now, status |-> "Queued"]
<1>1. row \in Stored
  BY DEF TypeOK, Stored
<1> HIDE DEF row
<1>2. rows' = WithRow(e, row)
  BY DEF row
<1>3. /\ DOMAIN WithRow(e, row) = DOMAIN rows \cup {e}
      /\ WithRow(e, row)[e] = row
      /\ \A f \in DOMAIN rows : f # e => WithRow(e, row)[f] = rows[f]
  BY <1>1, WithRowFacts
<1> QED
  BY <1>2, <1>3 DEF row

\* What confirming a payment does to its row.
LEMMA ConfirmationFacts ==
    ASSUME TypeOK, NEW e \in Envelopes, Acknowledge(e)
    PROVE  /\ DOMAIN rows' = DOMAIN rows
           /\ rows'[e].status = "Acknowledged" /\ rows'[e].at = rows[e].at
           /\ \A f \in DOMAIN rows : f # e => rows'[f] = rows[f]
<1>1. e \in DOMAIN rows /\ rows[e] \in Stored
  BY Parts DEF Acknowledge
<1> DEFINE row == [rows[e] EXCEPT !.status = "Acknowledged"]
<1>2. row \in Stored /\ row.status = "Acknowledged" /\ row.at = rows[e].at
  BY <1>1 DEF Stored
<1>3. rows' = WithRow(e, row)
  BY DEF Acknowledge
<1> HIDE DEF row
<1>4. DOMAIN rows \cup {e} = DOMAIN rows
  BY <1>1
<1> QED
  BY <1>2, <1>3, <1>4, WithRowFacts

\* Queue, tasks and slots keep agreeing with the rows.
LEMMA StepMemoryAgrees == TypeOK /\ MemoryAgrees /\ [Next]_vars => MemoryAgrees'
<1> SUFFICES ASSUME TypeOK, MemoryAgrees, [Next]_vars PROVE MemoryAgrees'
  OBVIOUS
<1> USE DEF MemoryAgrees
<1>1. ASSUME NEW e \in Envelopes, Push(e) PROVE MemoryAgrees'
  <2>1. CASE UNCHANGED <<rows, heap>>
    BY <1>1, <2>1 DEF Push
  <2>2. CASE /\ heap' = heap \cup {[id |-> e, at |-> now]}
             /\ rows' = WithRow(e, [at |-> now, status |-> "Queued"])
    <3>1. e \notin DOMAIN rows /\ UNCHANGED <<inFlight, held>>
      BY <1>1 DEF Push
    <3>2. /\ DOMAIN rows' = DOMAIN rows \cup {e}
          /\ rows'[e] = [at |-> now, status |-> "Queued"]
          /\ \A f \in DOMAIN rows : f # e /\ rows'[f] = rows[f]
      BY <2>2, <3>1, AdmissionFacts
    <3>3. \A x \in heap' : x.id \in DOMAIN rows' /\ x.at = rows'[x.id].at
      BY <2>2, <3>2
    <3> QED
      BY <3>1, <3>2, <3>3
  <2> QED
    BY <1>1, <2>1, <2>2 DEF Push
<1>2. ASSUME NEW e \in Envelopes, Acknowledge(e) PROVE MemoryAgrees'
  <2>1. /\ DOMAIN rows' = DOMAIN rows
        /\ rows'[e].status = "Acknowledged" /\ rows'[e].at = rows[e].at
        /\ \A f \in DOMAIN rows : f # e => rows'[f] = rows[f]
    BY <1>2, ConfirmationFacts
  <2>2. \A f \in DOMAIN inFlight' : f \in DOMAIN inFlight
    BY <1>2 DEF Acknowledge, Without
  <2>3. UNCHANGED <<heap, held>>
    BY <1>2 DEF Acknowledge
  <2>4. \A f \in DOMAIN rows : rows'[f].at = rows[f].at
    BY <2>1
  <2>5. \A f \in DOMAIN rows : rows[f].status # "Queued" => rows'[f].status # "Queued"
    BY <2>1
  <2> QED
    BY <2>1, <2>2, <2>3, <2>4, <2>5
<1>3. ASSUME NEW e \in Envelopes, Abandon(e) PROVE MemoryAgrees'
  BY <1>3 DEF Abandon, Without
<1>4. ASSUME NEW t \in Tasks, Pop(t) PROVE MemoryAgrees'
  <2>1. PICK x \in Tops(heap) : /\ heap' = heap \ {x}
                                /\ held' = [held EXCEPT ![t] =
                                     IF rows[x.id].status = "Queued" THEN x.id ELSE None]
    BY <1>4 DEF Pop
  <2>2. x.id \in DOMAIN rows
    BY DEF Tops
  <2>3. \A u \in Tasks : held'[u] # None => held'[u] \in DOMAIN rows
    BY <2>1, <2>2 DEF TypeOK
  <2>4. \A e \in DOMAIN inFlight' : e \in DOMAIN inFlight
    BY <1>4, SlotOperations DEF Pop
  <2> QED
    BY <1>4, <2>1, <2>3, <2>4 DEF Pop
<1>5. ASSUME NEW t \in Tasks, TryAcquire(t) PROVE MemoryAgrees'
  <2>1. held[t] # None /\ held[t] \in DOMAIN rows
    BY <1>5 DEF TryAcquire
  <2>2. /\ held' \in {held, [held EXCEPT ![t] = None]}
        /\ UNCHANGED <<now, heap, history>>
    BY <1>5 DEF TryAcquire
  <2>3. \A u \in Tasks : held'[u] # None => held'[u] = held[u]
    BY <2>2 DEF TypeOK
  <2>4. CASE inFlight' = SweepExpired(inFlight) /\ UNCHANGED rows
    BY <2>2, <2>3, <2>4, SlotOperations
  <2>5. CASE inFlight' = Taken(SweepExpired(inFlight), held[t]) /\ rows' = Sent(held[t])
    <3>1. /\ DOMAIN rows' = DOMAIN rows
          /\ rows'[held[t]].status # "Queued"
          /\ rows'[held[t]].at = rows[held[t]].at
          /\ \A f \in DOMAIN rows : f # held[t] => rows'[f] = rows[f]
      BY <2>1, <2>5, SentFacts
    <3>2. \A f \in DOMAIN inFlight' : f \in DOMAIN inFlight \/ f = held[t]
      BY <2>5, SlotOperations DEF Taken
    <3>3. \A f \in DOMAIN rows : rows'[f].at = rows[f].at
      BY <3>1
    <3>4. \A f \in DOMAIN inFlight' : f \in DOMAIN rows' /\ rows'[f].status # "Queued"
      BY <2>1, <3>1, <3>2
    <3> QED
      BY <2>2, <2>3, <3>1, <3>3, <3>4
  <2> QED
    BY <1>5, <2>4, <2>5 DEF TryAcquire
<1>6. ASSUME NEW t \in Tasks, NEW e \in Envelopes, Retry(t, e) PROVE MemoryAgrees'
  BY <1>6, SlotOperations DEF Retry, TypeOK
<1>7. ASSUME ReleaseExpired PROVE MemoryAgrees'
  BY <1>7, SlotOperations DEF ReleaseExpired
<1>8. ASSUME Tick PROVE MemoryAgrees'
  BY <1>8 DEF Tick
<1>9. ASSUME Restart PROVE MemoryAgrees'
  BY <1>9 DEF Restart, RestoredHeap
<1>10. ASSUME UNCHANGED vars PROVE MemoryAgrees'
  BY <1>10 DEF vars
<1> QED
  BY <1>1, <1>2, <1>3, <1>4, <1>5, <1>6, <1>7, <1>8, <1>9, <1>10 DEF Next

\* No payment is lost between the store, the queue and the tasks.
LEMMA StepNothingForgotten ==
    TypeOK /\ MemoryAgrees /\ NothingForgotten /\ [Next]_vars => NothingForgotten'
<1> SUFFICES ASSUME TypeOK, MemoryAgrees, NothingForgotten, [Next]_vars
             PROVE  NothingForgotten'
  OBVIOUS
<1> USE DEF NothingForgotten
<1>1. ASSUME NEW e \in Envelopes, Push(e) PROVE NothingForgotten'
  <2>1. CASE UNCHANGED <<rows, heap>>
    BY <1>1, <2>1 DEF Push
  <2>2. CASE /\ heap' = heap \cup {[id |-> e, at |-> now]}
             /\ rows' = WithRow(e, [at |-> now, status |-> "Queued"])
    <3>1. e \notin DOMAIN rows /\ UNCHANGED <<inFlight, held>>
      BY <1>1 DEF Push
    <3>2. /\ DOMAIN rows' = DOMAIN rows \cup {e}
          /\ rows'[e] = [at |-> now, status |-> "Queued"]
          /\ \A f \in DOMAIN rows : f # e /\ rows'[f] = rows[f]
      BY <2>2, <3>1, AdmissionFacts
    <3> QED
      BY <2>2, <3>1, <3>2
  <2> QED
    BY <1>1, <2>1, <2>2 DEF Push
<1>2. ASSUME NEW e \in Envelopes, Acknowledge(e) PROVE NothingForgotten'
  <2>1. /\ DOMAIN rows' = DOMAIN rows
        /\ rows'[e].status = "Acknowledged"
        /\ \A f \in DOMAIN rows : f # e => rows'[f] = rows[f]
    BY <1>2, ConfirmationFacts
  <2> QED
    BY <1>2, <2>1 DEF Acknowledge
<1>3. ASSUME NEW e \in Envelopes, Abandon(e) PROVE NothingForgotten'
  BY <1>3 DEF Abandon
<1>4. ASSUME NEW t \in Tasks, Pop(t) PROVE NothingForgotten'
  <2>1. PICK x \in Tops(heap) : /\ heap' = heap \ {x}
                                /\ held' = [held EXCEPT ![t] =
                                     IF rows[x.id].status = "Queued" THEN x.id ELSE None]
    BY <1>4 DEF Pop
  <2>2. held[t] = None /\ UNCHANGED rows
    BY <1>4 DEF Pop
  <2> SUFFICES ASSUME NEW e \in DOMAIN rows, rows[e].status = "Queued"
               PROVE  \/ [id |-> e, at |-> rows[e].at] \in heap'
                      \/ \E u \in Tasks : held'[u] = e
    BY <2>2
  <2>3. CASE [id |-> e, at |-> rows[e].at] \in heap
    <3>1. CASE x = [id |-> e, at |-> rows[e].at]
      <4>1. held'[t] = e
        BY <2>1, <3>1 DEF TypeOK
      <4> QED
        BY <4>1
    <3>2. CASE x # [id |-> e, at |-> rows[e].at]
      BY <2>1, <2>3, <3>2
    <3> QED
      BY <3>1, <3>2
  <2>4. ASSUME NEW u \in Tasks, held[u] = e PROVE held'[u] = e
    <3>1. e # None
      BY Parts, NoneAssumption
    <3> QED
      BY <2>1, <2>2, <2>4, <3>1 DEF TypeOK
  <2> QED
    BY <2>3, <2>4
<1>5. ASSUME NEW t \in Tasks, TryAcquire(t) PROVE NothingForgotten'
  <2>1. held[t] # None /\ held[t] \in DOMAIN rows /\ UNCHANGED heap
    BY <1>5 DEF TryAcquire, MemoryAgrees
  <2>2. CASE held' = held /\ UNCHANGED rows
    BY <2>1, <2>2
  <2>3. CASE /\ held[t] \in DOMAIN SweepExpired(inFlight)
             /\ held' = [held EXCEPT ![t] = None] /\ UNCHANGED rows
    <3>1. rows[held[t]].status # "Queued"
      BY <2>3, SlotOperations DEF MemoryAgrees
    <3>2. \A u \in Tasks : u # t => held'[u] = held[u]
      BY <2>3 DEF TypeOK
    <3> QED
      BY <2>1, <2>3, <3>1, <3>2
  <2>4. CASE rows' = Sent(held[t]) /\ held' = [held EXCEPT ![t] = None]
    <3>1. /\ DOMAIN rows' = DOMAIN rows
          /\ rows'[held[t]].status # "Queued"
          /\ \A f \in DOMAIN rows : f # held[t] => rows'[f] = rows[f]
      BY <2>1, <2>4, SentFacts
    <3>2. \A u \in Tasks : u # t => held'[u] = held[u]
      BY <2>4 DEF TypeOK
    <3> QED
      BY <2>1, <3>1, <3>2
  <2> QED
    BY <1>5, <2>2, <2>3, <2>4 DEF TryAcquire
<1>6. ASSUME NEW t \in Tasks, NEW e \in Envelopes, Retry(t, e) PROVE NothingForgotten'
  <2>1. \A u \in Tasks : held[u] # None => held'[u] = held[u]
    BY <1>6 DEF Retry, TypeOK
  <2>2. \A f \in DOMAIN rows : f # None
    BY Parts, NoneAssumption
  <2> QED
    BY <1>6, <2>1, <2>2 DEF Retry
<1>7. ASSUME ReleaseExpired PROVE NothingForgotten'
  BY <1>7 DEF ReleaseExpired
<1>8. ASSUME Tick PROVE NothingForgotten'
  BY <1>8 DEF Tick
<1>9. ASSUME Restart PROVE NothingForgotten'
  BY <1>9 DEF Restart, RestoredHeap
<1>10. ASSUME UNCHANGED vars PROVE NothingForgotten'
  BY <1>10 DEF vars
<1> QED
  BY <1>1, <1>2, <1>3, <1>4, <1>5, <1>6, <1>7, <1>8, <1>9, <1>10 DEF Next

\* The window is never overrun: a slot is taken only after the sweep left room.
LEMMA StepWindowBound ==
    TypeOK /\ MemoryAgrees /\ WindowBound /\ [Next]_vars => WindowBound'
<1> SUFFICES ASSUME TypeOK, MemoryAgrees, WindowBound, [Next]_vars
             PROVE  WindowBound'
  OBVIOUS
<1> USE DEF WindowBound
<1>1. IsFiniteSet(DOMAIN inFlight) /\ MaxInFlight \in Nat
  BY Parts, OutboundAssumption
<1>2. \A D \in SUBSET DOMAIN inFlight :
         IsFiniteSet(D) /\ Cardinality(D) \in Nat /\ Cardinality(D) =< MaxInFlight
  <2> SUFFICES ASSUME NEW D \in SUBSET DOMAIN inFlight
               PROVE  IsFiniteSet(D) /\ Cardinality(D) \in Nat /\ Cardinality(D) =< MaxInFlight
    OBVIOUS
  <2>1. /\ IsFiniteSet(D) /\ Cardinality(D) =< Cardinality(DOMAIN inFlight)
        /\ Cardinality(DOMAIN inFlight) \in Nat
    BY <1>1, FS_Subset, FS_CardinalityType
  <2>2. Cardinality(D) \in Nat
    BY <2>1, FS_CardinalityType
  <2> QED
    BY <1>1, <2>1, <2>2
<1>3. DOMAIN inFlight' \subseteq DOMAIN inFlight => WindowBound'
  BY <1>2
<1>4. DOMAIN SweepExpired(inFlight) \in SUBSET DOMAIN inFlight
  BY SlotOperations
<1>5. ASSUME NEW t \in Tasks, TryAcquire(t) PROVE WindowBound'
  <2> DEFINE swept == SweepExpired(inFlight)
             e == held[t]
  <2>1. CASE inFlight' = swept
    BY <1>3, <1>4, <2>1
  <2>2. CASE /\ e \notin DOMAIN swept /\ Cardinality(DOMAIN swept) < MaxInFlight
             /\ inFlight' = Taken(swept, e)
    <3>1. DOMAIN inFlight' = DOMAIN swept \cup {e}
      BY <2>2 DEF Taken
    <3>2. Cardinality(DOMAIN swept \cup {e}) = Cardinality(DOMAIN swept) + 1
      BY <1>2, <1>4, <2>2, FS_AddElement
    <3> QED
      BY <1>1, <1>2, <1>4, <2>2, <3>1, <3>2
  <2> QED
    BY <1>5, <2>1, <2>2 DEF TryAcquire
<1>6. ASSUME NEW e \in Envelopes, Push(e) PROVE WindowBound'
  BY <1>6 DEF Push
<1>7. ASSUME NEW e \in Envelopes, Acknowledge(e) \/ Abandon(e) PROVE WindowBound'
  BY <1>3, <1>7 DEF Acknowledge, Abandon, Without
<1>8. ASSUME NEW t \in Tasks, Pop(t) PROVE WindowBound'
  BY <1>3, <1>4, <1>8 DEF Pop
<1>9. ASSUME NEW t \in Tasks, NEW e \in Envelopes, Retry(t, e) PROVE WindowBound'
  BY <1>3, <1>4, <1>9 DEF Retry
<1>10. CASE ReleaseExpired
  BY <1>3, <1>4, <1>10 DEF ReleaseExpired
<1>11. CASE Restart
  BY <1>3, <1>11 DEF Restart
<1>12. CASE Tick \/ UNCHANGED vars
  BY <1>12 DEF Tick, vars
<1> QED
  BY <1>5, <1>6, <1>7, <1>8, <1>9, <1>10, <1>11, <1>12 DEF Next

-----------------------------------------------------------------------------
\* Only Push adds payments: every other step leaves the stored set and the
\* admission times alone.
SameTimes ==
    /\ DOMAIN rows' = DOMAIN rows
    /\ \A e \in DOMAIN rows : rows'[e].at = rows[e].at

LEMMA OnlyPushAdmits ==
    ASSUME TypeOK, MemoryAgrees, [Next]_vars
    PROVE  SameTimes \/ \E e \in Envelopes : Push(e)
<1> USE DEF SameTimes
<1>1. ASSUME NEW e \in Envelopes, Acknowledge(e) PROVE SameTimes
  <2>1. /\ DOMAIN rows' = DOMAIN rows
        /\ rows'[e].at = rows[e].at
        /\ \A f \in DOMAIN rows : f # e => rows'[f] = rows[f]
    BY <1>1, ConfirmationFacts
  <2> QED
    BY <2>1
<1>2. ASSUME NEW t \in Tasks, TryAcquire(t) PROVE SameTimes
  <2>1. held[t] \in DOMAIN rows
    BY <1>2 DEF TryAcquire, MemoryAgrees
  <2>2. /\ DOMAIN Sent(held[t]) = DOMAIN rows
        /\ Sent(held[t])[held[t]].at = rows[held[t]].at
        /\ \A f \in DOMAIN rows : f # held[t] => Sent(held[t])[f] = rows[f]
    BY <2>1, SentFacts
  <2>3. rows' = rows \/ rows' = Sent(held[t])
    BY <1>2 DEF TryAcquire
  <2> QED
    BY <2>2, <2>3
<1>3. ASSUME NEW e \in Envelopes, Abandon(e) PROVE SameTimes
  BY <1>3 DEF Abandon
<1>4. ASSUME NEW t \in Tasks, Pop(t) PROVE SameTimes
  BY <1>4 DEF Pop
<1>5. ASSUME NEW t \in Tasks, NEW e \in Envelopes, Retry(t, e) PROVE SameTimes
  BY <1>5 DEF Retry
<1>6. CASE ReleaseExpired \/ Tick \/ Restart \/ UNCHANGED vars
  BY <1>6 DEF ReleaseExpired, Tick, Restart, vars
<1> QED
  BY <1>1, <1>2, <1>3, <1>4, <1>5, <1>6 DEF Next

\* What is recent after a step that admits nothing was recent before it, as
\* the clock of a living process does not go back.
LEMMA RecentShrinks ==
    ASSUME TypeOK, TypeOK', SameTimes, now' >= now
    PROVE  Recent' \subseteq Recent
<1> SUFFICES ASSUME NEW e \in Recent' PROVE e \in Recent
  OBVIOUS
<1>1. /\ e \in DOMAIN rows /\ PriorityOf[e] = Emergency
      /\ ElapsedSince(rows[e].at)' < Window
  BY DEF Recent, Emergencies, SameTimes
<1>2. rows'[e].at = rows[e].at /\ rows[e].at \in Int
  BY <1>1, Parts DEF SameTimes
<1>3. now \in Int /\ now' \in Int
  BY DEF TypeOK, Times
<1>4. PICK a \in Int : a = rows[e].at /\ a = rows'[e].at
  BY <1>2
<1>5. (IF now' >= a THEN now' - a ELSE 0) < Window
  BY <1>1, <1>4 DEF ElapsedSince
<1>6. ElapsedSince(a) < Window
  <2>1. Window \in Int
    BY OutboundAssumption
  <2>2. CASE now >= a
    BY <1>3, <1>4, <1>5, <2>1, <2>2 DEF ElapsedSince
  <2>3. CASE ~(now >= a)
    <3>1. ElapsedSince(a) = 0
      BY <2>3 DEF ElapsedSince
    <3>2. 0 < Window
      BY <1>3, <1>4, <1>5, <2>1
    <3> QED
      BY <3>1, <3>2
  <2> QED
    BY <2>2, <2>3
<1> QED
  BY <1>1, <1>4, <1>6 DEF Recent, Emergencies

\* Pruning loses no entry the guard still needs, and what is left is at
\* least as long as the recent payments are many.
LEMMA PrunedStillCounts ==
    ASSUME TypeOK, GuardRemembers
    PROVE  /\ \E f \in [Recent -> DOMAIN Prune(history)] : Counted(Recent, Prune(history), f)
           /\ IsFiniteSet(Recent) /\ Cardinality(Recent) \in Nat
           /\ Cardinality(Recent) =< Len(Prune(history))
<1>1. PICK f \in [Recent -> DOMAIN history] : Counted(Recent, history, f)
  BY DEF GuardRemembers
<1>2. history \in Seq(Times) /\ now \in Times
  BY DEF TypeOK
<1>3. /\ Prune(history) \in Seq(Times)
      /\ \E k \in 0..Len(history) :
           /\ Len(Prune(history)) = Len(history) - k
           /\ \A i \in 1..(Len(history) - k) : Prune(history)[i] = history[i + k]
           /\ \A i \in 1..Len(history) : ElapsedSince(history[i]) < Window => k < i
  BY <1>2, PruneKeepsTheRecent
<1>4. PICK k \in 0..Len(history) :
           /\ Len(Prune(history)) = Len(history) - k
           /\ \A i \in 1..(Len(history) - k) : Prune(history)[i] = history[i + k]
           /\ \A i \in 1..Len(history) : ElapsedSince(history[i]) < Window => k < i
  BY <1>3
<1>5. /\ DOMAIN history = 1..Len(history) /\ Len(history) \in Nat
      /\ DOMAIN Prune(history) = 1..Len(Prune(history)) /\ Len(Prune(history)) \in Nat
  BY <1>2, <1>3
<1>6. \A e \in Recent : /\ f[e] \in 1..Len(history) /\ k < f[e]
                        /\ f[e] - k \in 1..(Len(history) - k)
                        /\ history[f[e]] = rows[e].at
  <2> SUFFICES ASSUME NEW e \in Recent
               PROVE  /\ f[e] \in 1..Len(history) /\ k < f[e]
                      /\ f[e] - k \in 1..(Len(history) - k)
                      /\ history[f[e]] = rows[e].at
    OBVIOUS
  <2>1. f[e] \in 1..Len(history) /\ history[f[e]] = rows[e].at
    BY <1>1, <1>5 DEF Counted
  <2>2. ElapsedSince(rows[e].at) < Window
    BY DEF Recent
  <2>3. k < f[e]
    BY <1>4, <2>1, <2>2
  <2> QED
    BY <1>5, <2>1, <2>3
<1> DEFINE g == [e \in Recent |-> f[e] - k]
<1>7. g \in [Recent -> DOMAIN Prune(history)]
  BY <1>4, <1>5, <1>6
<1>8. \A d, e \in Recent : g[d] = g[e] => d = e
  BY <1>1, <1>4, <1>6 DEF Counted
<1>9. \A e \in Recent : Prune(history)[g[e]] = rows[e].at
  <2> SUFFICES ASSUME NEW e \in Recent PROVE Prune(history)[f[e] - k] = rows[e].at
    OBVIOUS
  <2>1. Prune(history)[f[e] - k] = history[(f[e] - k) + k]
    BY <1>4, <1>6
  <2>2. (f[e] - k) + k = f[e]
    BY <1>4, <1>5, <1>6
  <2> QED
    BY <1>6, <2>1, <2>2
<1> HIDE DEF g
<1>10. Counted(Recent, Prune(history), g)
  BY <1>7, <1>8, <1>9 DEF Counted
<1>11. g \in Injection(Recent, 1..Len(Prune(history)))
  BY <1>5, <1>7, <1>8 DEF Injection, IsInjective
<1>12. /\ IsFiniteSet(1..Len(Prune(history)))
       /\ Cardinality(1..Len(Prune(history))) = Len(Prune(history))
  <2>1. \A n \in Nat : IsFiniteSet(1..n) /\ Cardinality(1..n) = n
    <3> SUFFICES ASSUME NEW n \in Nat PROVE IsFiniteSet(1..n) /\ Cardinality(1..n) = n
      OBVIOUS
    <3> QED
      BY FS_Interval
  <2> QED
    BY <1>5, <2>1
<1>13. IsFiniteSet(Recent) /\ Cardinality(Recent) =< Len(Prune(history))
  BY <1>11, <1>12, FS_Injection
<1> QED
  BY <1>7, <1>10, <1>13, FS_CardinalityType

\* Admitting an Emergency payment adds its own entry.
LEMMA AdmittedIsCounted ==
    ASSUME TypeOK, GuardRemembers, NEW e \in Envelopes, e \notin DOMAIN rows,
           rows' = WithRow(e, [at |-> now, status |-> "Queued"]),
           history' = Append(Prune(history), now), UNCHANGED now
    PROVE  GuardRemembers'
<1>1. PICK f \in [Recent -> DOMAIN Prune(history)] : Counted(Recent, Prune(history), f)
  BY PrunedStillCounts
<1>2. /\ DOMAIN rows' = DOMAIN rows \cup {e}
      /\ rows'[e] = [at |-> now, status |-> "Queued"]
      /\ \A d \in DOMAIN rows : d # e /\ rows'[d] = rows[d]
  BY AdmissionFacts
<1>3. now \in Times /\ Prune(history) \in Seq(Times)
  BY PruneKeepsTheRecent DEF TypeOK
<1> DEFINE n == Len(Prune(history))
<1>4. /\ n \in Nat /\ DOMAIN Prune(history) = 1..n
      /\ DOMAIN history' = 1..(n + 1) /\ history'[n + 1] = now
      /\ \A i \in 1..n : history'[i] = Prune(history)[i]
  BY <1>3
<1> HIDE DEF n
<1>5. Recent' \subseteq Recent \cup {e} /\ e \notin Recent
  BY <1>2 DEF Recent, Emergencies, ElapsedSince
<1> DEFINE g == [d \in Recent' |-> IF d = e THEN n + 1 ELSE f[d]]
<1>6. \A d \in Recent' : \/ d = e /\ g[d] = n + 1
                         \/ d \in Recent /\ d # e /\ g[d] = f[d] /\ f[d] \in 1..n
  BY <1>1, <1>4, <1>5
<1>7. g \in [Recent' -> DOMAIN history']
  BY <1>4, <1>6
<1>8. \A c, d \in Recent' : g[c] = g[d] => c = d
  BY <1>1, <1>4, <1>6 DEF Counted
<1>9. \A d \in Recent' : history'[g[d]] = rows'[d].at
  <2> SUFFICES ASSUME NEW d \in Recent' PROVE history'[g[d]] = rows'[d].at
    OBVIOUS
  <2>1. CASE d = e /\ g[d] = n + 1
    BY <1>2, <1>4, <2>1
  <2>2. CASE d \in Recent /\ d # e /\ g[d] = f[d] /\ f[d] \in 1..n
    <3>1. history'[g[d]] = Prune(history)[f[d]] /\ Prune(history)[f[d]] = rows[d].at
      BY <1>1, <1>4, <2>2 DEF Counted
    <3>2. rows'[d] = rows[d]
      BY <1>2, <2>2 DEF Recent, Emergencies
    <3> QED
      BY <3>1, <3>2
  <2> QED
    BY <1>6, <2>1, <2>2
<1> HIDE DEF g
<1> QED
  BY <1>7, <1>8, <1>9 DEF GuardRemembers, Counted

\* After a restart the replayed rows fill the guard's history again.
LEMMA ReplayIsCounted ==
    ASSUME TypeOK, Restart
    PROVE  GuardRemembers'
<1>1. PICK order \in SetToSeqs(Emergencies) :
         history' = [i \in DOMAIN order |-> rows[order[i]].at]
  BY DEF Restart, Replayed
<1> DEFINE n == Cardinality(Emergencies)
<1>2. Emergencies \subseteq DOMAIN rows /\ IsFiniteSet(Emergencies)
  BY Parts, FS_Subset DEF Emergencies
<1>3. /\ DOMAIN order = 1..n /\ n \in Nat
      /\ order \in [1..n -> Emergencies]
      /\ \A e \in Emergencies : \E i \in 1..n : order[i] = e
  BY <1>2, OrderListsAll
<1> HIDE DEF n
<1>4. UNCHANGED rows /\ Emergencies' = Emergencies
  BY DEF Restart, Emergencies
<1>5. Recent' \subseteq Emergencies
  BY <1>4 DEF Recent
<1>6. DOMAIN history' = 1..n /\ \A i \in 1..n : history'[i] = rows[order[i]].at
  BY <1>1, <1>3
<1> DEFINE g == [e \in Recent' |-> CHOOSE i \in 1..n : order[i] = e]
<1>7. \A e \in Recent' : g[e] \in 1..n /\ order[g[e]] = e
  BY <1>3, <1>5
<1>8. g \in [Recent' -> DOMAIN history']
  BY <1>6, <1>7
<1> HIDE DEF g
<1>9. \A d, e \in Recent' : g[d] = g[e] => d = e
  BY <1>7
<1>10. \A e \in Recent' : history'[g[e]] = rows'[e].at
  BY <1>4, <1>6, <1>7
<1> QED
  BY <1>8, <1>9, <1>10 DEF GuardRemembers, Counted

\* The guard goes on remembering when nothing is admitted and its history
\* was kept, or pruned.
LEMMA KeptIsCounted ==
    ASSUME TypeOK, TypeOK', GuardRemembers, SameTimes, now' >= now,
           history' \in {history, Prune(history)}
    PROVE  GuardRemembers'
<1>1. PICK f \in [Recent -> DOMAIN history'] : Counted(Recent, history', f)
  <2>1. \E f \in [Recent -> DOMAIN Prune(history)] : Counted(Recent, Prune(history), f)
    BY PrunedStillCounts
  <2>2. \E f \in [Recent -> DOMAIN history] : Counted(Recent, history, f)
    BY DEF GuardRemembers
  <2>3. CASE history' = history
    BY <2>2, <2>3
  <2>4. CASE history' = Prune(history)
    BY <2>1, <2>4
  <2> QED
    BY <2>3, <2>4
<1>2. Recent' \subseteq Recent
  BY RecentShrinks
<1> DEFINE g == [e \in Recent' |-> f[e]]
<1>3. g \in [Recent' -> DOMAIN history']
  BY <1>1, <1>2
<1>4. \A d, e \in Recent' : g[d] = g[e] => d = e
  BY <1>1, <1>2 DEF Counted
<1>5. \A e \in Recent' : e \in DOMAIN rows /\ history'[g[e]] = rows'[e].at
  BY <1>1, <1>2 DEF Counted, SameTimes, Recent, Emergencies
<1> HIDE DEF g
<1> QED
  BY <1>3, <1>4, <1>5 DEF GuardRemembers, Counted

\* A normal payment that is admitted leaves the Emergency payments as they were.
LEMMA NormalIsNotCounted ==
    ASSUME TypeOK, NEW e \in Envelopes, e \notin DOMAIN rows, PriorityOf[e] # Emergency,
           rows' = WithRow(e, [at |-> now, status |-> "Queued"]), UNCHANGED now
    PROVE  /\ Emergencies' = Emergencies /\ Recent' = Recent
           /\ \A d \in Emergencies : rows'[d] = rows[d]
<1>1. /\ DOMAIN rows' = DOMAIN rows \cup {e}
      /\ \A d \in DOMAIN rows : d # e /\ rows'[d] = rows[d]
  BY AdmissionFacts
<1>2. Emergencies' = Emergencies
  BY <1>1 DEF Emergencies
<1>3. \A d \in Emergencies : rows'[d] = rows[d]
  BY <1>1 DEF Emergencies
<1>4. \A d \in Emergencies : ElapsedSince(rows[d].at)' = ElapsedSince(rows[d].at)
  BY <1>3 DEF ElapsedSince
<1> QED
  BY <1>2, <1>3, <1>4 DEF Recent

\* The guard remembers every recent Emergency payment, across every step.
LEMMA StepGuardRemembers ==
    TypeOK /\ TypeOK' /\ MemoryAgrees /\ GuardRemembers /\ [Next]_vars => GuardRemembers'
<1> SUFFICES ASSUME TypeOK, TypeOK', MemoryAgrees, GuardRemembers, [Next]_vars
             PROVE  GuardRemembers'
  OBVIOUS
<1>1. now \in Int
  BY DEF TypeOK, Times
<1>2. ASSUME NEW e \in Envelopes, Push(e) PROVE GuardRemembers'
  <2>1. e \notin DOMAIN rows /\ UNCHANGED now
    BY <1>2 DEF Push
  <2>2. CASE history' = Prune(history) /\ UNCHANGED rows
    BY <1>1, <2>1, <2>2, KeptIsCounted DEF SameTimes
  <2>3. CASE /\ rows' = WithRow(e, [at |-> now, status |-> "Queued"])
             /\ PriorityOf[e] = Emergency /\ history' = Append(Prune(history), now)
    BY <2>1, <2>3, AdmittedIsCounted
  <2>4. CASE /\ rows' = WithRow(e, [at |-> now, status |-> "Queued"])
             /\ PriorityOf[e] # Emergency /\ history' = history
    <3>1. /\ Recent' = Recent
          /\ \A d \in Recent : rows'[d] = rows[d]
      BY <2>1, <2>4, NormalIsNotCounted DEF Recent
    <3> QED
      BY <2>4, <3>1 DEF GuardRemembers, Counted
  <2> QED
    BY <1>2, <2>2, <2>3, <2>4 DEF Push
<1>3. CASE SameTimes /\ history' = history /\ now' >= now
  BY <1>3, KeptIsCounted
<1>4. CASE Restart
  BY <1>4, ReplayIsCounted
<1>5. ASSUME NEW e \in Envelopes, Acknowledge(e) \/ Abandon(e)
      PROVE  history' = history /\ now' = now
  BY <1>5 DEF Acknowledge, Abandon
<1>6. ASSUME NEW t \in Tasks, Pop(t) \/ TryAcquire(t)
      PROVE  history' = history /\ now' = now
  BY <1>6 DEF Pop, TryAcquire
<1>7. ASSUME NEW t \in Tasks, NEW e \in Envelopes, Retry(t, e)
      PROVE  history' = history /\ now' = now
  BY <1>7 DEF Retry
<1>8. CASE ReleaseExpired \/ Tick \/ UNCHANGED vars
  <2>1. history' = history /\ (now' = now \/ now' = now + 1)
    BY <1>8 DEF ReleaseExpired, Tick, vars
  <2>2. SameTimes
    BY <1>8 DEF SameTimes, ReleaseExpired, Tick, vars
  <2> QED
    BY <1>1, <1>3, <2>1, <2>2
<1> QED
  <2>1. CASE \E e \in Envelopes : Push(e)
    BY <1>2, <2>1
  <2>2. CASE SameTimes
    BY <1>1, <1>3, <1>4, <1>5, <1>6, <1>7, <1>8, <1>2, <2>2 DEF Next
  <2> QED
    BY <2>1, <2>2, OnlyPushAdmits

\* A span of Window seconds that holds the payment just admitted holds,
\* besides it, only payments that are recent now.
LEMMA AdmissionKeepsBound ==
    ASSUME TypeOK, GuardRemembers, EmergencyBound,
           NEW e \in Envelopes, e \notin DOMAIN rows,
           rows' = WithRow(e, [at |-> now, status |-> "Queued"]),
           PriorityOf[e] = Emergency, Len(Prune(history)) < MaxCount
    PROVE  EmergencyBound'
<1> DEFINE near(c) == {f \in Emergencies :
                          rows[f].at <= rows[c].at /\ rows[c].at - rows[f].at < Window}
           nearNow(c) == {f \in Emergencies' :
                          rows'[f].at <= rows'[c].at /\ rows'[c].at - rows'[f].at < Window}
<1>1. /\ DOMAIN rows' = DOMAIN rows \cup {e}
      /\ rows'[e].at = now
      /\ \A d \in DOMAIN rows : d # e /\ rows'[d] = rows[d]
  <2>1. [at |-> now, status |-> "Queued"].at = now
    OBVIOUS
  <2> QED
    BY <2>1, AdmissionFacts
<1>2. Emergencies' = Emergencies \cup {e} /\ e \notin Emergencies
  BY <1>1 DEF Emergencies
<1>3. \A d \in Emergencies : rows'[d].at = rows[d].at /\ rows[d].at \in Int
  BY <1>1, Parts DEF Emergencies
<1>4. now \in Int /\ Window \in Int /\ MaxCount \in Nat
  BY OutboundAssumption DEF TypeOK, Times
<1>5. /\ IsFiniteSet(Recent) /\ Cardinality(Recent) \in Nat
      /\ Cardinality(Recent) =< Len(Prune(history))
  BY PrunedStillCounts
<1>6. Prune(history) \in Seq(Times)
  BY PruneKeepsTheRecent DEF TypeOK
<1>7. Cardinality(Recent \cup {e}) =< MaxCount /\ IsFiniteSet(Recent \cup {e})
  <2>1. e \notin Recent
    BY <1>2 DEF Recent
  <2>2. Cardinality(Recent \cup {e}) = Cardinality(Recent) + 1
        /\ IsFiniteSet(Recent \cup {e})
    BY <1>5, <2>1, FS_AddElement
  <2> QED
    BY <1>4, <1>5, <1>6, <2>2
<1> SUFFICES ASSUME NEW c \in Emergencies' PROVE Cardinality(nearNow(c)) =< MaxCount
  BY DEF EmergencyBound
<1>8. CASE e \in nearNow(c)
  <2>1. PICK t \in Int : t = rows'[c].at /\ now =< t /\ t - now < Window
    BY <1>1, <1>2, <1>3, <1>4, <1>8
  <2>2. ASSUME NEW f \in nearNow(c), f # e PROVE f \in Recent
    <3>1. f \in Emergencies /\ rows[f].at =< t /\ t - rows[f].at < Window
      BY <1>2, <1>3, <2>1, <2>2
    <3>2. PICK a \in Int : a = rows[f].at
      BY <1>3, <3>1
    <3>3. ElapsedSince(a) < Window
      <4>1. t - a < Window
        BY <3>1, <3>2
      <4>2. now - a < Window /\ 0 < Window
        BY <1>4, <2>1, <3>2, <4>1
      <4> QED
        BY <4>2 DEF ElapsedSince
    <3> QED
      BY <3>1, <3>2, <3>3 DEF Recent
  <2>3. nearNow(c) \subseteq Recent \cup {e}
    BY <2>2
  <2> HIDE DEF nearNow
  <2>4. Cardinality(nearNow(c)) =< Cardinality(Recent \cup {e}) /\ IsFiniteSet(nearNow(c))
    BY <1>7, <2>3, FS_Subset
  <2>5. Cardinality(nearNow(c)) \in Nat /\ Cardinality(Recent \cup {e}) \in Nat
    BY <1>7, <2>4, FS_CardinalityType
  <2> QED
    BY <1>4, <1>7, <2>4, <2>5
<1>9. CASE e \notin nearNow(c) /\ c # e
  <2>1. c \in Emergencies /\ nearNow(c) = near(c)
    BY <1>2, <1>3, <1>9
  <2> QED
    BY <2>1 DEF EmergencyBound
<1>10. CASE e \notin nearNow(c) /\ c = e
  <2>1. ~(0 < Window)
    BY <1>1, <1>2, <1>4, <1>10
  <2>2. \A f \in Emergencies' : rows'[f].at \in Int
    BY <1>1, <1>2, <1>3, <1>4
  <2>3. nearNow(c) = {}
    BY <1>1, <1>4, <1>10, <2>1, <2>2
  <2> HIDE DEF nearNow
  <2>4. Cardinality(nearNow(c)) = 0
    BY <2>3, FS_EmptySet
  <2> QED
    BY <1>4, <2>4
<1> QED
  BY <1>8, <1>9, <1>10

LEMMA StepEmergencyBound ==
    ASSUME TypeOK, MemoryAgrees, GuardRemembers, EmergencyBound, [Next]_vars
    PROVE  EmergencyBound'
<1>1. CASE SameTimes
  <2>1. Emergencies' = Emergencies
    BY <1>1 DEF SameTimes, Emergencies
  <2>2. \A d \in Emergencies : rows'[d].at = rows[d].at
    BY <1>1 DEF SameTimes, Emergencies
  <2>3. \A c \in Emergencies :
          {f \in Emergencies' : rows'[f].at <= rows'[c].at /\ rows'[c].at - rows'[f].at < Window}
          = {f \in Emergencies : rows[f].at <= rows[c].at /\ rows[c].at - rows[f].at < Window}
    BY <2>1, <2>2
  <2> QED
    BY <2>1, <2>3 DEF EmergencyBound
<1>2. ASSUME NEW e \in Envelopes, Push(e) PROVE EmergencyBound'
  <2>1. e \notin DOMAIN rows /\ UNCHANGED now
    BY <1>2 DEF Push
  <2>2. CASE UNCHANGED rows
    BY <1>1, <2>2 DEF SameTimes
  <2>3. CASE /\ rows' = WithRow(e, [at |-> now, status |-> "Queued"])
             /\ PriorityOf[e] # Emergency
    <3>1. Emergencies' = Emergencies /\ \A d \in Emergencies : rows'[d] = rows[d]
      BY <2>1, <2>3, NormalIsNotCounted
    <3>2. \A c \in Emergencies :
          {f \in Emergencies' : rows'[f].at <= rows'[c].at /\ rows'[c].at - rows'[f].at < Window}
          = {f \in Emergencies : rows[f].at <= rows[c].at /\ rows[c].at - rows[f].at < Window}
      BY <3>1
    <3> QED
      BY <3>1, <3>2 DEF EmergencyBound
  <2>4. CASE /\ rows' = WithRow(e, [at |-> now, status |-> "Queued"])
             /\ PriorityOf[e] = Emergency /\ ~(Len(Prune(history)) >= MaxCount)
    <3>1. Prune(history) \in Seq(Times) /\ MaxCount \in Nat
      BY PruneKeepsTheRecent, OutboundAssumption DEF TypeOK
    <3>2. Len(Prune(history)) < MaxCount
      BY <2>4, <3>1
    <3> QED
      BY <2>1, <2>4, <3>2, AdmissionKeepsBound
  <2> QED
    BY <1>2, <2>2, <2>3, <2>4 DEF Push
<1> QED
  BY <1>1, <1>2, OnlyPushAdmits

-----------------------------------------------------------------------------
\* A process that starts with an empty store satisfies the invariant.
LEMMA InitInv == Init => Inv
<1> SUFFICES ASSUME Init PROVE Inv
  OBVIOUS
<1>1. DOMAIN rows = {} /\ DOMAIN inFlight = {} /\ heap = {} /\ history = <<>>
  BY DEF Init
<1>2. TypeOK
  <2>1. rows \in [{} -> Stored] /\ {} \in SUBSET Envelopes
    BY DEF Init
  <2>2. history \in Seq(Times)
    BY DEF Init
  <2> QED
    BY <2>1, <2>2, EmptySlots DEF Init, TypeOK
<1>3. MemoryAgrees /\ NothingForgotten
  BY <1>1 DEF Init, MemoryAgrees, NothingForgotten
<1>4. WindowBound
  BY <1>1, FS_EmptySet, OutboundAssumption DEF WindowBound
<1>5. Emergencies = {} /\ Recent = {}
  BY <1>1 DEF Emergencies, Recent
<1>6. GuardRemembers
  <2>1. [e \in {} |-> 0] \in [Recent -> DOMAIN history]
    BY <1>5
  <2> QED
    BY <1>5, <2>1 DEF GuardRemembers, Counted
<1>7. EmergencyBound
  BY <1>5 DEF EmergencyBound
<1> QED
  BY <1>2, <1>3, <1>4, <1>6, <1>7 DEF Inv

LEMMA StepInv == Inv /\ [Next]_vars => Inv'
<1> SUFFICES ASSUME Inv, [Next]_vars PROVE Inv'
  OBVIOUS
<1>1. TypeOK /\ MemoryAgrees /\ NothingForgotten /\ WindowBound
      /\ GuardRemembers /\ EmergencyBound
  BY DEF Inv
<1>2. TypeOK'
  BY <1>1, StepTypes
<1>3. MemoryAgrees' /\ NothingForgotten' /\ WindowBound'
  BY <1>1, StepMemoryAgrees, StepNothingForgotten, StepWindowBound
<1>4. GuardRemembers'
  BY <1>1, <1>2, StepGuardRemembers
<1>5. EmergencyBound'
  BY <1>1, StepEmergencyBound
<1> QED
  BY <1>2, <1>3, <1>4, <1>5 DEF Inv

\* The invariant holds in every reachable state.
LEMMA Invariance == Spec => []Inv
<1> QED
  BY InitInv, StepInv, PTL DEF Spec

\* However the clock jumps at a restart and in whatever order rows are
\* replayed, EmergencyGuard admits at most MaxCount Emergency payments in any
\* Window seconds.
THEOREM EmergencyBoundHolds == Spec => []EmergencyBound
<1>1. Inv => EmergencyBound
  BY DEF Inv
<1> QED
  BY <1>1, Invariance, PTL

\* DispatchWindow: the tasks of one session never hold more slots than it has,
\* although each looks at the capacity before it pops and not after.
THEOREM WindowBoundHolds == Spec => []WindowBound
<1>1. Inv => WindowBound
  BY DEF Inv
<1> QED
  BY <1>1, Invariance, PTL

\* OutboundTxQueue and its dispatchers lose no stored payment: backpressure,
\* duplicates and restarts leave it queued or in a task's hands until sent.
THEOREM NothingIsForgotten == Spec => []NothingForgotten
<1>1. Inv => NothingForgotten
  BY DEF Inv
<1> QED
  BY <1>1, Invariance, PTL

\* What one step of any actor may do to an occupied slot.
LEMMA StepSlots ==
    ASSUME TypeOK, [Next]_vars, NEW e \in DOMAIN inFlight \cap DOMAIN inFlight',
           inFlight'[e] # inFlight[e]
    PROVE  ElapsedSince(inFlight[e]) >= Timeout
<1>1. \A f \in DOMAIN SweepExpired(inFlight) : SweepExpired(inFlight)[f] = inFlight[f]
  BY DEF SweepExpired
<1>2. ASSUME NEW t \in Tasks, TryAcquire(t) PROVE ElapsedSince(inFlight[e]) >= Timeout
  <2> DEFINE swept == SweepExpired(inFlight)
  <2>1. inFlight' # swept
    BY <1>1
  <2>2. held[t] \notin DOMAIN swept /\ inFlight' = Taken(swept, held[t])
    BY <1>2, <2>1 DEF TryAcquire
  <2>3. e = held[t]
    BY <1>1, <2>2 DEF Taken
  <2>4. ~(ElapsedSince(inFlight[e]) < Timeout)
    BY <2>2, <2>3 DEF SweepExpired
  <2>5. PICK a \in Int : a = inFlight[e]
    BY Parts
  <2>6. now \in Int /\ Timeout \in Int
    BY Parts, OutboundAssumption
  <2>7. ElapsedSince(a) \in Int
    BY <2>5, <2>6 DEF ElapsedSince
  <2> QED
    BY <2>4, <2>5, <2>6, <2>7
<1>3. ASSUME NEW f \in Envelopes, Push(f) \/ Acknowledge(f) \/ Abandon(f) PROVE FALSE
  BY <1>3 DEF Push, Acknowledge, Abandon, Without
<1>4. ASSUME NEW t \in Tasks, Pop(t) PROVE FALSE
  BY <1>1, <1>4 DEF Pop
<1>5. ASSUME NEW t \in Tasks, NEW f \in Envelopes, Retry(t, f) PROVE FALSE
  BY <1>1, <1>5 DEF Retry
<1>6. CASE ReleaseExpired
  BY <1>1, <1>6 DEF ReleaseExpired
<1>7. CASE Restart
  BY <1>7 DEF Restart
<1>8. CASE Tick \/ UNCHANGED vars
  BY <1>8 DEF Tick, vars
<1> QED
  BY <1>2, <1>3, <1>4, <1>5, <1>6, <1>7, <1>8 DEF Next

\* try_acquire never renews a valid slot, so a payment is not sent again while
\* its last transmission may still be answered.
THEOREM SendsDoNotOverlap == Spec => NoOverlappingSends
<1>1. Inv /\ [Next]_vars => \A e \in DOMAIN inFlight \cap DOMAIN inFlight' :
         inFlight'[e] # inFlight[e] => ElapsedSince(inFlight[e]) >= Timeout
  BY StepSlots DEF Inv
<1> QED
  BY <1>1, Invariance, PTL DEF Spec, NoOverlappingSends

\* A payment goes from the queue to a task by Pop alone: a retry takes up one
\* that already left, the other steps hand out nothing.
LEMMA OnlyPopHandsOut ==
    ASSUME TypeOK, [Next]_vars, NEW t \in Tasks, held[t] = None, held'[t] # None,
           rows[held'[t]].status = "Queued"
    PROVE  Pop(t)
<1>1. ASSUME NEW u \in Tasks, Pop(u) PROVE u = t
  BY <1>1 DEF Pop, TypeOK
<1>2. ASSUME NEW u \in Tasks, TryAcquire(u) PROVE FALSE
  <2>1. held' \in {held, [held EXCEPT ![u] = None]}
    BY <1>2 DEF TryAcquire
  <2> QED
    BY <2>1 DEF TypeOK
<1>3. ASSUME NEW u \in Tasks, NEW f \in Envelopes, Retry(u, f) PROVE FALSE
  BY <1>3 DEF Retry, TypeOK
<1>4. ASSUME NEW f \in Envelopes, Push(f) \/ Acknowledge(f) \/ Abandon(f) PROVE FALSE
  BY <1>4 DEF Push, Acknowledge, Abandon
<1>5. CASE ReleaseExpired \/ Tick \/ Restart \/ UNCHANGED vars
  BY <1>5 DEF ReleaseExpired, Tick, Restart, vars
<1> QED
  BY <1>1, <1>2, <1>3, <1>4, <1>5 DEF Next

\* The oldest waiting payment of a tier is handed out first, by the time in its
\* row: nothing that waits is outside the queue, and the queue knows its time.
LEMMA StepServesOldest ==
    ASSUME Inv, [Next]_vars, NEW t \in Tasks, held[t] = None, held'[t] # None,
           rows[held'[t]].status = "Queued",
           NEW e \in DOMAIN rows, rows[e].status = "Queued",
           \A u \in Tasks : held'[u] # e,
           PriorityOf[e] = PriorityOf[held'[t]]
    PROVE  rows[held'[t]].at <= rows[e].at
<1>1. TypeOK /\ MemoryAgrees /\ NothingForgotten
  BY DEF Inv
<1>2. Pop(t)
  BY <1>1, OnlyPopHandsOut
<1>3. PICK x \in Tops(heap) : held' = [held EXCEPT ![t] =
                                     IF rows[x.id].status = "Queued" THEN x.id ELSE None]
  BY <1>2 DEF Pop
<1>4. held'[t] = x.id
  BY <1>1, <1>3 DEF TypeOK
<1>5. x \in heap /\ x.id \in DOMAIN rows /\ x.at = rows[x.id].at
  BY <1>1 DEF Tops, MemoryAgrees
<1>6. \A u \in Tasks : held[u] # e
  <2>1. \A u \in Tasks : u # t => held'[u] = held[u]
    BY <1>1, <1>3 DEF TypeOK
  <2>2. e # None
    BY <1>1, Parts, NoneAssumption
  <2> QED
    BY <2>1, <2>2
<1>7. [id |-> e, at |-> rows[e].at] \in heap
  BY <1>1, <1>6 DEF NothingForgotten
<1>8. ~Before([id |-> e, at |-> rows[e].at], x)
  BY <1>7 DEF Tops
<1>9. ~(rows[e].at < x.at)
  BY <1>4, <1>8 DEF Before
<1>10. rows[e].at \in Int /\ rows[x.id].at \in Int
  BY <1>1, <1>5, Parts
<1> QED
  BY <1>4, <1>5, <1>9, <1>10

\* restore_at keeps the admission time: OutboundTxQueue serves each tier in the
\* order its payments were admitted, across restarts and clock jumps.
THEOREM TiersAreServedInOrder == Spec => OldestOfTierFirst
<1>1. Inv /\ [Next]_vars => \A t \in Tasks :
    (held[t] = None /\ held'[t] # None /\ rows[held'[t]].status = "Queued") =>
        \A e \in DOMAIN rows :
            (/\ rows[e].status = "Queued"
             /\ \A u \in Tasks : held'[u] # e
             /\ PriorityOf[e] = PriorityOf[held'[t]])
            => rows[held'[t]].at <= rows[e].at
  BY StepServesOldest
<1> QED
  BY <1>1, Invariance, PTL DEF Spec, OldestOfTierFirst
=============================================================================
