----------------------------- MODULE VaultProofs ----------------------------
(***************************************************************************)
(* Proofs about Vault, for any number of devices, keys, payments and       *)
(* moves.                                                                  *)
(***************************************************************************)
EXTENDS Vault, WellFoundedInduction, TLAPS

\* Every row of one database is sealed under one key, which is the key of
\* whoever has it open; without the encryption flag nothing is sealed.
OneKeyPerDatabase == \A d \in Devices :
    /\ \A r, s \in Tables(d).envelopes : r.bytes.key = s.bytes.key
    /\ IsOpen(d) => \A r \in Tables(d).envelopes : r.bytes.key = handle[d]
    /\ ~db[d].encrypted =>
          /\ \A r \in Tables(d).envelopes : r.bytes.key = Plain
          /\ IsOpen(d) => handle[d] = Plain

\* A snapshot names the key its rows are sealed under.
SnapshotNamesItsKey == snapshot # NoBlob =>
    \A r \in snapshot.tables.envelopes : r.bytes.key = snapshot.key

\* Between devices there is a snapshot to go on from, of a move that counts.
InTransit == active = Nowhere => snapshot # NoBlob /\ imports < MaxImports

\* The reservations of the current tables are past every number given out,
\* a payment has one number, and a status row is of a payment.
NumbersAreReserved ==
    /\ \A x \in issued : x.sequence <= Current.reserved
    /\ \A x, y \in issued : x.id = y.id => x = y
    /\ \A e \in DOMAIN Current.status : \E x \in issued : x.id = e

Inv ==
    /\ TypeOK
    /\ InTransit
    /\ OneKeyPerDatabase
    /\ SnapshotNamesItsKey
    /\ NumbersAreReserved
    /\ NoSequenceReuse
    /\ HistoryContinues

-----------------------------------------------------------------------------
\* A nonempty set of positions up to a bound has a greatest one, its Max.
LEMMA GreatestMember ==
    ASSUME NEW n \in Nat, NEW P \in SUBSET (1..n), P # {}
    PROVE  Max(P) \in P /\ \A i \in P : i =< Max(P)
<1> DEFINE R == OpToRel(<, Nat)
           gaps == {n - i : i \in P}
<1>1. \A x, y \in Nat : <<x, y>> \in R <=> x < y
  BY DEF OpToRel
<1>2. IsWellFoundedOn(R, Nat)
  BY NatLessThanWellFounded
<1>3. gaps \subseteq Nat /\ gaps # {}
  <2>1. \A i \in P : n - i \in Nat
    <3>1. \A i \in 1..n : n - i \in Nat
      OBVIOUS
    <3> QED
      BY <3>1
  <2> QED
    BY <2>1
<1> HIDE DEF R
<1>4. PICK g \in gaps : \A h \in gaps : ~(<<h, g>> \in R)
  BY <1>2, <1>3, WFMin
<1>5. PICK m \in P : g = n - m
  BY <1>4
<1>6. \A i \in P : n - i \in gaps /\ n - i \in Nat /\ g \in Nat
  BY <1>3, <1>4
<1>7. \A i \in P : ~(n - i < n - m)
  BY <1>1, <1>4, <1>5, <1>6
<1>8. \A i \in P : i \in Int /\ m \in Int
  OBVIOUS
<1>9. \A i \in P : i =< m
  BY <1>7, <1>8
<1>10. Max(P) \in P /\ \A i \in P : Max(P) >= i
  BY <1>9, <1>8, <1>5 DEF Max
<1> QED
  BY <1>8, <1>10

\* The parts of well-typed tables.
LEMMA TablesParts ==
    ASSUME NEW t \in TableSets
    PROVE  /\ t.envelopes \in SUBSET Row
           /\ DOMAIN t.status \subseteq Envelopes
           /\ t.status \in [DOMAIN t.status -> Statuses]
           /\ t.reserved \in Int /\ t.reserved >= -1
           /\ t.reserved # NoReservation => t.reserved \in Nat
           /\ t.conflicts \in Seq(Conflicts)
           /\ t.history \in Seq(HistoryRow)
<1>1. t.status \in UNION {[S -> Statuses] : S \in SUBSET Envelopes}
  BY DEF TableSets
<1>2. PICK S \in SUBSET Envelopes : t.status \in [S -> Statuses]
  BY <1>1
<1> QED
  BY <1>2 DEF TableSets, NoReservation

\* Write replaces the tables of one database and nothing else.
LEMMA WriteFacts ==
    ASSUME TypeOK, NEW d \in Devices, NEW t, Write(d, t)
    PROVE  /\ Tables(d)' = t
           /\ db'[d].encrypted = db[d].encrypted
           /\ \A c \in Devices : c # d => db'[c] = db[c]
           /\ t \in TableSets => db' \in [Devices -> [tables : TableSets, encrypted : BOOLEAN]]
BY DEF TypeOK, Write, Tables

\* The current tables are well typed, and those of an open device in use.
LEMMA CurrentFacts ==
    ASSUME TypeOK, InTransit
    PROVE  /\ Current \in TableSets
           /\ \A d \in Devices : Tables(d) \in TableSets
           /\ active = Nowhere => snapshot \in Blobs /\ Current = snapshot.tables
           /\ active # Nowhere => active \in Devices /\ Current = Tables(active)
BY DEF TypeOK, InTransit, Current, Tables, Blobs

\* The status and history of a payment after one more row was written.
LEMMA StatusWritten ==
    ASSUME NEW t \in TableSets, NEW u \in TableSets, NEW e \in Envelopes, NEW s,
           u.status = StatusSet(t, e, s)
    PROVE  /\ DOMAIN u.status = DOMAIN t.status \cup {e}
           /\ StatusOf(u, e) = s
           /\ \A f \in Envelopes : f # e => StatusOf(u, f) = StatusOf(t, f)
BY DEF StatusSet, StatusOf

\* HistoryContinues, of given tables
HistoryIsChain(t) == \A e \in Envelopes :
    /\ \A i \in HistoryFor(t, e) :
           t.history[i].from = Latest(t, {j \in HistoryFor(t, e) : j < i})
    /\ StatusOf(t, e) = Latest(t, HistoryFor(t, e))

\* Appending a row that starts where the payment stood continues its chain.
LEMMA ChainGrows ==
    ASSUME NEW t \in TableSets, NEW u \in TableSets, NEW e \in Envelopes, NEW s,
           u.status = StatusSet(t, e, s),
           u.history = Append(t.history, [id |-> e, from |-> StatusOf(t, e), to |-> s]),
           HistoryIsChain(t)
    PROVE  HistoryIsChain(u)
<1> DEFINE n == Len(t.history) + 1
           row == [id |-> e, from |-> StatusOf(t, e), to |-> s]
<1>1. t.history \in Seq(HistoryRow)
  BY TablesParts
<1>2. /\ DOMAIN t.history = 1..(n - 1) /\ n \in Nat \ {0}
      /\ DOMAIN u.history = 1..n /\ u.history[n] = row
      /\ \A i \in 1..(n - 1) : u.history[i] = t.history[i]
  BY <1>1
<1>3. row.id = e /\ row.from = StatusOf(t, e) /\ row.to = s
  OBVIOUS
<1> HIDE DEF n, row
<1>4. \A P \in SUBSET (1..(n - 1)) : Latest(u, P) = Latest(t, P)
  <2> SUFFICES ASSUME NEW P \in SUBSET (1..(n - 1)), P # {}
               PROVE  u.history[Max(P)].to = t.history[Max(P)].to
    BY DEF Latest
  <2>1. n - 1 \in Nat
    BY <1>2
  <2>2. Max(P) \in P
    BY <2>1, GreatestMember
  <2> QED
    BY <1>2, <2>2
<1> SUFFICES ASSUME NEW f \in Envelopes
             PROVE  /\ \A i \in HistoryFor(u, f) :
                           u.history[i].from = Latest(u, {j \in HistoryFor(u, f) : j < i})
                    /\ StatusOf(u, f) = Latest(u, HistoryFor(u, f))
  BY DEF HistoryIsChain
<1> DEFINE before(i) == {j \in HistoryFor(t, f) : j < i}
<1>5. /\ \A i \in HistoryFor(t, f) : t.history[i].from = Latest(t, before(i))
      /\ StatusOf(t, f) = Latest(t, HistoryFor(t, f))
  BY DEF HistoryIsChain
<1>6. /\ HistoryFor(t, f) \in SUBSET (1..(n - 1))
      /\ HistoryFor(u, f) = IF f = e THEN HistoryFor(t, f) \cup {n} ELSE HistoryFor(t, f)
  BY <1>2, <1>3 DEF HistoryFor
<1>7. \A i \in HistoryFor(t, f) :
         {j \in HistoryFor(u, f) : j < i} = before(i) /\ before(i) \in SUBSET (1..(n - 1))
  BY <1>2, <1>6
<1>8. \A i \in HistoryFor(t, f) :
         u.history[i].from = Latest(u, {j \in HistoryFor(u, f) : j < i})
  BY <1>2, <1>4, <1>5, <1>6, <1>7
<1>9. CASE f # e
  <2>1. StatusOf(u, f) = StatusOf(t, f)
    BY <1>9, StatusWritten
  <2> QED
    BY <1>4, <1>5, <1>6, <1>8, <1>9, <2>1
<1>10. CASE f = e
  <2>1. {j \in HistoryFor(u, f) : j < n} = HistoryFor(t, f)
    BY <1>2, <1>6, <1>10
  <2>2. u.history[n].from = Latest(u, {j \in HistoryFor(u, f) : j < n})
    BY <1>2, <1>3, <1>4, <1>5, <1>6, <1>10, <2>1
  <2>3. Max(HistoryFor(u, f)) = n /\ HistoryFor(u, f) # {}
    BY <1>2, <1>6, <1>10 DEF Max
  <2>4. Latest(u, HistoryFor(u, f)) = s
    BY <1>2, <1>3, <2>3 DEF Latest
  <2>5. StatusOf(u, f) = s
    BY <1>10, StatusWritten
  <2> QED
    BY <1>6, <1>8, <1>10, <2>2, <2>4, <2>5
<1> QED
  BY <1>9, <1>10

-----------------------------------------------------------------------------
\* The tables each write of the wallet leaves.
SeededTables(t) == [t EXCEPT !.reserved = chain]

EnqueuedTables(d, t, e) ==
    [t EXCEPT !.reserved = t.reserved + 1,
              !.envelopes = @ \cup {Sealed(handle[d], e, t.reserved + 1)},
              !.status = StatusSet(t, e, "Queued"),
              !.history = Append(@, [id |-> e, from |-> NoStatus, to |-> "Queued"])]

SettledTables(t, e, s) ==
    [t EXCEPT !.status = StatusSet(t, e, s),
              !.history = Append(@, [id |-> e, from |-> StatusOf(t, e), to |-> s])]

TrimmedTables(t, e) == [t EXCEPT !.envelopes = {r \in @ : r.id # e}]

DisputedTables(t, c) == [t EXCEPT !.conflicts = Append(@, c)]

LEMMA SeededFacts ==
    ASSUME TypeOK, NEW t \in TableSets
    PROVE  /\ SeededTables(t) \in TableSets
           /\ SeededTables(t).envelopes = t.envelopes /\ SeededTables(t).status = t.status
           /\ SeededTables(t).reserved = chain
           /\ SeededTables(t).conflicts = t.conflicts /\ SeededTables(t).history = t.history
BY DEF TypeOK, TableSets, SeededTables

LEMMA StatusSetType ==
    ASSUME NEW t \in TableSets, NEW e \in Envelopes, NEW s \in Statuses
    PROVE  StatusSet(t, e, s) \in UNION {[S -> Statuses] : S \in SUBSET Envelopes}
<1>1. DOMAIN t.status \subseteq Envelopes /\ t.status \in [DOMAIN t.status -> Statuses]
  BY TablesParts
<1>2. StatusSet(t, e, s) \in [DOMAIN t.status \cup {e} -> Statuses]
  BY <1>1 DEF StatusSet
<1>3. DOMAIN t.status \cup {e} \in SUBSET Envelopes
  BY <1>1
<1> QED
  BY <1>2, <1>3

LEMMA StatusOfType ==
    ASSUME NEW t \in TableSets, NEW e \in Envelopes
    PROVE  StatusOf(t, e) \in Statuses \cup {NoStatus}
BY TablesParts DEF StatusOf

LEMMA EnqueuedFacts ==
    ASSUME TypeOK, NEW d \in Devices, IsOpen(d), NEW t \in TableSets, NEW e \in Envelopes,
           t.reserved # NoReservation
    PROVE  LET u == EnqueuedTables(d, t, e)
           IN /\ u \in TableSets
              /\ \E row \in Row : /\ u.envelopes = t.envelopes \cup {row}
                                 /\ row.bytes.key = handle[d]
              /\ u.status = StatusSet(t, e, "Queued")
              /\ u.reserved = t.reserved + 1 /\ t.reserved + 1 \in Nat
              /\ u.conflicts = t.conflicts
              /\ u.history = Append(t.history, [id |-> e, from |-> NoStatus, to |-> "Queued"])
<1> DEFINE row == Sealed(handle[d], e, t.reserved + 1)
           step == [id |-> e, from |-> NoStatus, to |-> "Queued"]
<1>1. t.reserved \in Nat /\ t.reserved + 1 \in Nat
  BY TablesParts
<1>2. handle[d] \in Keys \cup {Plain}
  BY DEF TypeOK, IsOpen
<1>3. row \in Row /\ row.bytes.key = handle[d] /\ row.id = e
  BY <1>1, <1>2 DEF Sealed, Encrypt, Row, Bytes
<1>4. "Queued" \in Statuses /\ step \in HistoryRow
  BY DEF Statuses, HistoryRow
<1>5. StatusSet(t, e, "Queued") \in UNION {[S -> Statuses] : S \in SUBSET Envelopes}
  BY <1>4, StatusSetType
<1>6. t.envelopes \cup {row} \in SUBSET Row /\ Append(t.history, step) \in Seq(HistoryRow)
  BY <1>3, <1>4, TablesParts
<1> HIDE DEF row, step
<1>7. EnqueuedTables(d, t, e) =
        [t EXCEPT !.reserved = t.reserved + 1, !.envelopes = t.envelopes \cup {row},
                  !.status = StatusSet(t, e, "Queued"), !.history = Append(t.history, step)]
  BY DEF EnqueuedTables, row, step, TableSets
<1>8. /\ EnqueuedTables(d, t, e) \in TableSets
      /\ EnqueuedTables(d, t, e).envelopes = t.envelopes \cup {row}
      /\ EnqueuedTables(d, t, e).status = StatusSet(t, e, "Queued")
      /\ EnqueuedTables(d, t, e).reserved = t.reserved + 1
      /\ EnqueuedTables(d, t, e).conflicts = t.conflicts
      /\ EnqueuedTables(d, t, e).history = Append(t.history, step)
  BY <1>1, <1>5, <1>6, <1>7 DEF TableSets
<1> QED
  BY <1>1, <1>3, <1>8 DEF row, step

\* The row a payment gets, and that it gets one.
LEMMA EnqueuedRow ==
    ASSUME TypeOK, NEW d \in Devices, IsOpen(d), NEW t \in TableSets, NEW e \in Envelopes,
           t.reserved # NoReservation, NEW u, u = EnqueuedTables(d, t, e)
    PROVE  /\ u.status = StatusSet(t, e, "Queued") /\ u.conflicts = t.conflicts
           /\ \E row \in Row : u.envelopes = t.envelopes \cup {row} /\ row.bytes.key = handle[d]
<1> DEFINE v == EnqueuedTables(d, t, e)
<1>1. /\ v \in TableSets
      /\ \E row \in Row : /\ v.envelopes = t.envelopes \cup {row}
                          /\ row.bytes.key = handle[d]
      /\ v.status = StatusSet(t, e, "Queued")
      /\ v.reserved = t.reserved + 1 /\ t.reserved + 1 \in Nat
      /\ v.conflicts = t.conflicts
      /\ v.history = Append(t.history, [id |-> e, from |-> NoStatus, to |-> "Queued"])
  BY EnqueuedFacts, Zenon
<1>2. u = v
  OBVIOUS
<1> HIDE DEF v
<1> QED
  BY <1>1, <1>2

LEMMA SettledFacts ==
    ASSUME NEW t \in TableSets, NEW e \in Envelopes, NEW s \in Statuses
    PROVE  LET u == SettledTables(t, e, s)
           IN /\ u \in TableSets
              /\ u.envelopes = t.envelopes /\ u.reserved = t.reserved
              /\ u.status = StatusSet(t, e, s)
              /\ u.conflicts = t.conflicts
              /\ u.history = Append(t.history, [id |-> e, from |-> StatusOf(t, e), to |-> s])
<1> DEFINE step == [id |-> e, from |-> StatusOf(t, e), to |-> s]
<1>1. StatusSet(t, e, s) \in UNION {[S -> Statuses] : S \in SUBSET Envelopes}
  BY StatusSetType
<1>2. step \in HistoryRow
  BY StatusOfType DEF HistoryRow
<1>3. Append(t.history, step) \in Seq(HistoryRow)
  BY <1>2, TablesParts
<1> HIDE DEF step
<1>4. SettledTables(t, e, s) =
        [t EXCEPT !.status = StatusSet(t, e, s), !.history = Append(t.history, step)]
  BY DEF SettledTables, step, TableSets
<1>5. /\ SettledTables(t, e, s) \in TableSets
      /\ SettledTables(t, e, s).envelopes = t.envelopes
      /\ SettledTables(t, e, s).reserved = t.reserved
      /\ SettledTables(t, e, s).status = StatusSet(t, e, s)
      /\ SettledTables(t, e, s).conflicts = t.conflicts
      /\ SettledTables(t, e, s).history = Append(t.history, step)
  BY <1>1, <1>3, <1>4 DEF TableSets
<1> QED
  BY <1>5 DEF step

LEMMA TrimmedFacts ==
    ASSUME NEW t \in TableSets, NEW e
    PROVE  LET u == TrimmedTables(t, e)
           IN /\ u \in TableSets
              /\ u.envelopes = {r \in t.envelopes : r.id # e}
              /\ u.reserved = t.reserved /\ u.status = t.status
              /\ u.conflicts = t.conflicts /\ u.history = t.history
BY DEF TableSets, TrimmedTables

LEMMA DisputedFacts ==
    ASSUME NEW t \in TableSets, NEW c \in Conflicts
    PROVE  LET u == DisputedTables(t, c)
           IN /\ u \in TableSets
              /\ u.envelopes = t.envelopes
              /\ u.reserved = t.reserved /\ u.status = t.status
              /\ u.conflicts = Append(t.conflicts, c) /\ u.history = t.history
<1>1. Append(t.conflicts, c) \in Seq(Conflicts)
  BY TablesParts
<1> QED
  BY <1>1 DEF TableSets, DisputedTables

-----------------------------------------------------------------------------
\* Type correctness of files, handles, snapshot and ledger.  The ledger's
\* number stays a number because a payment has only one.
LEMMA StepTypes ==
    ASSUME TypeOK, InTransit, NumbersAreReserved, [Next]_vars
    PROVE  TypeOK'
<1> DEFINE DbType == [Devices -> [tables : TableSets, encrypted : BOOLEAN]]
<1>1. \A d \in Devices : Tables(d) \in TableSets
  BY CurrentFacts
<1>2. \A d \in Devices, t \in TableSets : Write(d, t) => db' \in DbType
  BY WriteFacts
<1> USE DEF TypeOK
<1>3. ASSUME NEW d \in Devices, Open(d) PROVE TypeOK'
  BY <1>3 DEF Open
<1>4. ASSUME NEW d \in Devices, NEW key \in Keys, OpenWithKey(d, key) PROVE TypeOK'
  <2>1. db' \in DbType
    BY <1>4 DEF OpenWithKey
  <2>2. handle' \in [Devices -> Keys \cup {Plain, Closed}]
    BY <1>4 DEF OpenWithKey
  <2> QED
    BY <1>4, <2>1, <2>2 DEF OpenWithKey
<1>5. ASSUME NEW d \in Devices, Close(d) PROVE TypeOK'
  BY <1>5 DEF Close
<1>6. ASSUME NEW d \in Devices, Seed(d) PROVE TypeOK'
  <2>1. SeededTables(Tables(d)) \in TableSets
    BY <1>1, SeededFacts
  <2> QED
    BY <1>2, <1>6, <2>1 DEF Seed, SeededTables
<1>7. ASSUME NEW d \in Devices, NEW e \in Envelopes, Enqueue(d, e) PROVE TypeOK'
  <2>1. IsOpen(d) /\ Tables(d).reserved # NoReservation
    BY <1>7 DEF Enqueue, InUse
  <2>2. EnqueuedTables(d, Tables(d), e) \in TableSets /\ Tables(d).reserved + 1 \in Nat
    BY <1>1, <2>1, EnqueuedFacts
  <2>3. /\ Write(d, EnqueuedTables(d, Tables(d), e))
        /\ issued' = issued \cup {[id |-> e, sequence |-> Tables(d).reserved + 1]}
        /\ UNCHANGED <<handle, active, snapshot, imports, chain>>
    BY <1>7 DEF Enqueue, EnqueuedTables
  <2> QED
    BY <1>2, <2>2, <2>3
<1>8. ASSUME NEW d \in Devices, NEW e \in Envelopes, NEW s \in {"Propagating", "Settled", "Failed"},
             SetSettlementStatus(d, e, s)
      PROVE  TypeOK'
  <2>1. s \in Statuses
    BY DEF Statuses
  <2>2. /\ Write(d, SettledTables(Tables(d), e, s))
        /\ UNCHANGED <<handle, active, snapshot, imports, issued>>
    BY <1>8 DEF SetSettlementStatus, SettledTables
  <2>3. chain' \in Nat
    <3>1. PICK x \in issued : x.id = e
      BY <1>8 DEF SetSettlementStatus
    <3>2. {y \in issued : y.id = e} = {x}
      BY <3>1 DEF NumbersAreReserved
    <3>3. {y.sequence : y \in {z \in issued : z.id = e}} = {x.sequence}
      BY <3>2
    <3>4. chain' \in {chain, Max({chain} \cup {x.sequence})}
      BY <1>8, <3>3 DEF SetSettlementStatus
    <3>5. PICK n \in Nat : n = x.sequence
      BY <3>1
    <3>6. \A m \in Nat : Max({m} \cup {n}) \in Nat
      BY DEF Max
    <3> QED
      BY <3>4, <3>5, <3>6
  <2> QED
    BY <1>1, <1>2, <2>1, <2>2, <2>3, SettledFacts
<1>9. ASSUME NEW d \in Devices, NEW e \in Envelopes, RemoveQueuedEnvelope(d, e) PROVE TypeOK'
  <2>1. TrimmedTables(Tables(d), e) \in TableSets
    BY <1>1, TrimmedFacts
  <2> QED
    BY <1>2, <1>9, <2>1 DEF RemoveQueuedEnvelope, TrimmedTables
<1>10. ASSUME NEW d \in Devices, NEW c \in Conflicts, RecordConflict(d, c) PROVE TypeOK'
  <2>1. DisputedTables(Tables(d), c) \in TableSets
    BY <1>1, DisputedFacts
  <2> QED
    BY <1>2, <1>10, <2>1 DEF RecordConflict, DisputedTables
<1>11. ASSUME NEW d \in Devices, ExportSnapshot(d) PROVE TypeOK'
  <2>1. handle[d] \in Keys \cup {Plain}
    BY <1>11 DEF ExportSnapshot, InUse, IsOpen
  <2>2. snapshot' \in Blobs
    BY <1>1, <1>11, <2>1 DEF ExportSnapshot, Blobs
  <2> QED
    BY <1>11, <2>2 DEF ExportSnapshot
<1>12. ASSUME NEW d \in Devices, ImportSnapshot(d) PROVE TypeOK'
  <2>1. active = Nowhere
    BY <1>12 DEF ImportSnapshot
  <2>2. snapshot.tables \in TableSets
    BY <2>1, CurrentFacts
  <2>3. db' \in DbType
    BY <1>2, <1>12, <2>2 DEF ImportSnapshot, Inserted
  <2>4. imports' \in 0..MaxImports
    BY <1>12, <2>1, VaultAssumption DEF ImportSnapshot, InTransit
  <2> QED
    BY <1>12, <2>3, <2>4 DEF ImportSnapshot
<1>13. ASSUME NEW d \in Devices, GoBack(d) PROVE TypeOK'
  BY <1>13 DEF GoBack
<1>14. CASE UNCHANGED vars
  BY <1>14 DEF vars
<1> QED
  BY <1>3, <1>4, <1>5, <1>6, <1>7, <1>8, <1>9, <1>10, <1>11, <1>12, <1>13, <1>14 DEF Next

\* Only moves touch the snapshot and what counts as the wallet's device.
LEMMA OnlyMovesMove ==
    ASSUME [Next]_vars
    PROVE  \/ \E d \in Devices : ExportSnapshot(d) \/ ImportSnapshot(d) \/ GoBack(d)
           \/ UNCHANGED <<active, snapshot, imports>>
<1> SUFFICES ASSUME \A d \in Devices : ~ExportSnapshot(d) /\ ~ImportSnapshot(d) /\ ~GoBack(d)
             PROVE  UNCHANGED <<active, snapshot, imports>>
  OBVIOUS
<1>1. ASSUME NEW d \in Devices,
             Open(d) \/ (\E key \in Keys : OpenWithKey(d, key)) \/ Close(d)
      PROVE  UNCHANGED <<active, snapshot, imports>>
  BY <1>1 DEF Open, OpenWithKey, Close
<1>2. ASSUME NEW d \in Devices, Seed(d) PROVE UNCHANGED <<active, snapshot, imports>>
  BY <1>2 DEF Seed
<1>3. ASSUME NEW d \in Devices, NEW e \in Envelopes, Enqueue(d, e) \/ RemoveQueuedEnvelope(d, e)
      PROVE  UNCHANGED <<active, snapshot, imports>>
  BY <1>3 DEF Enqueue, RemoveQueuedEnvelope
<1>4. ASSUME NEW d \in Devices, NEW e \in Envelopes,
             NEW s \in {"Propagating", "Settled", "Failed"}, SetSettlementStatus(d, e, s)
      PROVE  UNCHANGED <<active, snapshot, imports>>
  BY <1>4 DEF SetSettlementStatus
<1>5. ASSUME NEW d \in Devices, NEW c \in Conflicts, RecordConflict(d, c)
      PROVE  UNCHANGED <<active, snapshot, imports>>
  BY <1>5 DEF RecordConflict
<1>6. CASE UNCHANGED vars
  BY <1>6 DEF vars
<1> QED
  BY <1>1, <1>2, <1>3, <1>4, <1>5, <1>6 DEF Next

\* A snapshot is there while the wallet is between devices.
LEMMA StepInTransit == InTransit /\ [Next]_vars => InTransit'
<1> SUFFICES ASSUME InTransit, [Next]_vars PROVE InTransit'
  OBVIOUS
<1> USE DEF InTransit
<1>1. ASSUME NEW d \in Devices, ExportSnapshot(d) PROVE InTransit'
  <2>1. snapshot'.version = 1 /\ NoBlob.version = 0
    BY <1>1 DEF ExportSnapshot, SchemaVersion, NoBlob
  <2>2. snapshot' # NoBlob
    BY <2>1
  <2> QED
    BY <1>1, <2>2 DEF ExportSnapshot
<1>2. ASSUME NEW d \in Devices, ImportSnapshot(d) \/ GoBack(d) PROVE InTransit'
  BY <1>2, VaultAssumption DEF ImportSnapshot, GoBack
<1>3. ASSUME UNCHANGED <<active, snapshot, imports>> PROVE InTransit'
  BY <1>3
<1> QED
  BY <1>1, <1>2, <1>3, OnlyMovesMove

-----------------------------------------------------------------------------
\* What may become of the rows of one database: each step of another device
\* leaves it alone.
SameRows(d) == /\ Tables(d)'.envelopes \subseteq Tables(d).envelopes
               /\ db'[d].encrypted = db[d].encrypted

KeyFact(d) ==
    /\ \A r, s \in Tables(d).envelopes : r.bytes.key = s.bytes.key
    /\ IsOpen(d) => \A r \in Tables(d).envelopes : r.bytes.key = handle[d]
    /\ ~db[d].encrypted =>
          /\ \A r \in Tables(d).envelopes : r.bytes.key = Plain
          /\ IsOpen(d) => handle[d] = Plain

\* A key fits one row exactly if it is the key the row was sealed under.
LEMMA ReadableFacts ==
    ASSUME NEW row, NEW key PROVE Readable(row, key) <=> row.bytes.key = key
BY DEF Readable, Decrypts

LEMMA RowsOnlyLeave ==
    ASSUME TypeOK, NEW d \in Devices, KeyFact(d), SameRows(d), UNCHANGED handle
    PROVE  KeyFact(d)'
BY DEF KeyFact, SameRows, IsOpen

LEMMA StepOneKey ==
    ASSUME TypeOK, TypeOK', InTransit, OneKeyPerDatabase, SnapshotNamesItsKey, [Next]_vars
    PROVE  OneKeyPerDatabase'
<1> SUFFICES ASSUME NEW c \in Devices PROVE KeyFact(c)'
  BY DEF OneKeyPerDatabase, KeyFact
<1>1. KeyFact(c)
  BY DEF OneKeyPerDatabase, KeyFact
<1>2. \A d \in Devices : Tables(d) \in TableSets
  BY CurrentFacts
<1>3. ASSUME NEW d \in Devices, NEW t, Write(d, t), UNCHANGED handle,
             c = d => t.envelopes \subseteq Tables(d).envelopes
      PROVE  KeyFact(c)'
  <2>1. SameRows(c)
    BY <1>3, WriteFacts DEF SameRows, Tables
  <2> QED
    BY <1>1, <1>3, <2>1, RowsOnlyLeave
<1>4. ASSUME NEW d \in Devices, Open(d) \/ Close(d) PROVE KeyFact(c)'
  BY <1>1, <1>4 DEF KeyFact, Open, Close, Tables, IsOpen, TypeOK
<1>5. ASSUME NEW d \in Devices, NEW key \in Keys, OpenWithKey(d, key) PROVE KeyFact(c)'
  <2>1. CASE c # d
    <3>1. db'[c] = db[c] /\ handle'[c] = handle[c]
      BY <1>5, <2>1 DEF OpenWithKey, TypeOK
    <3> QED
      BY <1>1, <3>1 DEF KeyFact, Tables, IsOpen
  <2>2. CASE c = d /\ Tables(d) = EmptyTables /\ db' = [db EXCEPT ![d].encrypted = TRUE]
    <3>1. Tables(c)'.envelopes = {} /\ db'[c].encrypted = TRUE
      BY <2>2 DEF Tables, EmptyTables, TypeOK
    <3> QED
      BY <3>1 DEF KeyFact
  <2>3. CASE /\ c = d /\ db[d].encrypted /\ VerifyKey(d, key)
             /\ handle' = [handle EXCEPT ![d] = key] /\ UNCHANGED db
    <3>1. \A r \in Tables(c).envelopes : r.bytes.key = key
      BY <1>1, <2>3, ReadableFacts DEF VerifyKey, KeyFact
    <3>2. handle'[c] = key
      BY <2>3 DEF TypeOK
    <3>3. Tables(c)' = Tables(c) /\ db'[c].encrypted
      BY <2>3 DEF Tables
    <3> QED
      BY <1>1, <3>1, <3>2, <3>3 DEF KeyFact
  <2> QED
    BY <1>5, <2>1, <2>2, <2>3 DEF OpenWithKey
<1>6. ASSUME NEW d \in Devices, Seed(d) PROVE KeyFact(c)'
  <2>1. Write(d, SeededTables(Tables(d))) /\ UNCHANGED handle
    BY <1>6 DEF Seed, SeededTables
  <2> QED
    BY <1>2, <1>3, <2>1, SeededFacts
<1>7. ASSUME NEW d \in Devices, NEW e \in Envelopes, Enqueue(d, e) PROVE KeyFact(c)'
  <2>1. IsOpen(d) /\ Tables(d).reserved # NoReservation /\ UNCHANGED handle
        /\ Write(d, EnqueuedTables(d, Tables(d), e))
    BY <1>7 DEF Enqueue, InUse, EnqueuedTables
  <2>2. CASE c # d
    BY <1>3, <2>1, <2>2
  <2>3. CASE c = d
    <3>1. PICK row : /\ Tables(c)'.envelopes = Tables(c).envelopes \cup {row}
                     /\ row.bytes.key = handle[c]
      <4>1. \E row \in Row :
               /\ EnqueuedTables(d, Tables(d), e).envelopes = Tables(d).envelopes \cup {row}
               /\ row.bytes.key = handle[d]
        BY <1>2, <2>1, EnqueuedRow
      <4>2. Tables(d)' = EnqueuedTables(d, Tables(d), e)
        BY <2>1, WriteFacts
      <4> QED
        BY <2>3, <4>1, <4>2
    <3>2. db'[c].encrypted = db[c].encrypted /\ handle'[c] = handle[c]
      BY <2>1, <2>3, WriteFacts
    <3> QED
      BY <1>1, <2>1, <2>3, <3>1, <3>2 DEF KeyFact, IsOpen
  <2> QED
    BY <2>2, <2>3
<1>8. ASSUME NEW d \in Devices, NEW e \in Envelopes, NEW s \in {"Propagating", "Settled", "Failed"},
             SetSettlementStatus(d, e, s)
      PROVE  KeyFact(c)'
  <2>1. Write(d, SettledTables(Tables(d), e, s)) /\ UNCHANGED handle /\ s \in Statuses
    BY <1>8 DEF SetSettlementStatus, SettledTables, Statuses
  <2> QED
    BY <1>2, <1>3, <2>1, SettledFacts
<1>9. ASSUME NEW d \in Devices, NEW e \in Envelopes, RemoveQueuedEnvelope(d, e) PROVE KeyFact(c)'
  <2>1. Write(d, TrimmedTables(Tables(d), e)) /\ UNCHANGED handle
    BY <1>9 DEF RemoveQueuedEnvelope, TrimmedTables
  <2> QED
    BY <1>2, <1>3, <2>1, TrimmedFacts
<1>10. ASSUME NEW d \in Devices, NEW x \in Conflicts, RecordConflict(d, x) PROVE KeyFact(c)'
  <2>1. Write(d, DisputedTables(Tables(d), x)) /\ UNCHANGED handle
    BY <1>10 DEF RecordConflict, DisputedTables
  <2> QED
    BY <1>2, <1>3, <2>1, DisputedFacts
<1>11. ASSUME NEW d \in Devices, ImportSnapshot(d) PROVE KeyFact(c)'
  <2>1. /\ IsOpen(d) /\ handle[d] = snapshot.key /\ active = Nowhere
        /\ Write(d, snapshot.tables) /\ UNCHANGED handle
    BY <1>11 DEF ImportSnapshot, Inserted
  <2>2. CASE c # d
    BY <1>3, <2>1, <2>2
  <2>3. CASE c = d
    <3>1. \A r \in snapshot.tables.envelopes : r.bytes.key = handle[c]
      BY <2>1, <2>3 DEF SnapshotNamesItsKey, InTransit
    <3>2. Tables(c)' = snapshot.tables /\ db'[c].encrypted = db[c].encrypted
      BY <2>1, <2>3, WriteFacts
    <3> QED
      BY <1>1, <2>1, <2>3, <3>1, <3>2 DEF KeyFact, IsOpen
  <2> QED
    BY <2>2, <2>3
<1>12. ASSUME NEW d \in Devices, ExportSnapshot(d) \/ GoBack(d) PROVE KeyFact(c)'
  BY <1>1, <1>12 DEF KeyFact, ExportSnapshot, GoBack, Tables, IsOpen
<1>13. CASE UNCHANGED vars
  BY <1>1, <1>13 DEF KeyFact, vars, Tables, IsOpen
<1> QED
  BY <1>4, <1>5, <1>6, <1>7, <1>8, <1>9, <1>10, <1>11, <1>12, <1>13 DEF Next

\* An exported blob carries the key of the handle that read it.
LEMMA StepSnapshotNamesItsKey ==
    ASSUME OneKeyPerDatabase, SnapshotNamesItsKey, [Next]_vars
    PROVE  SnapshotNamesItsKey'
<1>1. ASSUME NEW d \in Devices, ExportSnapshot(d) PROVE SnapshotNamesItsKey'
  <2>1. /\ IsOpen(d) /\ snapshot'.key = handle[d] /\ snapshot'.tables = Tables(d)
    BY <1>1 DEF ExportSnapshot, InUse
  <2>2. \A r \in Tables(d).envelopes : r.bytes.key = handle[d]
    BY <2>1 DEF OneKeyPerDatabase
  <2> QED
    BY <2>1, <2>2 DEF SnapshotNamesItsKey
<1>2. ASSUME UNCHANGED snapshot PROVE SnapshotNamesItsKey'
  BY <1>2 DEF SnapshotNamesItsKey
<1>3. ASSUME NEW d \in Devices, ImportSnapshot(d) \/ GoBack(d) PROVE UNCHANGED snapshot
  BY <1>3 DEF ImportSnapshot, GoBack
<1> QED
  BY <1>1, <1>2, <1>3, OnlyMovesMove

-----------------------------------------------------------------------------
\* What a step may do to the tables the wallet relies on.  Opening, closing,
\* exporting, importing and going back leave them as they are; the rest
\* happens on the device in use.
CurrentStep ==
    \/ Current' = Current /\ issued' = issued
    \/ /\ Current.reserved = NoReservation
       /\ Current' = SeededTables(Current) /\ issued' = issued
    \/ \E d \in Devices, e \in Envelopes :
          /\ IsOpen(d) /\ Current.reserved # NoReservation
          /\ \A x \in issued : x.id # e
          /\ Current' = EnqueuedTables(d, Current, e)
          /\ issued' = issued \cup {[id |-> e, sequence |-> Current.reserved + 1]}
    \/ \E e \in Envelopes, s \in Statuses :
          /\ \E x \in issued : x.id = e
          /\ Current' = SettledTables(Current, e, s) /\ issued' = issued
    \/ \E e \in Envelopes :
          /\ StatusOf(Current, e) \in {"Settled", "Failed"}
          /\ Current' = TrimmedTables(Current, e) /\ issued' = issued
    \/ \E c \in Conflicts : Current' = DisputedTables(Current, c) /\ issued' = issued

LEMMA StepCurrent ==
    ASSUME TypeOK, InTransit, [Next]_vars
    PROVE  CurrentStep
<1>1. Nowhere \notin Devices
  BY VaultAssumption
<1>2. ASSUME NEW d \in Devices, active = d, active' = active
      PROVE  Current = Tables(d) /\ Current' = Tables(d)'
  BY <1>1, <1>2 DEF Current, Tables
<1>3. ASSUME UNCHANGED <<active, snapshot>>, active \in Devices => Tables(active)' = Tables(active)
      PROVE  Current' = Current
  BY <1>3 DEF Current, TypeOK, Tables
<1>4. ASSUME NEW d \in Devices, NEW key \in Keys, Open(d) \/ Close(d) \/ OpenWithKey(d, key)
      PROVE  CurrentStep
  <2>1. UNCHANGED <<active, snapshot, issued>>
    BY <1>4 DEF Open, Close, OpenWithKey
  <2>2. \A c \in Devices : Tables(c)' = Tables(c)
    BY <1>4 DEF Open, Close, OpenWithKey, Tables, TypeOK
  <2> QED
    BY <1>3, <2>1, <2>2 DEF CurrentStep
<1>5. ASSUME NEW d \in Devices, Open(d) \/ Close(d) PROVE CurrentStep
  <2>1. UNCHANGED <<active, snapshot, issued, db>>
    BY <1>5 DEF Open, Close
  <2> QED
    BY <1>3, <2>1 DEF CurrentStep, Tables
<1>6. ASSUME NEW d \in Devices, Seed(d) PROVE CurrentStep
  <2>1. /\ Tables(d).reserved = NoReservation /\ Write(d, SeededTables(Tables(d)))
        /\ UNCHANGED <<active, snapshot, issued>>
    BY <1>6 DEF Seed, SeededTables
  <2>2. CASE active = d
    BY <1>2, <2>1, <2>2, WriteFacts DEF CurrentStep
  <2>3. CASE active # d
    BY <1>3, <2>1, <2>3, WriteFacts DEF CurrentStep, Tables
  <2> QED
    BY <2>2, <2>3
<1>7. ASSUME NEW d \in Devices, NEW e \in Envelopes, Enqueue(d, e) PROVE CurrentStep
  <2>1. /\ active = d /\ active' = active /\ IsOpen(d) /\ Tables(d).reserved # NoReservation
        /\ \A x \in issued : x.id # e
        /\ Write(d, EnqueuedTables(d, Tables(d), e))
        /\ issued' = issued \cup {[id |-> e, sequence |-> Tables(d).reserved + 1]}
    BY <1>7 DEF Enqueue, InUse, EnqueuedTables
  <2>2. Current = Tables(d) /\ Current' = EnqueuedTables(d, Tables(d), e)
    BY <1>2, <2>1, WriteFacts
  <2> QED
    BY <2>1, <2>2 DEF CurrentStep
<1>8. ASSUME NEW d \in Devices, NEW e \in Envelopes, NEW s \in {"Propagating", "Settled", "Failed"},
             SetSettlementStatus(d, e, s)
      PROVE  CurrentStep
  <2>1. /\ active = d /\ active' = active /\ s \in Statuses /\ issued' = issued
        /\ \E x \in issued : x.id = e
        /\ Write(d, SettledTables(Tables(d), e, s))
    BY <1>8 DEF SetSettlementStatus, InUse, SettledTables, Statuses
  <2>2. Current = Tables(d) /\ Current' = SettledTables(Tables(d), e, s)
    BY <1>2, <2>1, WriteFacts
  <2> QED
    BY <2>1, <2>2 DEF CurrentStep
<1>9. ASSUME NEW d \in Devices, NEW e \in Envelopes, RemoveQueuedEnvelope(d, e) PROVE CurrentStep
  <2>1. /\ active = d /\ active' = active /\ issued' = issued
        /\ StatusOf(Tables(d), e) \in {"Settled", "Failed"}
        /\ Write(d, TrimmedTables(Tables(d), e))
    BY <1>9 DEF RemoveQueuedEnvelope, InUse, TrimmedTables
  <2>2. Current = Tables(d) /\ Current' = TrimmedTables(Tables(d), e)
    BY <1>2, <2>1, WriteFacts
  <2> QED
    BY <2>1, <2>2 DEF CurrentStep
<1>10. ASSUME NEW d \in Devices, NEW c \in Conflicts, RecordConflict(d, c) PROVE CurrentStep
  <2>1. /\ active = d /\ active' = active /\ issued' = issued
        /\ Write(d, DisputedTables(Tables(d), c))
    BY <1>10 DEF RecordConflict, InUse, DisputedTables
  <2>2. Current = Tables(d) /\ Current' = DisputedTables(Tables(d), c)
    BY <1>2, <2>1, WriteFacts
  <2> QED
    BY <2>1, <2>2 DEF CurrentStep
<1>11. ASSUME NEW d \in Devices, ExportSnapshot(d) PROVE CurrentStep
  <2>1. active = d /\ active' = Nowhere /\ snapshot'.tables = Tables(d) /\ issued' = issued
    BY <1>11 DEF ExportSnapshot, InUse
  <2> QED
    BY <1>1, <2>1 DEF Current, CurrentStep
<1>12. ASSUME NEW d \in Devices, ImportSnapshot(d) PROVE CurrentStep
  <2>1. /\ active = Nowhere /\ active' = d /\ Write(d, snapshot.tables) /\ issued' = issued
    BY <1>12 DEF ImportSnapshot, Inserted
  <2>2. Tables(d)' = snapshot.tables
    BY <2>1, WriteFacts
  <2> QED
    BY <1>1, <2>1, <2>2 DEF Current, CurrentStep, Tables
<1>13. ASSUME NEW d \in Devices, GoBack(d) PROVE CurrentStep
  <2>1. /\ active = Nowhere /\ active' = d /\ snapshot.tables = Tables(d)
        /\ UNCHANGED <<db, issued>>
    BY <1>13 DEF GoBack
  <2> QED
    BY <1>1, <2>1 DEF Current, CurrentStep, Tables
<1>14. CASE UNCHANGED vars
  BY <1>14 DEF vars, Current, CurrentStep, Tables
<1> QED
  BY <1>4, <1>5, <1>6, <1>7, <1>8, <1>9, <1>10, <1>11, <1>12, <1>13, <1>14 DEF Next

\* CurrentFacts, of the next state
LEMMA CurrentTypeNext ==
    ASSUME TypeOK', InTransit'
    PROVE  Current' \in TableSets
BY DEF TypeOK, InTransit, Current, Tables, Blobs

\* The number a payment gets is new, and the reservations cover it.
LEMMA NumbersStep ==
    ASSUME TypeOK, TypeOK', InTransit, NumbersAreReserved, NoSequenceReuse, CurrentStep
    PROVE  NumbersAreReserved' /\ NoSequenceReuse'
<1> PICK t \in TableSets : t = Current
  BY CurrentFacts
<1>1. /\ t.reserved \in Int /\ t.reserved >= -1
      /\ DOMAIN t.status \subseteq Envelopes
  BY TablesParts
<1>2. \A x \in issued : x.id \in Envelopes /\ x.sequence \in Nat /\ x = [id |-> x.id, sequence |-> x.sequence]
  BY DEF TypeOK
<1>3. /\ \A x \in issued : x.sequence =< t.reserved
      /\ \A x, y \in issued : x.id = y.id => x = y
      /\ \A e \in DOMAIN t.status : \E x \in issued : x.id = e
      /\ \A x, y \in issued : x.sequence = y.sequence => x = y
  BY DEF NumbersAreReserved, NoSequenceReuse
<1>4. ASSUME issued' = issued, Current'.reserved = t.reserved,
             \A e \in DOMAIN Current'.status : e \in DOMAIN t.status \/ \E x \in issued : x.id = e
      PROVE  NumbersAreReserved' /\ NoSequenceReuse'
  BY <1>3, <1>4 DEF NumbersAreReserved, NoSequenceReuse
<1>5. CASE Current' = Current /\ issued' = issued
  BY <1>4, <1>5
<1>6. CASE Current.reserved = NoReservation /\ Current' = SeededTables(Current) /\ issued' = issued
  <2>1. issued = {}
    BY <1>2, <1>3, <1>6 DEF NoReservation
  <2>2. Current'.status = t.status
    BY <1>6, SeededFacts
  <2> QED
    BY <1>3, <1>6, <2>1, <2>2 DEF NumbersAreReserved, NoSequenceReuse
<1>7. ASSUME NEW d \in Devices, NEW e \in Envelopes,
             IsOpen(d), Current.reserved # NoReservation,
             \A x \in issued : x.id # e,
             Current' = EnqueuedTables(d, Current, e),
             issued' = issued \cup {[id |-> e, sequence |-> Current.reserved + 1]}
      PROVE  NumbersAreReserved' /\ NoSequenceReuse'
  <2> DEFINE x0 == [id |-> e, sequence |-> t.reserved + 1]
  <2>1. /\ Current'.reserved = t.reserved + 1
        /\ Current'.status = StatusSet(t, e, "Queued")
    BY <1>7, EnqueuedFacts
  <2>2. DOMAIN Current'.status = DOMAIN t.status \cup {e}
    BY <2>1 DEF StatusSet
  <2>3. issued' = issued \cup {x0} /\ x0.id = e /\ x0.sequence = t.reserved + 1
    BY <1>7
  <2> HIDE DEF x0
  <2>4. \A x \in issued' : x.sequence =< Current'.reserved
    BY <1>1, <1>2, <1>3, <2>1, <2>3
  <2>5. \A x, y \in issued' : x.id = y.id => x = y
    BY <1>3, <1>7, <2>3
  <2>6. \A x \in issued : x.sequence # x0.sequence
    BY <1>1, <1>2, <1>3, <2>3
  <2>7. \A x, y \in issued' : x.sequence = y.sequence => x = y
    BY <1>3, <2>3, <2>6
  <2>8. \A f \in DOMAIN Current'.status : \E x \in issued' : x.id = f
    BY <1>3, <2>2, <2>3
  <2> QED
    BY <2>4, <2>5, <2>7, <2>8 DEF NumbersAreReserved, NoSequenceReuse
<1>8. ASSUME NEW e \in Envelopes, NEW s \in Statuses, \E x \in issued : x.id = e,
             Current' = SettledTables(Current, e, s), issued' = issued
      PROVE  NumbersAreReserved' /\ NoSequenceReuse'
  <2>1. Current'.reserved = t.reserved /\ Current'.status = StatusSet(t, e, s)
    BY <1>8, SettledFacts
  <2>2. DOMAIN Current'.status = DOMAIN t.status \cup {e}
    BY <2>1 DEF StatusSet
  <2> QED
    BY <1>4, <1>8, <2>1, <2>2
<1>9. ASSUME NEW e \in Envelopes, Current' = TrimmedTables(Current, e), issued' = issued
      PROVE  NumbersAreReserved' /\ NoSequenceReuse'
  <2>1. Current'.reserved = t.reserved /\ Current'.status = t.status
    BY <1>9, TrimmedFacts
  <2> QED
    BY <1>4, <1>9, <2>1
<1>10. ASSUME NEW c \in Conflicts, Current' = DisputedTables(Current, c), issued' = issued
      PROVE  NumbersAreReserved' /\ NoSequenceReuse'
  <2>1. Current'.reserved = t.reserved /\ Current'.status = t.status
    BY <1>10, DisputedFacts
  <2> QED
    BY <1>4, <1>10, <2>1
<1> QED
  BY <1>5, <1>6, <1>7, <1>8, <1>9, <1>10 DEF CurrentStep

\* The history stays a chain: every status that is written has its row.
LEMMA HistoryStep ==
    ASSUME TypeOK, TypeOK', InTransit, InTransit', NumbersAreReserved, HistoryContinues, CurrentStep
    PROVE  HistoryContinues'
<1> PICK t \in TableSets : t = Current
  BY CurrentFacts
<1> PICK u \in TableSets : u = Current'
  BY CurrentTypeNext
<1> SUFFICES HistoryIsChain(u)
  BY DEF HistoryContinues, HistoryIsChain
<1>1. HistoryIsChain(t)
  BY DEF HistoryContinues, HistoryIsChain
<1>2. ASSUME u.history = t.history, u.status = t.status PROVE HistoryIsChain(u)
  <2>1. \A e \in Envelopes : HistoryFor(u, e) = HistoryFor(t, e) /\ StatusOf(u, e) = StatusOf(t, e)
    BY <1>2 DEF HistoryFor, StatusOf
  <2>2. \A P : Latest(u, P) = Latest(t, P)
    BY <1>2 DEF Latest
  <2> QED
    BY <1>1, <1>2, <2>1, <2>2 DEF HistoryIsChain
<1>3. CASE u = t
  BY <1>1, <1>3
<1>4. CASE u = SeededTables(t)
  BY <1>2, <1>4, SeededFacts
<1>5. ASSUME NEW d \in Devices, NEW e \in Envelopes, IsOpen(d), t.reserved # NoReservation,
             \A x \in issued : x.id # e, u = EnqueuedTables(d, t, e)
      PROVE  HistoryIsChain(u)
  <2>1. StatusOf(t, e) = NoStatus
    BY <1>5 DEF NumbersAreReserved, StatusOf
  <2>2. /\ u.status = StatusSet(t, e, "Queued")
        /\ u.history = Append(t.history, [id |-> e, from |-> StatusOf(t, e), to |-> "Queued"])
    BY <1>5, <2>1, EnqueuedFacts
  <2> QED
    BY <1>1, <2>2, ChainGrows
<1>6. ASSUME NEW e \in Envelopes, NEW s \in Statuses, u = SettledTables(t, e, s)
      PROVE  HistoryIsChain(u)
  <2>1. /\ u.status = StatusSet(t, e, s)
        /\ u.history = Append(t.history, [id |-> e, from |-> StatusOf(t, e), to |-> s])
    BY <1>6, SettledFacts
  <2> QED
    BY <1>1, <2>1, ChainGrows
<1>7. ASSUME NEW e \in Envelopes, u = TrimmedTables(t, e) PROVE HistoryIsChain(u)
  BY <1>2, <1>7, TrimmedFacts
<1>8. ASSUME NEW c \in Conflicts, u = DisputedTables(t, c) PROVE HistoryIsChain(u)
  BY <1>2, <1>8, DisputedFacts
<1> QED
  BY <1>3, <1>4, <1>5, <1>6, <1>7, <1>8 DEF CurrentStep

-----------------------------------------------------------------------------
\* A new wallet, all of whose databases are empty, satisfies the invariant.
LEMMA InitInv == Init => Inv
<1> SUFFICES ASSUME Init PROVE Inv
  OBVIOUS
<1>1. EmptyTables \in TableSets
  <2>1. [e \in {} |-> NoStatus] \in [{} -> Statuses] /\ {} \in SUBSET Envelopes
    OBVIOUS
  <2>2. [e \in {} |-> NoStatus] \in UNION {[S -> Statuses] : S \in SUBSET Envelopes}
    BY <2>1
  <2>3. <<>> \in Seq(Conflicts) /\ <<>> \in Seq(HistoryRow)
    OBVIOUS
  <2> QED
    BY <2>2, <2>3 DEF EmptyTables, TableSets
<1>2. TypeOK
  BY <1>1, VaultAssumption DEF Init, TypeOK
<1>3. InTransit /\ SnapshotNamesItsKey
  BY VaultAssumption DEF Init, InTransit, SnapshotNamesItsKey
<1>4. \A d \in Devices : Tables(d).envelopes = {} /\ ~IsOpen(d)
  BY DEF Init, Tables, EmptyTables, IsOpen
<1>5. OneKeyPerDatabase
  BY <1>4 DEF OneKeyPerDatabase
<1>6. Current = EmptyTables /\ issued = {}
  BY VaultAssumption DEF Init, Current, Tables
<1>7. DOMAIN EmptyTables.status = {} /\ EmptyTables.history = <<>>
  BY DEF EmptyTables
<1>8. NumbersAreReserved /\ NoSequenceReuse
  BY <1>6, <1>7 DEF NumbersAreReserved, NoSequenceReuse
<1>9. HistoryContinues
  <2>1. DOMAIN <<>> = {}
    OBVIOUS
  <2>2. \A e \in Envelopes : HistoryFor(Current, e) = {} /\ StatusOf(Current, e) = NoStatus
    BY <1>6, <1>7, <2>1 DEF HistoryFor, StatusOf
  <2> QED
    BY <2>2 DEF HistoryContinues, Latest
<1> QED
  BY <1>2, <1>3, <1>5, <1>8, <1>9 DEF Inv

\* Every step of every device preserves it.
LEMMA StepInv == Inv /\ [Next]_vars => Inv'
<1> SUFFICES ASSUME Inv, [Next]_vars PROVE Inv'
  OBVIOUS
<1>1. /\ TypeOK /\ InTransit /\ OneKeyPerDatabase /\ SnapshotNamesItsKey
      /\ NumbersAreReserved /\ NoSequenceReuse /\ HistoryContinues
  BY DEF Inv
<1>2. TypeOK' /\ InTransit' /\ CurrentStep
  BY <1>1, StepTypes, StepInTransit, StepCurrent
<1>3. OneKeyPerDatabase' /\ SnapshotNamesItsKey'
  BY <1>1, <1>2, StepOneKey, StepSnapshotNamesItsKey
<1>4. NumbersAreReserved' /\ NoSequenceReuse' /\ HistoryContinues'
  BY <1>1, <1>2, NumbersStep, HistoryStep
<1> QED
  BY <1>2, <1>3, <1>4 DEF Inv

LEMMA Invariance == Spec => []Inv
<1> QED
  BY InitInv, StepInv, PTL DEF Spec

\* import_snapshot brings the reservations along: two payments never get one
\* sequence number, on however many devices the wallet lived.
THEOREM NumbersAreUsedOnce == Spec => []NoSequenceReuse
<1>1. Inv => NoSequenceReuse
  BY DEF Inv
<1> QED
  BY <1>1, Invariance, PTL

\* verify_encryption_key tries one row only; that suffices for
\* list_queued_envelopes never to meet a row it cannot read.
THEOREM OpenMeansReadable == Spec => []OpenDatabaseIsReadable
<1>1. Inv => OpenDatabaseIsReadable
  <2> SUFFICES ASSUME Inv, NEW d \in Devices, IsOpen(d), NEW row \in Tables(d).envelopes
               PROVE  Readable(row, handle[d])
    BY DEF OpenDatabaseIsReadable, Listable
  <2>1. row.bytes.key = handle[d]
    BY DEF Inv, OneKeyPerDatabase
  <2> QED
    BY <2>1, ReadableFacts
<1> QED
  BY <1>1, Invariance, PTL

\* history_for returns one chain of statuses that ends in the present one,
\* rows written on a former device included.
THEOREM HistoryIsUnbroken == Spec => []HistoryContinues
<1>1. Inv => HistoryContinues
  BY DEF Inv
<1> QED
  BY <1>1, Invariance, PTL

\* Of two tables, what u keeps of t: every conflict, every status, and every
\* payment that is not over.
Keeps(t, u) ==
    /\ UnresolvedConflicts(t) \subseteq UnresolvedConflicts(u)
    /\ DOMAIN t.status \subseteq DOMAIN u.status
    /\ \A row \in t.envelopes \ u.envelopes : StatusOf(t, row.id) \in {"Settled", "Failed"}

LEMMA EnqueuedKeeps ==
    ASSUME TypeOK, NEW t \in TableSets, NEW d \in Devices, NEW e \in Envelopes, IsOpen(d),
           t.reserved # NoReservation
    PROVE  Keeps(t, EnqueuedTables(d, t, e))
<1> DEFINE u == EnqueuedTables(d, t, e)
<1>1. /\ \E row \in Row : u.envelopes = t.envelopes \cup {row}
      /\ u.status = StatusSet(t, e, "Queued") /\ u.conflicts = t.conflicts
  BY EnqueuedRow
<1> HIDE DEF u
<1>2. DOMAIN t.status \subseteq DOMAIN u.status
  BY <1>1 DEF StatusSet
<1> QED
  BY <1>1, <1>2 DEF Keeps, UnresolvedConflicts, u

LEMMA SettledKeeps ==
    ASSUME NEW t \in TableSets, NEW e \in Envelopes, NEW s \in Statuses
    PROVE  Keeps(t, SettledTables(t, e, s))
<1> DEFINE u == SettledTables(t, e, s)
<1>1. /\ u.envelopes = t.envelopes
      /\ u.status = StatusSet(t, e, s) /\ u.conflicts = t.conflicts
  BY SettledFacts
<1> HIDE DEF u
<1>2. DOMAIN t.status \subseteq DOMAIN u.status
  BY <1>1 DEF StatusSet
<1> QED
  BY <1>1, <1>2 DEF Keeps, UnresolvedConflicts, u

LEMMA DisputedKeeps ==
    ASSUME NEW t \in TableSets, NEW c \in Conflicts
    PROVE  Keeps(t, DisputedTables(t, c))
<1> DEFINE u == DisputedTables(t, c)
<1>1. /\ u.status = t.status /\ u.envelopes = t.envelopes
      /\ u.conflicts = Append(t.conflicts, c)
  BY DisputedFacts
<1>2. t.conflicts \in Seq(Conflicts)
  BY TablesParts
<1> HIDE DEF u
<1>3. \A i \in DOMAIN t.conflicts : i \in DOMAIN u.conflicts /\ u.conflicts[i] = t.conflicts[i]
  BY <1>1, <1>2
<1>4. UnresolvedConflicts(t) \subseteq UnresolvedConflicts(u)
  BY <1>3 DEF UnresolvedConflicts, Range
<1> QED
  BY <1>1, <1>4 DEF Keeps, u

\* What a step takes from the current tables: at most a payment that is over.
LEMMA StepKeeps ==
    ASSUME TypeOK, InTransit, CurrentStep
    PROVE  Keeps(Current, Current')
<1>1. Current \in TableSets
  BY CurrentFacts
<1>2. CASE Current' = Current
  BY <1>2 DEF Keeps
<1>3. CASE Current' = SeededTables(Current)
  BY <1>1, <1>3, SeededFacts DEF Keeps, UnresolvedConflicts
<1>4. ASSUME NEW d \in Devices, NEW e \in Envelopes, IsOpen(d), Current.reserved # NoReservation,
             Current' = EnqueuedTables(d, Current, e)
      PROVE  Keeps(Current, Current')
  BY <1>1, <1>4, EnqueuedKeeps
<1>5. ASSUME NEW e \in Envelopes, NEW s \in Statuses, Current' = SettledTables(Current, e, s)
      PROVE  Keeps(Current, Current')
  BY <1>1, <1>5, SettledKeeps
<1>6. ASSUME NEW e \in Envelopes, StatusOf(Current, e) \in {"Settled", "Failed"},
             Current' = TrimmedTables(Current, e)
      PROVE  Keeps(Current, Current')
  BY <1>1, <1>6, TrimmedFacts DEF Keeps, UnresolvedConflicts
<1>7. ASSUME NEW c \in Conflicts, Current' = DisputedTables(Current, c)
      PROVE  Keeps(Current, Current')
  BY <1>1, <1>7, DisputedKeeps
<1> QED
  BY <1>2, <1>3, <1>4, <1>5, <1>6, <1>7 DEF CurrentStep

\* export_snapshot and import_snapshot, whenever they happen and whatever fails,
\* lose no conflict, no status and no payment that still matters.
THEOREM MovesLoseNothing == Spec => NothingLost
<1>1. Inv /\ [Next]_vars =>
         /\ UnresolvedConflicts(Current) \subseteq UnresolvedConflicts(Current')
         /\ DOMAIN Current.status \subseteq DOMAIN Current'.status
         /\ \A row \in Current.envelopes \ Current'.envelopes :
               StatusOf(Current, row.id) \in {"Settled", "Failed"}
  <2>1. Inv /\ [Next]_vars => Keeps(Current, Current')
    BY StepCurrent, StepKeeps DEF Inv
  <2> QED
    BY <2>1 DEF Keeps
<1> QED
  BY <1>1, Invariance, PTL DEF Spec, NothingLost
=============================================================================
