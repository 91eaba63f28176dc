------------------------------- MODULE Vault -------------------------------
(***************************************************************************)
(* A wallet's database over its life (storage/db.rs, encryption.rs): it is *)
(* created or opened with a key that may be mistyped, written, and moved   *)
(* to another device by export_snapshot and import_snapshot.  The wallet   *)
(* follows the documented rules: one device is in use at a time, a device  *)
(* that was exported is retired, a snapshot goes into a database opened    *)
(* with the source's key, and a database is not switched between plain and *)
(* encrypted.  What the code does not check and these rules replace is     *)
(* told in the README.                                                     *)
(***************************************************************************)
EXTENDS Settlement, Integers, Sequences, SequencesExt, FiniteSetsExt

CONSTANTS Devices,
          First,          \* the device the wallet starts on
          Envelopes,
          Keys,           \* encryption keys the user may supply
          Conflicts,      \* conflicts a detector may report
          MaxHistory,     \* bound on the history table
          MaxImports      \* bound on the number of moves

Plain   == "plain"
Closed  == "closed"
Nowhere == "nowhere"

ASSUME VaultAssumption ==
    /\ First \in Devices /\ Nowhere \notin Devices
    /\ Plain \notin Keys /\ Closed \notin Keys
    /\ MaxHistory \in Nat /\ MaxImports \in Nat

VARIABLES
    db,        \* the file of each device: its tables and encryption flag
    handle,    \* the key of the open SyncEngineDb, Plain, or Closed
    active,    \* the device in use, or Nowhere between devices
    snapshot,  \* the blob of the last export, NoBlob before it
    imports,   \* how many snapshots were imported
    issued,    \* every payment ever queued, with its sequence number
    chain      \* the account's sequence number on the ledger

vars == <<db, handle, active, snapshot, imports, issued, chain>>

NoReservation == -1
SchemaVersion == 1
NoBlob == [version |-> 0]

\* the tables of init; encryption_metadata is not part of a snapshot
EmptyTables == [envelopes |-> {}, status |-> [e \in {} |-> NoStatus],
                reserved |-> NoReservation, conflicts |-> <<>>, history |-> <<>>]

Bytes == [of : Envelopes, key : Keys \cup {Plain}]
Row   == [id : Envelopes, sequence : Nat, bytes : Bytes]

HistoryRow == [id : Envelopes, from : Statuses \cup {NoStatus}, to : Statuses]

TableSets == [envelopes : SUBSET Row,
              status    : UNION {[S -> Statuses] : S \in SUBSET Envelopes},
              reserved  : Nat \cup {NoReservation},
              conflicts : Seq(Conflicts),
              history   : Seq(HistoryRow)]

Blobs == [version : {SchemaVersion}, key : Keys \cup {Plain}, tables : TableSets]

TypeOK ==
    /\ db \in [Devices -> [tables : TableSets, encrypted : BOOLEAN]]
    /\ handle \in [Devices -> Keys \cup {Plain, Closed}]
    /\ active \in Devices \cup {Nowhere}
    /\ snapshot \in Blobs \cup {NoBlob}
    /\ imports \in 0..MaxImports
    /\ issued \subseteq [id : Envelopes, sequence : Nat]
    /\ chain \in Nat

Init ==
    /\ db = [d \in Devices |-> [tables |-> EmptyTables, encrypted |-> FALSE]]
    /\ handle = [d \in Devices |-> Closed]
    /\ active = First
    /\ snapshot = NoBlob
    /\ imports = 0
    /\ issued = {}
    /\ chain = 0

Tables(d) == db[d].tables
IsOpen(d) == handle[d] # Closed
InUse(d)  == IsOpen(d) /\ active = d

Write(d, tables) == db' = [db EXCEPT ![d].tables = tables]

-----------------------------------------------------------------------------
(* Encryption at rest.                                                     *)

\* EncryptedData::encrypt: authenticated, under a nonce of its own
Encrypt(e, key) == [of |-> e, key |-> key]

\* EncryptedData::decrypt: another key is an error, never other plaintext
Decrypts(bytes, key) == bytes.key = key

\* encrypt_if_enabled
Sealed(key, e, n) ==
    [id |-> e, sequence |-> n,
     bytes |-> IF key = Plain THEN [of |-> e, key |-> Plain] ELSE Encrypt(e, key)]

\* decrypt_if_needed and the decoding that follows: ciphertext is no envelope
Readable(row, key) ==
    IF key = Plain THEN row.bytes.key = Plain ELSE Decrypts(row.bytes, key)

\* Bug: the key is never tried.
AnyKeyWill(d, key) == TRUE

\* verify_encryption_key: one row, whichever comes first, and any key is
\* right where there is none
VerifyKey(d, key) == Tables(d).envelopes = {} \/
    \E row \in Tables(d).envelopes : Readable(row, key)

\* list_queued_envelopes fails if one row cannot be read
Listable(d) == \A row \in Tables(d).envelopes : Readable(row, handle[d])

\* init, of a database that is not encrypted
Open(d) ==
    /\ ~IsOpen(d)
    /\ ~db[d].encrypted
    /\ handle' = [handle EXCEPT ![d] = Plain]
    /\ UNCHANGED <<db, active, snapshot, imports, issued, chain>>

\* init_with_encryption: a new database gets the flag, an encrypted one has
\* the key tried on it
OpenWithKey(d, key) ==
    /\ ~IsOpen(d)
    /\ \/ /\ ~db[d].encrypted
          /\ Tables(d) = EmptyTables
          /\ db' = [db EXCEPT ![d].encrypted = TRUE]
          /\ handle' \in {handle, [handle EXCEPT ![d] = key]}  \* or it dies here
       \/ /\ db[d].encrypted
          /\ VerifyKey(d, key)
          /\ handle' = [handle EXCEPT ![d] = key]
          /\ UNCHANGED db
    /\ UNCHANGED <<active, snapshot, imports, issued, chain>>

\* The process ends; every write so far was committed.
Close(d) ==
    /\ IsOpen(d)
    /\ handle' = [handle EXCEPT ![d] = Closed]
    /\ UNCHANGED <<db, active, snapshot, imports, issued, chain>>

-----------------------------------------------------------------------------
(* The wallet at work.                                                     *)

\* the wallet learns the account's sequence number where none is stored
\* (load_sequence_reservation, save_sequence_reservation), in use or not
Seed(d) ==
    /\ IsOpen(d)
    /\ Tables(d).reserved = NoReservation
    /\ Write(d, [Tables(d) EXCEPT !.reserved = chain])
    /\ UNCHANGED <<handle, active, snapshot, imports, issued, chain>>

\* INSERT OR REPLACE of one settlement_status row
StatusSet(t, e, s) ==
    [f \in DOMAIN t.status \cup {e} |-> IF f = e THEN s ELSE t.status[f]]

\* enqueue_transaction, or the save_sequence_reservation, enqueue_envelope
\* and set_settlement_status it replaces: the next number, a sealed row
Enqueue(d, e) ==
    LET t == Tables(d)
        n == t.reserved + 1
    IN /\ InUse(d)
       /\ t.reserved # NoReservation
       /\ \A x \in issued : x.id # e
       /\ Len(t.history) < MaxHistory
       /\ Write(d, [t EXCEPT !.reserved = n,
                             !.envelopes = @ \cup {Sealed(handle[d], e, n)},
                             !.status = StatusSet(t, e, "Queued"),
                             !.history = Append(@, [id |-> e, from |-> NoStatus,
                                                    to |-> "Queued"])])
       /\ issued' = issued \cup {[id |-> e, sequence |-> n]}
    /\ UNCHANGED <<handle, active, snapshot, imports, chain>>

\* get_settlement_status, with the default set_settlement_status takes
StatusOf(t, e) == IF e \in DOMAIN t.status THEN t.status[e] ELSE NoStatus

\* history_for: where the rows of one payment are in the table, which is in
\* the order they were written
HistoryFor(t, e) == {i \in DOMAIN t.history : t.history[i].id = e}

\* set_settlement_status and its history row
SetSettlementStatus(d, e, s) ==
    LET t == Tables(d)
    IN /\ InUse(d)
       /\ Len(t.history) < MaxHistory
       /\ \E x \in issued : x.id = e
       /\ StatusOf(t, e) # s
       /\ Write(d, [t EXCEPT
              !.status = StatusSet(t, e, s),
              !.history = Append(@, [id |-> e, from |-> StatusOf(t, e), to |-> s])])
       /\ chain' = IF s # "Settled" THEN chain
                   ELSE Max({chain} \cup {x.sequence : x \in {y \in issued : y.id = e}})
    /\ UNCHANGED <<handle, active, snapshot, imports, issued>>

\* remove_queued_envelope, once the payment is over
RemoveQueuedEnvelope(d, e) ==
    /\ InUse(d)
    /\ StatusOf(Tables(d), e) \in {"Settled", "Failed"}
    /\ \E row \in Tables(d).envelopes : row.id = e
    /\ Write(d, [Tables(d) EXCEPT !.envelopes = {r \in @ : r.id # e}])
    /\ UNCHANGED <<handle, active, snapshot, imports, issued, chain>>

\* record_conflict
RecordConflict(d, c) ==
    /\ InUse(d)
    /\ ~Contains(Tables(d).conflicts, c)
    /\ Write(d, [Tables(d) EXCEPT !.conflicts = Append(@, c)])
    /\ UNCHANGED <<handle, active, snapshot, imports, issued, chain>>

\* list_unresolved_conflicts: nothing ever resolves a row
UnresolvedConflicts(t) == Range(t.conflicts)

-----------------------------------------------------------------------------
(* Moving to another device.                                               *)

\* export_snapshot reads every table in one call, rows as they are stored;
\* the wallet retires the device.
ExportSnapshot(d) ==
    /\ InUse(d)
    /\ imports < MaxImports
    /\ snapshot' = [version |-> SchemaVersion, key |-> handle[d],
                    tables |-> Tables(d)]
    /\ active' = Nowhere
    /\ UNCHANGED <<db, handle, imports, issued, chain>>

\* Bug: the reservations are left for the new device to seed.
WithoutReservations(t) == [t EXCEPT !.reserved = NoReservation]

\* Bug: the settlement_status table is left out.
WithoutStatus(t) == [t EXCEPT !.status = EmptyTables.status]

\* Bug: the conflicts table is left out.
WithoutConflicts(t) == [t EXCEPT !.conflicts = <<>>]

\* the inserts of import_snapshot, one transaction
Inserted(t) == t

\* the emptiness check of the same transaction: every table
TargetEmpty(d) == Tables(d) = EmptyTables

\* import_snapshot: all of it into an empty database, or an error and nothing;
\* a crash before the commit is a transaction that did not happen
ImportSnapshot(d) ==
    /\ IsOpen(d)
    /\ active = Nowhere
    /\ snapshot.version = SchemaVersion
    /\ handle[d] = snapshot.key
    /\ TargetEmpty(d)
    /\ Write(d, Inserted(snapshot.tables))
    /\ active' = d
    /\ imports' = imports + 1
    /\ UNCHANGED <<handle, snapshot, issued, chain>>

\* Where the target cannot take the snapshot, the user goes on with the
\* device it came from.
GoBack(d) ==
    /\ active = Nowhere
    /\ snapshot # NoBlob
    /\ snapshot.tables = Tables(d)
    /\ Tables(d) # EmptyTables
    /\ active' = d
    /\ UNCHANGED <<db, handle, snapshot, imports, issued, chain>>

Next == \E d \in Devices :
    \/ Open(d)
    \/ \E key \in Keys : OpenWithKey(d, key)
    \/ Close(d)
    \/ Seed(d)
    \/ \E e \in Envelopes : Enqueue(d, e) \/ RemoveQueuedEnvelope(d, e)
    \/ \E e \in Envelopes, s \in {"Propagating", "Settled", "Failed"} :
           SetSettlementStatus(d, e, s)
    \/ \E c \in Conflicts : RecordConflict(d, c)
    \/ ExportSnapshot(d)
    \/ ImportSnapshot(d)
    \/ GoBack(d)

Spec == Init /\ [][Next]_vars
-----------------------------------------------------------------------------
\* the tables the wallet relies on: of the device in use, or in the blob
Current == IF active = Nowhere THEN snapshot.tables ELSE Tables(active)

\* No two payments are given one sequence number, on whatever devices they
\* were queued: the reservations travel with the snapshot.
NoSequenceReuse == \A x, y \in issued : x.sequence = y.sequence => x = y

\* A database that opened reads all its envelopes, after keys were mistyped,
\* rows removed and snapshots of ciphertext imported: verify_encryption_key
\* looks at one row, and that is enough.
OpenDatabaseIsReadable == \A d \in Devices : IsOpen(d) => Listable(d)

\* the status the latest of some history rows records
Latest(t, positions) ==
    IF positions = {} THEN NoStatus ELSE t.history[Max(positions)].to

\* The history of a payment is one chain from no status to its present one
\* (history_for), across devices.
HistoryContinues == \A e \in Envelopes :
    LET steps == HistoryFor(Current, e)
    IN /\ \A i \in steps : Current.history[i].from =
                              Latest(Current, {j \in steps : j < i})
       /\ StatusOf(Current, e) = Latest(Current, steps)

\* A move keeps every conflict, every status and every payment that is not
\* over: empty + snapshot = snapshot, exactly.
NothingLost == [][
    /\ UnresolvedConflicts(Current) \subseteq UnresolvedConflicts(Current')
    /\ DOMAIN Current.status \subseteq DOMAIN Current'.status
    /\ \A row \in Current.envelopes \ Current'.envelopes :
          StatusOf(Current, row.id) \in {"Settled", "Failed"}]_vars
=============================================================================
