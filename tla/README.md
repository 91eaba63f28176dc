# StellarConduit Sync Engine: TLA+ specifications

This directory specifies the sync engine, the library a wallet embeds to sign
payments offline, keep them through crashes, hand each to the mesh and follow it
to settlement. It holds TLA+ modules translated from `src/src/`, TLC
configurations that check them on small instances, and TLAPS proofs of the
properties that should hold for every instance.

* [The system](#the-system)
* [The modules](#the-modules)
* [Assumptions](#assumptions)
* [The runs](#the-runs)
* [Where the code and its documentation part](#where-the-code-and-its-documentation-part)
* [The proofs](#the-proofs)
* [What is not modelled, and the plan](#what-is-not-modelled-and-the-plan)
* [Running the checks](#running-the-checks)

## The system

Paths are below `src/src/`.

| Component | State | Operations | Correct when | Hard because |
|---|---|---|---|---|
| `engine.rs` `SyncEngine` | a database connection, the three in-memory structures below, a second synchronous connection | `open`, `seed_account`, `queue_payment`, `next_to_dispatch`, `mark_settlement`, `settlement_status`, `record_conflict` | no sequence number reused or skipped, no envelope handed over twice or lost, memory agrees with the disk | may be killed between any two steps; writes fail; futures are dropped |
| `settlement/tracker.rs` | status per message id | `track`, `restore`, `transition` | only legal moves, terminal `Settled` | the same status is also a row, written by others |
| `queue/sequence.rs` | baseline and last reservation per account; signer weights | `seed`, `reserve_next`, `release`, `reconcile` | strictly increasing, without holes, never below the chain | rollback after a failure, drift from the chain, `i64` limits |
| `queue/priority.rs` | a heap; the Emergency guard's recent admissions | `push_at`, `restore_at`, `peek`, `pop` | higher tiers first, oldest first in a tier, at most N emergencies a window | restoring out of time order, a clock that differs between sessions |
| `queue/dispatch.rs` | in-flight slots with their dispatch time | `try_acquire`, `acknowledge`, `abandon`, `release_expired` | at most N outstanding, dead sessions' slots come back | a late acknowledgement against a slot acquired anew |
| `queue/vdf_ordering.rs`, `queue/spendable.rs` | none | evaluate, verify, sort; sum | order independent of input order; no overflow | pure, numeric |
| `envelope/*` | collected signatures | `build_and_sign`, `add_signature`, `try_promote`, `resequence_and_resign` | the signed slot is the reserved one; a threshold is met by distinct signers | signatures out of order, repeated |
| `storage/db.rs` | SQLite tables: reservations, envelopes, statuses and their history, conflicts, escalations | one method per write; batches, sweeps, import and export | multi-row changes are atomic, statuses move legally | several methods are sequences of autocommit writes |
| `conflict/*` | none between calls | detect, count relay proofs, resolve, quorum, escalate | the same verdict on every relay | ties, votes beyond the quorum, input order |
| `settlement/transparency_log.rs` | leaves and Merkle levels | append, prove inclusion and consistency, verify | honest proofs verify, the log only grows | odd levels, sizes that are not powers of two |
| `metrics.rs` | counters, a privacy budget | record, export | never more released than the budget allows | window and cache boundaries |
| `ffi.rs`, `cli.rs`, `clock.rs`, `encryption.rs`, `errors.rs`, `sim/*` | a mutex; a time offset; keys | marshalling, reports, test harness | pass through | |

How they interact: the engine owns the tracker, the reservation manager and the
heap, and is the only part that writes both them and the database. Every engine
method but the reads takes `&mut self`, and `ffi.rs` puts one mutex around the
engine, so engine calls never overlap. What does interleave with a call is the end of
the process, at any step; the failure of a write; and the end of the caller's interest: an
`async` caller may drop a future while the closure it sent to the database
thread still runs. The outbound window, the conflict pipeline, the transparency
log, the metrics export, dispatch evidence, multisig collection and the
spendable estimate are libraries the embedding wallet or relay calls next to
the engine; nothing in the crate composes them, so where a module needs a
caller the caller is the module's own and the text below says what it is
assumed to do.

## The modules

| Module | Models |
|---|---|
| `Settlement` | `SettlementStatus`, its table of legal moves and `SettlementTracker::transition` |
| `SyncEngine` | `engine.rs` with the storage, sequence, queue, builder and tracker code its calls reach |
| `DurableLedger` | what the engine promises: one admission per slot, legal moves, one hand-over. No code of its own |
| `MCSyncEngine` | `SyncEngine` with small sets for TLC |
| `SyncEngineProofs` | types, sequence numbers, hand-overs, tracker against disk, restarts, implementation of `DurableLedger` |
| `Store` | `SyncEngineDb` shared by concurrent tasks: the stale sweep, escalations, batch updates |
| `MCStore` | `Store` with small sets for TLC |
| `StoreProofs` | types, disputes and their escalations, no return to `Queued` |
| `Outbound`, `MCOutbound` | `OutboundTxQueue` with its Emergency guard, `DispatchWindow` and the clock, used by several dispatcher tasks across restarts |
| `Vault`, `MCVault` | the life of a database file: encryption flag and key check, writes, conflicts, history, export and import on a second device |
| `Conflicts`, `MCConflicts` | detection, relay proofs, two-way and n-way resolution, escalation, on devices that hear everything in their own order |
| `Signing` | `SequenceReservationManager` with `reconcile` and late releases, `build_and_sign`, `resequence_and_resign`, against a chain other devices write too |
| `Multisig` | collection and promotion of multisig signatures while the signer set changes |
| `PrivateExport` | the metrics counters and the exporter's windows and budget |
| `TransparencyLog` | append, inclusion and consistency proofs and their verification |
| `Committee` | the quorum vote of `conflict/quorum.rs` with Byzantine members |
| `DispatchEvidence` | the order of `queue/vdf_ordering.rs` and what a delay proof is bound to |
| `NativeHandle` | the C handle of `ffi.rs`: one mutex, panics, poisoning |
| `Spendable` | `estimate_spendable` and a wallet that pays by it |
| `MCLibraries` | the last eight for TLC, one at a time |
| `OutboundProofs`, `VaultProofs`, `ConflictsProofs` | inductive invariants and theorems of the module each extends |
| `WalletProofs` | the same for `Signing`, `Multisig` and `Spendable`, with what they need of sums over finite sets |
| `LibraryProofs` | the same for `Committee`, `DispatchEvidence`, `PrivateExport` and `NativeHandle` |
| `TransparencyLogProofs` | what inclusion and consistency proofs show, for logs of any length |

### `SyncEngine`: state

| `SyncEngine` | Code |
|---|---|
| `diskReserved`, `diskRow`, `diskStatus` | tables `sequence_reservations`, `queued_envelopes` (its `priority` column), `settlement_status` |
| `reserved` | `SequenceReservationManager::reserved` |
| `heap` | `OutboundTxQueue::heap`, as the number of entries for each envelope and tier |
| `tracker` | `SettlementTracker::statuses` |
| `call` | the method in progress and the `.await` or statement it has reached; `Idle` between calls, `Closed` when no process runs |
| `handed`, `baselines` | history: how often each envelope was returned by `next_to_dispatch`; the baselines ever seeded. No action reads them |

An envelope is the record of the account, the sequence number and a payload:
the source account and sequence that `build_and_sign` takes from the XDR, and
something to tell two transactions for one slot apart. It stands for the
`message_id` too.

### `SyncEngine`: steps

A method is split exactly where a crash, a failure or a dropped future can tell
the parts apart:

* `queue_payment`: `QueuePayment` (automatic baseline, reservation, comparison with the XDR, signing; all in memory),
  then `CommitEnqueue` (the three-table transaction) or `EnqueueFails` (with the
  release of the reservation), then `FinishEnqueue` (heap and tracker). `QueuePaymentRejected` is
  every early return: the automatic baseline is all it leaves behind. When the account has
  a baseline an early return changes nothing and is a stutter.
* `next_to_dispatch`: `PersistDispatch` (the `Propagating` marker for the entry at
  the front), then `FinishDispatch` (pop, tracker, return). A failed marker is a stutter.
* `mark_settlement`: `MarkSettlement` (validation against the tracker and the
  status row), then `FinishMark`, or `HistoryWriteFails`: the two statements of
  `set_settlement_status` are not one transaction. A failed status row is a stutter.
* `seed_account`: `SeedAccount` (memory), then `SaveReservation` or `SaveReservationFails`.
* `open` is one step (`Open`). It writes nothing, so a crash inside it is the
  same as one before it. `Crash` may follow any other step.
* `DropQueuePayment`, `DropMarkSettlement`: the future is gone, the write
  already sent happens or fails, what follows the `.await` does not run. A dropped `seed_account` ends
  like `SaveReservation` or `SaveReservationFails`, which have nothing after the `.await`.

Abstracted: the bytes of envelopes and XDR, timestamps, and with them the order
of equal priorities (any of them may be first, which includes the order of the
code), the history table's contents, logging, encryption of the stored blob. The
heap is one without an Emergency guard, as `open` builds it. `record_conflict`
touches none of this state and is left to the conflict modules.

### `Store`

The engine keeps its database to itself, but `SyncEngineDb` is public and takes
`&self`: several tasks may hold an `Arc` of one, as the test
`test_escalation_survives_conflicting_concurrent_writes` (db.rs:2131) does. One database thread runs one
closure at a time, so a closure is an action, and a method that awaits several
closures is a task with a list of what it still has to do (`task`).

* `sweep_stale_envelopes`: `ReadStale` (the SELECT), `FailStale` for each id, `EndSweep`.
* `save_escalation`: `InsertEscalation`, then `DisputeSide` for `envelope_a` and for `envelope_b`.
* One closure each: `Enqueue`, `SetSettlementStatusBatch` (moves the table
  forbids are left out, the rest applied), `MarkEscalationSubmitted`.
* `Abandon`: a statement fails and `?` returns, or the future is dropped. `Crash`
  ends every task. The tables stay as they are.

Abstracted: ages (any subset of the unfinished envelopes may be stale), the order
of the sweep's ids (any), the history table, the escalation's addresses and proof.
A batch names an envelope once. `BatchStatuses` leaves out `Disputed`: disputes
are opened by escalations; a relay that reports `Disputed` in a batch opens one
with no escalation, and `DisputeIsEscalated` says nothing of it.
`SyncEngine` and `Store` are not composed: nothing in the repository runs a
sweep beside an open engine.

### `Outbound`

`heap`, `history` and `inFlight` are the heap, the guard's admission times and
the window's slots; `rows` are the stored envelopes with the time they carry;
`held` is the envelope a task popped and has no slot for yet. `Push` is
`push_at` with the guard's check, `Pop` the task's look at the window and its `pop`,
`TryAcquire` the acquisition that sweeps expired slots first, `Acknowledge` and
`Abandon` the releases that do not sweep. `Restart` is a new process: every
stored row is replayed with `restore_at`, in any order, and the clock says
anything. `Tick` moves `HybridClock` forward, as it does while a process lives.

`Retry`, the transmission of a payment whose slot expired, is the embedding
application's and is modelled as `dispatch.rs` asks for it. The replay is the
application's too: `restore_at` pushes every row it is given into the heap as well as the guard,
so replaying all rows queues sent payments again and the tasks skip them by their status, while
replaying only the `Queued` rows would empty the guard. `list_queued_envelopes` has no ORDER BY.

A comment says `push_at` replays without checking the guard; the code, and the
model, check it there and not in `restore_at`. The clock is read in whole seconds.
A clock set back makes the guard reject more than it must; set forward it
expires entries early, which is what it is told. Both are in the model, and a
late acknowledgement may free a slot that was taken anew: `WindowBound` counts
what the window believes.

### `Vault`

One record of tables and an encryption flag per device. A key is a name and a
row carries the key it was sealed with: AES-GCM under a wrong key is an error,
never other plaintext. `OpenWithKey` may stop between the flag and the handle.
`ExportSnapshot` copies rows as stored; `ImportSnapshot` is the one transaction
that checks every table for emptiness and inserts.

The wallet keeps three rules the code cannot check: an exported device is not
used again unless the move is given up, the target is opened with the source's
key, and a plain database is not opened with a key nor an encrypted one without.
The last is worth knowing: db.rs:343-347 promises an `EncryptionKeyMismatch`,
but `init_with_encryption` sets the flag on a plain database that has rows, and
`init` opens an encrypted one. A target on which an account was seeded before
the import is refused. The table `dispute_escalations` is in `Store`, not here.

### `Conflicts`

`slots` is what a device heard, in order and with repetitions; `observations`
the proofs it filed under each envelope; `open` and `verdict` the candidates of
its last scan and the winner for them. Scanning and resolving are two steps, so
slots and proofs arrive in between. Messages are duplicated, reordered and kept
from a device; proofs are forged, filed under the wrong envelope, signed for
another sequence number or minted twice by one Byzantine relay. `sim/` supplies
this environment: the split-brain race, the forger and the replayer.

`ids.sort()` is written by ranks: `Sorted` puts each member of a finite set where
the number of smaller members says. Equal ids are told apart by their position
(`ById`), so the group still has repetitions until `Deduped` drops neighbours,
as `ids.dedup()` does; without the sort before it, equal ids need not be neighbours.
The code orders its lists by account and sequence before the ids. Which order the slots
have among themselves matters to nothing here, so the ids alone decide.

### The eight libraries

* `Signing`. `chain` is the account on the ledger; `SpendElsewhere` are its other
  devices; `Reconcile` takes any observation up to the present, old ones included; `Submit`
  may come at any later moment. The wallet re-signs a payment only when
  `reconcile` reported its number stale and the chain up to the baseline does not
  show it (a stale report includes numbers the wallet's own payments were settled under), and does not
  release a number at or below the baseline: `release` would hand a spent number out again.
* `Multisig`. Signers contribute in any order and again; the registry is reseeded
  between signing and promotion. The fields of `PartiallySignedEnvelope` are
  public and `try_promote` verifies no signature, so callers go through `add_signature`.
* `PrivateExport` runs two histories that differ in one event, which is how
  differential privacy is defined. A scraper reads the clock before it takes the
  mutex. The budget is one exporter's: two exporters have two.
* `TransparencyLog`. Hashes are injective constructors, so a root determines its
  tree. `verify_consistency_proof` says nothing about which leaves are new; the auditor
  module takes those from the log, as the code's callers do.
* `Committee`. A ballot carries no voter, so a collector must take one per
  member. The docs ask for `3F < M` and `T > 2M/3`; in a committee of `N` with a
  quorum of `M` what is needed is `2T > N + F`, which follows when `N = M`.
* `DispatchEvidence`. Squarings are counted, not computed; a proof says for
  which seed and envelope it was made and how long it took.
* `NativeHandle`. The engine behind the handle is its last reserved number, the
  payments it tracks and the rows. Two handles on one database are not prevented by
  the code and not modelled.
* `Spendable`. The wallet reads its balance anew when it marks a payment
  `Settled`, marks `Failed` only what the chain can no longer take (the sweep of
  `Store` also marks what may still land), and asks for the estimate before every retry.
  Saturation cannot be reached by payments that went through the estimate.

## Assumptions

`Faults` says which faults beyond crashes and failed writes an instance
has: `"droppedFuture"` and `"historyWrite"`. `Discipline` says which rules its wallet keeps:

* `"monotoneSeed"`: `seed_account` is never called with less than the
  stored reservation. The code does not ask for it.
* `"marksDispatched"`: `mark_settlement` is not called for an envelope that is
  still `Queued` in the tracker. The code allows it.

Both are assumptions about callers, so each has a violation run that shows what
happens without it.

Fairness of `SyncEngine` (`FairSpec`): weak for `Open` and for each step that follows a write, because a
running process goes on and a dead device is switched on again; strong for
`PersistDispatch`, because the application polls `next_to_dispatch` for ever and
neither crashes nor disk failures keep one poll from ever succeeding. Strong,
not weak: a crash disables the step, and crashes may recur. There is no
fairness for `QueuePayment` or `MarkSettlement`: nobody has to pay, and no
relay has to answer. `Store` is fair to one step only: a relay with
connectivity eventually submits each row `list_pending_escalations` gives it.
The other modules claim safety only: the crate starts no task of its own, so
nothing it contains justifies fairness for them.

The rules their callers keep are listed with each module above; they are
assumptions about wallets, not facts about the code.

## The runs

| Run | Instance | Shows |
|---|---|---|
| `core` | 1 account, 2 payloads, 2 tiers, sequences 0..2, crashes and failed transactions | types; `NoSequenceReuse`; `MemoryIsRebuilt`; `NoSkippedSequence`; `EveryPaymentLeavesQueue` under fairness; `ImplementsLedger` |
| `faults` | 1 account, 2 payloads, 1 tier, sequences 0..3, also dropped futures and lost history rows | which of these survive: `NoSequenceReuse`, `AtMostOneHandoff`, `HeapBackedByDisk`, `TrackerAtMostOneMoveBehind` |
| `store` | 3 envelopes, 2 conflicts that share one of them, 2 tasks, at most 2 escalation rows; batches report `Queued`, `Propagating`, `Settled` | `DisputeIsEscalated`, `NeverRequeued`, and `EveryDisputeIsSubmitted` under fairness, with crashes and failures between any two statements |
| `sweep` | as `store`, 2 envelopes, no conflicts | a sweep overwrites a settlement |
| `conflicts` | 2 devices of which one collects proofs, 4 envelopes of which 2 race for a slot, 3 relays of which 1 lies, quorum 2, 4 messages | `DetectionIgnoresArrival`, `MergeFindsEveryConflict`, `HonestRelayBehindWinner`, `NwayAgreesWithPairs`, `SameOrderSameDispute`, `WinnerBeatEveryContender`, `NoDirectFlip` |
| `outbound` | 1 Emergency payment a window of 2 s, 1 slot of 2 s, 2 tasks, clock 0..3 | `EmergencyBound`, `WindowBound`, `NothingForgotten`, `NoOverlappingSends`, `OldestOfTierFirst` |
| `vault` | an old and a new device, the right key and a mistyped one, 2 payments, 1 conflict, 4 history rows, 1 move | `NoSequenceReuse`, `OpenDatabaseIsReadable`, `HistoryContinues`, `NothingLost` |
| `libraries` | the eight libraries one after another, bounds as in `Libraries.cfg` | one or two properties of each, below |
| `reseed`, `settled`, `lost`, `memory` | as `core`, without one assumption each | the divergences of the next section |

The bounds. Two payloads are what two payments for one slot take. Two sequence
numbers let one payment be queued while another is between its steps, and let a
hole appear (three in `faults`, so that two lost calls in a row can be followed by
another). Two tiers let a later payment overtake. One account is enough because
no action reads one account's reservation for another; the heap's order across
accounts is that of their tiers. Calls, crashes and reopenings are unbounded.
Payloads are interchangeable and `faults`, which checks only invariants, uses
that symmetry; `core` checks liveness and does not.

In `store` two tasks are what a race takes, two conflicts with a common envelope let
one escalation dispute what another is about, and a third envelope has only
one of the two escalations to speak for it. `Failed` comes from the sweep, so batches need not report it.

In `conflicts` the slot has three rivals, so that a third may turn up between
the scan and the verdict, and the fourth envelope belongs to another slot. Three relays and a quorum of two
let an honest majority, a tie and a lie that does not suffice all happen. In
`outbound` a window and a timeout of two seconds on a clock of four values let
admissions fall in, on the edge of and out of one span. In `vault` four
history rows are two payments queued and each moved once, before or after the
move. In `libraries`: five sequence numbers take two payments, their re-signing
and another device's transaction; three signers where one may count double; logs
of up to eight rows have every shape of tree an odd level can give, and two rewrites of
history; four committee members with one liar and a threshold of three are the
smallest committee the bound admits; two rounds and two squarings separate
evidence of this round from evidence of the last; two panics tear the engine a second time after a reopening.
The part is chosen initially and the others do not move, so each is explored completely.

What each property is about:

* `NoSequenceReuse`: no two different stored payments for one account and
  sequence number. It takes a crash or failure between reservation and commit, or a
  stale baseline, to break.
* `NoSkippedSequence`: every stored sequence follows a seeded baseline or another stored
  payment. It fails as soon as a failed enqueue keeps its reservation. It does not hold when a
  `queue_payment` future is dropped and its write fails, because nobody releases the reservation then
  (`faults` does not claim it).
* `AtMostOneHandoff`: at most one return from `next_to_dispatch` per envelope, across all restarts.
* `MemoryIsRebuilt`: between calls, memory is what `open` would compute from the tables.
* `HeapBackedByDisk` and `TrackerAtMostOneMoveBehind`: what is left of it
  when calls can be interrupted.
* `EveryPaymentLeavesQueue`: a stored `Queued` payment is eventually moved on.
* `ImplementsLedger`: the engine refines `DurableLedger` under
  `status <- diskStatus`, `handedOver <- {e : handed[e] > 0}`.
* `DisputeIsEscalated`, `EveryDisputeIsSubmitted`: no interruption of
  `save_escalation` leaves a payment blocked as `Disputed` with no row for a relay to submit.
* `NeverRequeued`: no interleaving puts an envelope back to `Queued`, where the next `open` would dispatch it again.
* `EmergencyBound`: over any span of the guard's window, by the times the rows carry, no more Emergency payments
  than configured, restarts included; `WindowBound`: the session's slots, though tasks check before they acquire.
* `NothingForgotten`, `NoOverlappingSends`, `OldestOfTierFirst`: no stored payment drops out of queue and
  hands; no renewal of a valid slot; no overtaking inside a tier after a restore.
* `OpenDatabaseIsReadable`: trying the key on one row is enough, as all rows of a database share
  their key through writes, removals and imports. `HistoryContinues`, `NothingLost`: what a move must keep.
* `DetectionIgnoresArrival`, `MergeFindsEveryConflict`: the conflicts found are a function of the set of slots heard.
* `HonestRelayBehindWinner`: fewer Byzantine relays than the quorum win nothing.
  `NwayAgreesWithPairs`: the one pass over a group agrees with the pairs. `SameOrderSameDispute`:
  two devices file the same dispute. `WinnerBeatEveryContender`: a stale scan decides
  nothing, because the evidence must name exactly the candidates. `NoDirectFlip`: no proof turns a verdict into its opposite.
* `EveryStrandedPaymentIsReported`, `PaidAtMostOnce`: `reconcile` reports each overtaken number once, so
  re-signing by its reports pays once.
* `PromotedWithAuthority`: what is promoted carried the threshold under the signers
  in force at its promotion.
* `EventInOneWindow`, `NoSecondDrawInWindow`: what the noise is calibrated for. The first holds only
  until `snapshot_and_reset` is called, which lowers counters under the exporter.
* `AuditorAcceptsHonestHistoryOnly`: an auditor that follows consistency proofs accepts
  exactly the extensions of what it knew. `InclusionProvesPairedEntries`: which inclusion proofs verify (below).
* `CommitteeAgreement`, `OvertakingCostsTheDelay`, `PanicsStayContained`: as the theorems below.
* `UnderWayIsCovered`: what is under way never exceeds what the account holds.

Each property of a passing run has a mutant in `PROJECT.json`: a plausible bug in
a mapped definition (the operators with a `Bug:` comment) under which TLC finds the property violated.

## Where the code and its documentation part

1. `reseed`. `seed_account` (engine.rs:139) overwrites the reservation with
   whatever it is given. Queue payments for sequences 1 and 2, seed again with
   the chain's 0, and the next payment reserves 1 again: two signed transactions
   for one slot. `ffi.rs:119-122` shows seeding at launch as ordinary use, and
   the module docs promise that no sequence number is reused.
2. `settled`. `mark_settlement` does not take an envelope out of the heap, so
   `Queued -> Propagating -> Settled` by `mark_settlement` alone (as
   `engine_restart_test.rs:279-287` does) is followed by a `next_to_dispatch`
   that hands the envelope over and stores `Propagating` over `Settled`.
3. `lost`. The marker is durable before `next_to_dispatch` returns. A crash in
   between loses the payment: it is stored as `Propagating`, was never handed over and
   is not re-queued. The order is the price of `AtMostOneHandoff`; the docs promise both.
4. `memory`. With `":memory:"` the dispatch connection is an empty database, the
   marker fails for ever and no payment is ever dispatched; the comment calls this harmless.
5. `sweep`. `sweep_stale_envelopes` writes `Failed` without looking at the status
   again (db.rs:1267): a settlement committed after its SELECT is lost. The
   test at db.rs:1957 says a sweep ignores settled envelopes; it tries this without a second task.

Two more were met in modules that have no violation run of their own:

* The inclusion proof of a node without a sibling pads with `EMPTY_HASH`
  (transparency_log.rs:174), while the tree promotes such a node unchanged. Its
  proof does not verify. `InclusionProvesPairedEntries` states exactly which do: those
  whose path meets no unpaired node.
* The key checks of `Vault`, as told there (db.rs:343-347).

Also observed: `verify_integrity` after `from_entries` compares hashes with
themselves, and every CLI report creates the database it is pointed at if there is none.

## The proofs

All theorems of `SyncEngine` and `Store` hold for any accounts, payloads, tiers and any `MaxSequence`, from
`ConstantsAssumption` (for `Store`, `StoreAssumption`) plus what each theorem assumes.

| Theorem | Assumes | States |
|---|---|---|
| `TypeCorrect` | | `Spec => []TypeOK` |
| `SequenceNeverReused` | monotone seeding | `Spec => []NoSequenceReuse` |
| `HandedOverOnce` | monotone seeding | `Spec => []AtMostOneHandoff` |
| `HeapIsBackedByDisk` | monotone seeding | `Spec => []HeapBackedByDisk` |
| `NoSequenceSkipped` | no dropped `queue_payment` | `Spec => []NoSkippedSequence` |
| `TrackerFollowsDisk` | both disciplines | `Spec => []TrackerAtMostOneMoveBehind` |
| `RestartIsInvisible` | both disciplines, no interrupted calls | `Spec => []MemoryIsRebuilt` |
| `DisputesAreEscalated` | | `Store`'s `Spec => []DisputeIsEscalated` |
| `NothingIsRequeued` | | `Store`'s `Spec => NeverRequeued` |
| `ImplementsTheLedger` | both disciplines, no interrupted calls | `Spec => ImplementsLedger` |

Six more say which step breaks a property that not every behaviour has. They
allow every modelled fault: the hypothesis is not on the constants but a condition
`[][~ Step]_vars` on the behaviour, that the one named step does not happen.

| Theorem | Assumes | The step | What holds of every behaviour without it |
|---|---|---|---|
| `OnlyLostPaymentsSkip` | | `PaymentLost`: a `queue_payment` is dropped and its write fails too | `[]NoSkippedSequence` |
| `OnlyCutOffCallsShow` | both disciplines | `MarkInterrupted` (a `mark_settlement` ends between its status row and the tracker); `PaymentUnnoticed` (a `queue_payment` is dropped and its write lands) | `[]MemoryIsRebuilt` |
| `OnlyInterruptedMarksDiverge` | both disciplines | `MarkInterrupted` | `ImplementsLedger` |
| `SettledStays` | both disciplines | `MarkInterrupted` | `SyncEngine`'s `SettledIsTerminal` |
| `OnlyDispatchCrashesLose` | both disciplines | `DispatchCrashes`: the device dies between `persist_dispatch_status` and the return of `next_to_dispatch` | `[]NoSilentLoss` |
| `OnlyRacesUnsettle` | | `SettlesUnderSweep` (an envelope settles while a sweep that read it runs); `SettledIsDisputed` (`save_escalation` disputes a settled envelope) | `Store`'s `SettledIsTerminal` |

So the counterexample of the run `lost` shows the only way there is, and that of `sweep` the first of
the two. That of `settled` needs an undisciplined wallet, as in that run, or an interrupted `mark_settlement`.
`NoSequenceSkipped`, `RestartIsInvisible` and `ImplementsTheLedger` follow from
the first three, because without the faults the steps are never enabled.

The other theorems hold for every value of the constants, under the named ASSUMEs
of the module whose specification they are about.

| Theorem | Proved in | States |
|---|---|---|
| `EmergencyBoundHolds`, `WindowBoundHolds`, `NothingIsForgotten` | `OutboundProofs` | `EmergencyBound`, `WindowBound`, `NothingForgotten` |
| `SendsDoNotOverlap`, `TiersAreServedInOrder` | `OutboundProofs` | the action properties `NoOverlappingSends`, `OldestOfTierFirst` |
| `NumbersAreUsedOnce`, `OpenMeansReadable`, `HistoryIsUnbroken` | `VaultProofs` | `NoSequenceReuse`, `OpenDatabaseIsReadable`, `HistoryContinues` |
| `MovesLoseNothing` | `VaultProofs` | the action property `NothingLost` |
| `DetectionDependsOnTheSet`, `MergeIsComplete` | `ConflictsProofs` | `DetectionIgnoresArrival`, `MergeFindsEveryConflict` |
| `WinnersHaveAnHonestRelay`, `OnePassAgreesWithPairs`, `DisputesAgree` | `ConflictsProofs` | `HonestRelayBehindWinner`, `NwayAgreesWithPairs`, `SameOrderSameDispute` |
| `NoContenderIsLeftOut`, `VerdictsDoNotFlip` | `ConflictsProofs` | the action properties `WinnerBeatEveryContender`, `NoDirectFlip` |
| `StrandedPaymentsAreReported`, `PaymentsAreMadeOnce` | `WalletProofs` | `EveryStrandedPaymentIsReported`, `PaidAtMostOnce` |
| `PromotionsAreAuthorized` | `WalletProofs` | `PromotedWithAuthority` |
| `OfflinePaymentsAreCovered` | `WalletProofs` | `UnderWayIsCovered` |
| `CommitteesAgree` | `LibraryProofs` | `CommitteeAgreement` |
| `OvertakingIsPaidFor` | `LibraryProofs` | `OvertakingCostsTheDelay` |
| `EventsAreReleasedOnce`, `NoiseIsDrawnOncePerWindow` | `LibraryProofs` | `EventInOneWindow`, `NoSecondDrawInWindow` |
| `PanicsContained` | `LibraryProofs` | `PanicsStayContained` |
| `AuditorIsNotFooled`, `InclusionIsExact` | `TransparencyLogProofs` | `AuditorAcceptsHonestHistoryOnly`, `InclusionProvesPairedEntries` |

All of `SyncEngine`'s but the ones that say otherwise allow dropped futures and lost history rows. The chain of inductive
invariants of `SyncEngine`, each using some of those before it:

1. `TypeInv`: types, plus "while `next_to_dispatch` runs, the entry it peeked is
   still in the heap"; without it the pop could make a count negative.
2. `SequenceInv`: every stored sequence is at most its account's stored reservation, memory
   never reserves below the disk, and a payment on its way to the database is
   above everything stored for its account. That last part makes `NoSequenceReuse` inductive; it is what
   a stale baseline destroys.
3. `HandoffInv`: a heap entry has its row, is the only one for its
   envelope and was never handed over; what was handed over is neither `Queued` on disk nor in
   the heap. Sequence freshness is needed because a new payment must not be an old one under a new row.
4. `AnchorInv`: every reservation, in memory or on disk, is a seeded baseline or the
   sequence of a stored payment, except the one of the payment on its way to the
   database, whose predecessor is. That is why releasing it after a failure restores the invariant.
5. `TrackerInv`: stored and tracked envelopes have statuses, heap entries are
   tracked `Queued`, and while a call is between its write and its memory
   update the disk holds exactly the value it is about to copy.
6. `RestartInv`: only the envelope of the running call may differ between memory
   and disk. Calls cut off after their write break this one, which is why `OnlyCutOffCallsShow` excludes them.
7. `TrackedInStep`, for the refinement: what is tracked and not being written is what is stored. It is weaker
   than `RestartInv` because an envelope whose `queue_payment` was dropped is not tracked, so no call
   can move it before the next `open`; only an interrupted mark leaves a stale status to validate against.
8. `LeftQueueIsHanded`, for silent loss: whatever is stored past `Queued` was handed over or is the
   envelope of the running dispatch. A mark starts from a tracked status past `Queued`, which by
   `TrackerInv` means a stored one past `Queued`.

The refinement maps `CommitEnqueue`, and a `DropQueuePayment` whose write lands, to `Admit`, `PersistDispatch` and
`MarkSettlement` to `Advance`, `FinishDispatch` to `HandOver`, and every other
step to a stutter (`StepsImplementLedger`).

For `Store` the invariant is `EscalationInv`: besides the property, an
escalation under way has its row in the table (`UnderWayIsStored`), and rows are
never removed (`RowsStay`), so the writes that come later have something to point to. `SweepsSpareSettled`, for
`OnlyRacesUnsettle`: unless an envelope settles under a running sweep, no sweep lists a settled one.

`Outbound` (`Inv`). What memory holds agrees with the rows (`MemoryAgrees`). The bound on
Emergency payments is not inductive, because the guard counts its history and the bound
counts rows. `GuardRemembers` ties them: the history has an entry of its own for
every row inside the window, whatever else it holds. Only entries that left the window are ever
pruned, by the clock that later admissions are compared with, and a restart
restores an entry for every row. An admission then finds fewer than `MaxCount` rows within the window
before it. A clock set back makes older rows recent; the replay of all
rows, not only the queued ones, is what keeps `GuardRemembers` then.

`Vault` (`Inv`). All rows of one database are sealed with one key, which is the handle's
when it is open and `Plain` without the flag (`OneKeyPerDatabase`), so the row that
`verify_encryption_key` tries speaks for the rest; a snapshot names its key (`SnapshotNamesItsKey`).
The numbers and the history follow `Current`, the tables in use or in transit: a
step either leaves them alone, a move included, or is one of the writes on them
(`StepCurrent`). That lemma carries `NumbersAreReserved`, the chain of each
payment's history and `NothingLost` past exports and imports.

`Conflicts` (`Inv`). Most of its properties are about what the algorithms compute from
any state of the right type, not about how the state came about. They rest on facts about sorting:
`SortedLists` (ranks in a strict order are a bijection onto `1..n`, because a smaller
member has a smaller set below it) and `DedupedLists` (in a sorted list, dropping equal
neighbours leaves each value once). Hence a group is the sorted list
of a set, and two views with the same set have the same groups. `HonestRelayBehindWinner`
needs `SignedOnly`: a filed proof that verifies was signed by its relay, and
honest relays sign what they carried; more relays than there are Byzantine ones include an honest one.
`NoDirectFlip` holds because one proof changes one support by at most one, and a win is by at least one.

The others, each with one inductive invariant:

* `SigningInv`. Reports reach exactly up to the baseline and no signed number is
  pending, hence a released number is nobody's. Everything on chain was signed under its number, and of
  the signed transactions of one payment at most one lies beyond the end of the
  chain (`OneLiveTransaction`). The property alone is not inductive: a second live
  transaction of a payment breaks it two steps later. All signing, first or again, is one lemma (`SignKeepsInv`).
* `MultisigInv`. Whoever contributed to the envelope agreed to its present payload
  (`ContributionsAgree`); agreements are never withdrawn, so what was promoted with
  enough weight keeps it (`AuthorityStays`, which needs that more signers weigh no less).
* `SpendableInv`. The wallet knows at most the balance plus what the chain took and the estimate
  still reserves (`KnowledgeIsReserved`): an old balance overstates by what was spent
  since, and no more. So what the estimate leaves covers the next payment. Payments are saturating sums in
  the code; `SaturationAdds` shows that a saturated sum is the sum or the largest number.
* `CommitteeInv`. Votes are frozen by a decision, and honest members told
  everybody one story; two sets of voters of size `T` share an honest member
  (`QuorumsMeet`, by cardinalities).
* `EvidenceInv`. A computation under the running seed has done no more squarings
  than time since that seed allows; no computation has a seed of the future.
* `ExportInv`. Without a reset, the released difference is the difference of the
  last-release counters, and counters only grow past those.
* `HandleInv`. A call holds the mutex of a usable handle from first to last step,
  and behind a usable handle the engine is as far ahead of the rows as the
  running call explains. Behind a poisoned handle nothing is known, and nothing needs to be.

`TransparencyLog` has a short invariant, `AuditorInv` (what the auditor keeps is the
size and root of a history that was logged), and long facts about its algorithms, in this order:

1. Every recursive function of the module exists and obeys its equation
   (`PowerRecursion`, `LevelRecursion`, `SubtreeSplits`, ...). The library's induction
   theorems take an operator, which the provers cannot instantiate; a set of numbers that holds
   each one whenever it holds the smaller ones does as well (`AllNumbers`). This is why the module halves
   numbers rather than raise two to a power: the provers know nothing of exponentiation.
2. A level has half as many nodes as the one below, rounded up, so the root level is
   reached (`HeightFacts`), and a level of known width tells the level below it. Hence two
   histories of one length with one root are equal (`RootBinds`, `RootsBindEntries`). The length is
   given because `RootBinds` is about nodes of any kind: a list of one node has that node as its root.
3. No node is the empty hash or has it on its right (`LevelsAreHonest`), because
   unpaired nodes are promoted. So a path climbs to the root only through neighbours, and only from the
   right leaf (`InclusionShows`).
4. `build_tree_levels` and `subtree_hash` build one tree, though one pairs neighbours and
   the other splits at a power of two (`HalvedSubtree`, `RootIsSubtree`): halving a range halves where it splits.
5. The pieces of `collect_subtree_hashes`, chained from the right, give the hash of
   the whole range (`PiecesChain`): below a number that is no power, the largest power is the same
   (`PowerBelow`), so each piece is what `subtree_hash` splits off. Hence the code accepts its own
   proofs for every two sizes (`HonestConsistencyHolds`), and what they bind is the old root.

The sums of `Multisig` and `Spendable` are folds over sets, which the library
defines through a function that takes a member away at a time. No induction theorem the
prover can use applies to it. The first part of `WalletProofs` argues by
smallest counterexamples instead (`SmallestSubset`): such a function exists (`SumExists`),
any two agree (`SumsAgree`), and a sum over two disjoint sets is the sum of theirs (`SumSplits`).

Only model-checked: `EveryPaymentLeavesQueue` and `EveryDisputeIsSubmitted`: liveness under fairness is beyond the prover.

Type invariants are proved as parts of the inductive invariants. Only `SyncEngine`'s
is a property of a run.

## What is not modelled, and the plan

Not modelled:

* Cryptography as such: key derivation, nonces and ciphers of `encryption.rs`,
  `pq.rs`, the XDR codec and base32, the squarings and the proof of exponentiation of
  `vdf_ordering.rs`, the checks of a dispute proof's fields. What they decide
  (which key opens a row, what a proof is bound to) is modelled.
* Marshalling and reports: strings and pointers of `ffi.rs`, `cli.rs`,
  `errors.rs`, the text formats and the Laplace noise of `metrics.rs`.
  `sse_seed_account` and the conflict listing take the handle's mutex for one
  engine call, as the modelled ones do.
* `invariants.rs`, a debugging aid that replays recorded traces against the table of `Settlement`.
* The simulation harness as a program; `Conflicts` takes its environment from it.
* The overflow of a sequence number at `i64::MAX` (sequence.rs:62 adds one
  unchecked). Accounts start near ledger number times 2^32.
* What the code cannot see: an exported device that stays in use, two
  engine handles or two exporters on one database or registry.

What would come next, most useful first: `Outbound` composed with `SyncEngine`, once the
engine owns a window; an abstract mesh that both `Conflicts` and `Store`
implement, for disputes from detection to submission.

## Running the checks

From this directory:

    tlc -workers 2 -config SyncEngine_core.cfg MCSyncEngine.tla
    tlapm SyncEngineProofs.tla

`core` has about 30 000 distinct states, `store` 280 000, `conflicts` 290 000,
`outbound` and `vault` 830 000 each, `faults` 1.2 million and `libraries` 1.9 million; each
finishes in about a minute or less. The violation runs stop with a counterexample within seconds. Each
proof module takes a minute or two from nothing.
