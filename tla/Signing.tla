------------------------------ MODULE Signing ------------------------------
(* Offline signing against a chain that moves on: the reservation manager of
   queue/sequence.rs with reconcile, and the builder of envelope/builder.rs
   with resequence_and_resign, for one source account. Other devices of the
   same account spend sequence numbers too, observations of the chain may be
   old, and a signed transaction can be submitted at any later moment.

   The manager leaves two decisions to the wallet, and the wallet of this
   module takes them with care: it re-signs a payment only if reconcile has
   reported its number stale and the chain shows that number spent by another
   transaction, and it gives a reservation back late only above the baseline.
*)
EXTENDS Integers, FiniteSets, Sequences

CONSTANTS Payments,      \* what the owner wants to pay
          MaxSequence,   \* bound on sequence numbers
          MaxObserved    \* bound on the number of reconciliations

ASSUME SigningAssumption ==
    MaxSequence \in Nat /\ MaxObserved \in Nat

VARIABLES
    manager,   \* baseline and reserved, as SequenceReservationManager keeps them
    signed,    \* transactions signed so far: payment and sequence number
    pending,   \* a number reserved for a transaction not built yet
    chain,     \* the account's transactions on chain, in sequence order
    stale,     \* for each sequence number, how often reconcile reported it
    observations  \* how often the chain was observed

signingVars == <<manager, signed, chain, pending, stale, observations>>

Elsewhere == "elsewhere"           \* a transaction of another device
Numbers == 1..MaxSequence
NoNumber == 0
Transactions == [payment : Payments, sequence : Numbers]

SigningTypeOK ==
    /\ manager \in [baseline : 0..MaxSequence, reserved : 0..MaxSequence]
    /\ signed \subseteq Transactions
    /\ chain \in Seq(Payments \cup {Elsewhere}) /\ Len(chain) <= MaxSequence
    /\ pending \in {NoNumber} \cup Numbers
    /\ stale \in [Numbers -> Nat]
    /\ observations \in 0..MaxObserved

(* The account seeded with the sequence number of a fresh chain. *)
SigningInit ==
    /\ manager = [baseline |-> 0, reserved |-> 0]
    /\ signed = {}
    /\ chain = <<>>
    /\ pending = NoNumber
    /\ stale = [s \in Numbers |-> 0]
    /\ observations = 0

(* What the wallet can see of the chain: everything up to the baseline. *)
SettledOnChain(p) == \E s \in 1..manager.baseline : chain[s] = p

(* reserve_next: one past the last reservation. *)
ReserveNext == [manager EXCEPT !.reserved = @ + 1]

(* release: only the most recent reservation can be given back. *)
ReleaseLast == [manager EXCEPT !.reserved = @ - 1]

(* with_updated_sequence: the same payment under another number. *)
WithUpdatedSequence(tx, s) == [tx EXCEPT !.sequence = s]

(* build_and_sign, the first time a payment is signed. A transaction under
   any other number than the one reserved gives the reservation back in the
   same call and signs nothing: nothing changes. *)
BuildAndSign(p) ==
    /\ manager.reserved < MaxSequence
    /\ \A tx \in signed : tx.payment # p
    /\ manager' = ReserveNext
    /\ signed' = signed \cup {[payment |-> p, sequence |-> ReserveNext.reserved]}
    /\ UNCHANGED <<chain, pending, stale, observations>>

(* resequence_and_resign, as a careful wallet calls it. *)
Resequence(tx) ==
    /\ tx \in signed
    /\ stale[tx.sequence] > 0
    /\ ~SettledOnChain(tx.payment)
    /\ \A other \in signed :
          other.payment = tx.payment => stale[other.sequence] > 0
    /\ manager.reserved < MaxSequence
    /\ manager' = ReserveNext
    /\ signed' = signed \cup {WithUpdatedSequence(tx, ReserveNext.reserved)}
    /\ UNCHANGED <<chain, pending, stale, observations>>

(* A number is reserved ahead of its transaction ... *)
Reserve ==
    /\ pending = NoNumber
    /\ manager.reserved < MaxSequence
    /\ manager' = ReserveNext
    /\ pending' = ReserveNext.reserved
    /\ UNCHANGED <<signed, chain, stale, observations>>

(* ... and given back when there will be none. release refuses all but the
   last reservation; the wallet keeps a number the chain has reached. *)
Release ==
    /\ pending # NoNumber
    /\ pending' = NoNumber
    /\ manager' = IF pending = manager.reserved /\ pending > manager.baseline
                  THEN ReleaseLast ELSE manager
    /\ UNCHANGED <<signed, chain, stale, observations>>

(* Bug: everything reserved counts as overtaken. *)
StaleUpToReserved(observed) == (manager.baseline + 1)..manager.reserved

(* Bug: the first overtaken number is skipped. *)
StaleAfterNext(observed) ==
    (manager.baseline + 2)..
        (IF observed < manager.reserved THEN observed ELSE manager.reserved)

(* The reservations an observation has overtaken since the last one. *)
StaleSequences(observed) ==
    (manager.baseline + 1)..
        (IF observed < manager.reserved THEN observed ELSE manager.reserved)

(* reconcile: nothing for an observation at or below the baseline; otherwise
   report what was overtaken and move the baseline, and the last reservation
   with it if the chain is past it. *)
Reconcile(observed) ==
    /\ observations < MaxObserved
    /\ observed \in 0..Len(chain)
    /\ observations' = observations + 1
    /\ IF observed <= manager.baseline
       THEN UNCHANGED <<manager, stale>>
       ELSE /\ stale' = [s \in Numbers |->
                 IF s \in StaleSequences(observed) THEN stale[s] + 1 ELSE stale[s]]
            /\ manager' = [baseline |-> observed,
                           reserved |-> IF observed > manager.reserved
                                        THEN observed ELSE manager.reserved]
    /\ UNCHANGED <<signed, chain, pending>>

(* The chain takes a transaction only under the account's next number. *)
Submit(tx) ==
    /\ tx \in signed
    /\ tx.sequence = Len(chain) + 1
    /\ chain' = Append(chain, tx.payment)
    /\ UNCHANGED <<manager, signed, pending, stale, observations>>

(* Another device spends the next number. *)
SpendElsewhere ==
    /\ Len(chain) < MaxSequence
    /\ chain' = Append(chain, Elsewhere)
    /\ UNCHANGED <<manager, signed, pending, stale, observations>>

SigningNext ==
    \/ \E p \in Payments : BuildAndSign(p)
    \/ \E tx \in signed : Resequence(tx) \/ Submit(tx)
    \/ \E observed \in 0..MaxSequence : Reconcile(observed)
    \/ Reserve \/ Release
    \/ SpendElsewhere

SigningSpec == SigningInit /\ [][SigningNext]_signingVars

-----------------------------------------------------------------------------
(* Reconcile tells a wallet of every transaction it signed that the chain has
   passed by, and tells it exactly once, whatever observations come in whatever
   order and whatever reservations are given back in between. In particular no
   payment is signed under a number the manager already knows to be spent. *)
EveryStrandedPaymentIsReported ==
    \A tx \in signed :
        stale[tx.sequence] = IF tx.sequence <= manager.baseline THEN 1 ELSE 0

(* A payment that is re-signed under a fresh number because reconcile called
   the old one stale is still paid at most once: no report comes early. *)
PaidAtMostOnce ==
    \A i, j \in DOMAIN chain :
        i # j /\ chain[i] = chain[j] => chain[i] = Elsewhere
=============================================================================
