------------------------------ MODULE Multisig ------------------------------
(* Collecting the signatures of a multisig account offline: the cached signer
   sets of MultisigAccountRegistry (queue/sequence.rs) and the partially signed
   envelopes of envelope/builder.rs. Signers contribute on their own devices in
   any order and more than once; the wallet may sync and re-seed the registry
   in between, so a signer counted yesterday may be gone at promotion.

   try_promote verifies no signature: it counts the keys of the contributions.
   The payload an envelope carries is public and may be edited, so what it
   promotes is what was signed only if nobody edits an envelope that has
   contributions; the wallet of this module does not.
*)
EXTENDS Integers, FiniteSets, FiniteSetsExt

CONSTANTS Signers,     \* public keys
          Snapshots,   \* the signer sets the chain may show: functions from
                       \* some signers to weights
          Threshold,   \* the effective threshold of the account
          Payloads,    \* payloads an envelope may carry
          MaxReseeds   \* bound on registry syncs

ASSUME MultisigAssumption ==
    /\ \A known \in Snapshots :
          /\ DOMAIN known \subseteq Signers /\ IsFiniteSet(DOMAIN known)
          /\ \A s \in DOMAIN known : known[s] \in Nat
    /\ Threshold \in Nat
    /\ MaxReseeds \in Nat

VARIABLES
    registry,      \* the cached signer set: its signers and their weights
    partial,       \* the envelope: its payload and its contributions
    authorized,    \* who ever agreed to which payload
    promoted,      \* payloads promoted, with the registry that was asked
    reseeds        \* syncs so far

multisigVars == <<registry, partial, authorized, promoted, reseeds>>

NotSeeded == <<>>
NoEnvelope == [tx |-> "none", contributions |-> {}]

MultisigTypeOK ==
    /\ registry \in Snapshots \cup {NotSeeded}
    /\ partial \in [tx : Payloads, contributions : SUBSET Signers] \cup {NoEnvelope}
    /\ authorized \subseteq Signers \X Payloads
    /\ promoted \subseteq [tx : Payloads, known : Snapshots]
    /\ reseeds \in 0..MaxReseeds

MultisigInit ==
    /\ registry = NotSeeded
    /\ partial = NoEnvelope
    /\ authorized = {}
    /\ promoted = {}
    /\ reseeds = 0

(* seed: the fresh snapshot replaces the cached one. *)
Reseed(known) ==
    /\ reseeds < MaxReseeds
    /\ registry' = known
    /\ reseeds' = reseeds + 1
    /\ UNCHANGED <<partial, authorized, promoted>>

(* Bug: the contributions to the last payload are kept. *)
EditInPlace(tx) ==
    /\ partial' = [partial EXCEPT !.tx = tx]
    /\ UNCHANGED <<registry, authorized, promoted, reseeds>>

(* new: an envelope for another payload starts without contributions. *)
Restart(tx) ==
    /\ partial' = [tx |-> tx, contributions |-> {}]
    /\ UNCHANGED <<registry, authorized, promoted, reseeds>>

IsKnownSigner(signer) == signer \in DOMAIN registry

(* add_signature: known signers only; signing again replaces one's entry. *)
AddSignature(signer) ==
    /\ partial # NoEnvelope
    /\ IsKnownSigner(signer)
    /\ partial' = [partial EXCEPT !.contributions = @ \cup {signer}]
    /\ authorized' = authorized \cup {<<signer, partial.tx>>}
    /\ UNCHANGED <<registry, promoted, reseeds>>

(* accumulated_weight: a contributor the registry does not know counts nothing. *)
AccumulatedWeight(known, keys) ==
    MapThenSumSet(LAMBDA s : known[s], keys \cap DOMAIN known)

(* meets_threshold: false for an account that was never seeded. *)
MeetsThreshold(known, keys) ==
    known # NotSeeded /\ AccumulatedWeight(known, keys) >= Threshold

(* try_promote: only above the threshold, by the registry of this moment. *)
TryPromote ==
    /\ partial # NoEnvelope
    /\ MeetsThreshold(registry, partial.contributions)
    /\ promoted' = promoted \cup {[tx |-> partial.tx, known |-> registry]}
    /\ UNCHANGED <<registry, partial, authorized, reseeds>>

MultisigNext ==
    \/ \E known \in Snapshots : Reseed(known)
    \/ \E tx \in Payloads : Restart(tx)
    \/ \E signer \in Signers : AddSignature(signer)
    \/ TryPromote

MultisigSpec == MultisigInit /\ [][MultisigNext]_multisigVars

-----------------------------------------------------------------------------
(* Whatever is promoted was agreed to, in exactly that form, by signers who
   carry the threshold in the signer set known at that moment: not by someone
   counted twice, not by someone removed since, not by agreement to another
   payload. *)
PromotedWithAuthority ==
    \A p \in promoted :
        LET agreed == {s \in Signers : <<s, p.tx>> \in authorized}
        IN  AccumulatedWeight(p.known, agreed) >= Threshold
=============================================================================
