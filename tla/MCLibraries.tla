---------------------------- MODULE MCLibraries ----------------------------
(* The parts of the crate that an application uses on their own, one at a
   time: the part is chosen initially and the others stay as they are. *)
EXTENDS Signing, Multisig, PrivateExport, TransparencyLog, Committee,
        DispatchEvidence, NativeHandle, Spendable

CONSTANTS alice, bob, carol

(* Signer sets a sync may bring: alice leaves, or carol joins and alice counts
   double. *)
MCSnapshots ==
    {[s \in {alice, bob} |-> 1],
     [s \in {bob, carol} |-> 1],
     [s \in {alice, bob, carol} |-> IF s = alice THEN 2 ELSE 1]}

VARIABLE part

LibrariesInit ==
    /\ SigningInit /\ MultisigInit /\ ExportInit /\ LogInit
    /\ CommitteeInit /\ EvidenceInit /\ HandleInit /\ SpendableInit
    /\ part \in {"signing", "multisig", "export", "log",
                 "committee", "evidence", "handle", "spendable"}

LibrariesNext ==
    \/ /\ part = "signing" /\ SigningNext
       /\ UNCHANGED <<part, multisigVars, exportVars, logVars, committeeVars,
                      evidenceVars, handleVars, spendableVars>>
    \/ /\ part = "multisig" /\ MultisigNext
       /\ UNCHANGED <<part, signingVars, exportVars, logVars, committeeVars,
                      evidenceVars, handleVars, spendableVars>>
    \/ /\ part = "export" /\ ExportNext
       /\ UNCHANGED <<part, signingVars, multisigVars, logVars, committeeVars,
                      evidenceVars, handleVars, spendableVars>>
    \/ /\ part = "log" /\ LogNext
       /\ UNCHANGED <<part, signingVars, multisigVars, exportVars, committeeVars,
                      evidenceVars, handleVars, spendableVars>>
    \/ /\ part = "committee" /\ CommitteeNext
       /\ UNCHANGED <<part, signingVars, multisigVars, exportVars, logVars,
                      evidenceVars, handleVars, spendableVars>>
    \/ /\ part = "evidence" /\ EvidenceNext
       /\ UNCHANGED <<part, signingVars, multisigVars, exportVars, logVars,
                      committeeVars, handleVars, spendableVars>>
    \/ /\ part = "handle" /\ HandleNext
       /\ UNCHANGED <<part, signingVars, multisigVars, exportVars, logVars,
                      committeeVars, evidenceVars, spendableVars>>
    \/ /\ part = "spendable" /\ SpendableNext
       /\ UNCHANGED <<part, signingVars, multisigVars, exportVars, logVars,
                      committeeVars, evidenceVars, handleVars>>

LibrariesSpec ==
    LibrariesInit /\ [][LibrariesNext]_<<part, signingVars, multisigVars,
        exportVars, logVars, committeeVars, evidenceVars, handleVars, spendableVars>>
=============================================================================
