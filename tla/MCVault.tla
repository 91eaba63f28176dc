------------------------------ MODULE MCVault ------------------------------
(* Two payments and a conflict between them, an old and a new phone, the   *)
(* right key and a mistyped one.                                           *)
EXTENDS Vault

CONSTANTS old, new, right, typo, rent, tea

TwoDevices   == {old, new}
TwoKeys      == {right, typo}
TwoPayments  == {rent, tea}
OneConflict  == {<<rent, tea>>}
Symmetric    == Permutations(TwoKeys)
=============================================================================
