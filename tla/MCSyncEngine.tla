---------------------------- MODULE MCSyncEngine ----------------------------
(* SyncEngine with small sets of accounts and payments, for TLC.           *)
EXTENDS SyncEngine, TLC

CONSTANTS alice, bob, rent, food

TwoAccounts == {alice, bob}
OneAccount  == {alice}
TwoPayloads == {rent, food}
LowAndHigh  == {0, 1}
OneTier     == {0}

Symmetry == Permutations(TwoPayloads)
=============================================================================
