---------------------------- MODULE MCOutbound -----------------------------
(* Two Emergency payments and a normal one, two dispatcher tasks that      *)
(* share a window of one slot.                                             *)
EXTENDS Outbound, TLC

CONSTANTS left, right

Payments   == {"sos1", "sos2", "tea"}
Tiers      == [e \in Payments |-> IF e \in {"sos1", "sos2"} THEN Emergency ELSE Normal]
TwoTasks   == {left, right}
Symmetric  == Permutations(TwoTasks)
=============================================================================
