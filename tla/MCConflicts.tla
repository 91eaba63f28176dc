---------------------------- MODULE MCConflicts ----------------------------
(* Three envelopes race for one slot and a fourth has its own; two honest  *)
(* relays, a Byzantine one, two devices.                                   *)
EXTENDS Conflicts, TLC

CONSTANTS terminal, phone, honest1, honest2, liar

TwoDevices    == {terminal, phone}
FourEnvelopes == 1..4
Slots         == [e \in 1..4 |-> [account |-> "G", sequence |-> IF e = 4 THEN 2 ELSE 1]]
FirstTwo      == {1, 2}
TheTerminal   == {terminal}
ThreeRelays   == {honest1, honest2, liar}
OneLiar       == {liar}
\* 3 is carried by the liar alone
SignedProofs  == {<<honest1, 1>>, <<honest2, 1>>, <<honest1, 2>>, <<honest2, 2>>,
                  <<liar, 2>>, <<liar, 3>>}
BrokenProofs  == {<<honest1, 3, 3>>, <<honest2, 1, 3>>}
OldProofs     == {<<honest1, 3>>}
=============================================================================
