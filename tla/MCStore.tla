------------------------------ MODULE MCStore ------------------------------
(* Store with two conflicting envelopes, a third one, and two tasks.       *)
EXTENDS Store

CONSTANTS left, right, other, relay, wallet

TwoEnvelopes    == {left, right}
ThreeEnvelopes  == {left, right, other}
OneConflict     == {<<left, right>>}
SharedConflicts == {<<left, right>>, <<other, right>>}
NoConflict      == {}
TwoTasks        == {relay, wallet}
=============================================================================
