---------------------------- MODULE MCStateDirs ----------------------------
(* StateDirs with sessions as model values. *)
EXTENDS StateDirs, TLC

CONSTANTS n1, n2, a1, a2

Symmetric == Permutations(Named) \cup Permutations(Anonymous)
=============================================================================
