---------------------------- MODULE MCCloakSync ----------------------------
(* CloakSync on a small commit graph: every commit continues a, except a itself *)
(* and the Orphans, which start histories of their own.                         *)
EXTENDS CloakSync, TLC

CONSTANTS a, Orphans

MCReach == [x \in Commits |-> IF x \in Orphans THEN {x} ELSE {a, x}]

Symmetric == Permutations(Clients)
=============================================================================
