------------------------------ MODULE Objects ------------------------------
(***************************************************************************)
(* The git objects the engine moves, as far as its correctness depends on  *)
(* them.  A commit stands for itself and the trees and blobs only it       *)
(* introduces, so "every object reachable from" is a set of commits.  git  *)
(* itself is external: the engine asks it through rev-list, pack-objects,  *)
(* merge-base and cat-file.                                                *)
(***************************************************************************)
CONSTANTS
    Commits,    \* the commits any client may ever create
    Refs,       \* ref names a manifest may carry
    Reach,      \* Reach[x]: the commits reachable from x, x included
    NoCommit    \* the value of a ref that does not exist

\* A commit graph is a partial order: each commit reaches itself, and what a
\* reachable commit reaches is reachable.
ASSUME ReachAssumption ==
    /\ Reach \in [Commits -> SUBSET Commits]
    /\ \A x \in Commits : x \in Reach[x]
    /\ \A x \in Commits : \A y \in Reach[x] : Reach[y] \subseteq Reach[x]

ASSUME NoCommitAssumption == NoCommit \notin Commits

RefMaps == [Refs -> Commits \cup {NoCommit}]

\* The ref map of a repository without refs.
NoRefs == [r \in Refs |-> NoCommit]

\* The commits a ref map names.
Tips(refs) == {refs[r] : r \in Refs} \ {NoCommit}

\* Everything reachable from a set of commits (rev-list --objects).
ReachAll(S) == UNION {Reach[x] : x \in S}

\* merge-base --is-ancestor old new
IsAncestor(old, new) == old \in Reach[new]
=============================================================================
