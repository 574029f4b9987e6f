----------------------------- MODULE Manifests -----------------------------
(***************************************************************************)
(* Packs, manifests and the pure decisions the engine takes about them:    *)
(* which ref updates a push may publish, which objects its pack carries,   *)
(* what the next manifest is, which packs a fetch must download.           *)
(*                                                                         *)
(* A manifest that the host stored is a "version", named by its place in   *)
(* the order in which versions were stored.  The name stands for the       *)
(* backend commit and for the hash of the manifest ciphertext, both unique *)
(* to one version because encryption is randomised.  A pack is a record;   *)
(* its id <<v, i>> stands for the SHA-256 of its ciphertext.               *)
(***************************************************************************)
EXTENDS Objects, Naturals

CONSTANT MaxSplit   \* the most packs one oversized push is split into

ASSUME MaxSplitAssumption == MaxSplit \in Nat \ {0}

PackIds == Nat \X Nat
Packs == [id : PackIds, objs : SUBSET Commits, replaces : SUBSET PackIds]
Manifests == [gen : Nat, repo : Nat, refs : RefMaps, packs : SUBSET Packs,
              chain : SUBSET Nat]

\* What a manifest was before the first push: manifest.New() without a repo id.
EmptyManifest == [gen |-> 0, repo |-> 0, refs |-> NoRefs, packs |-> {},
                  chain |-> {}]

Ids(packs) == {p.id : p \in packs}
PackObjs(packs) == UNION {p.objs : p \in packs}

-----------------------------------------------------------------------------
(* What a push publishes *)

Kinds == {"update", "force", "delete"}

\* One push batch: for each destination it names, what is asked of it.
Batches == UNION {[D -> Kinds] : D \in (SUBSET Refs) \ {{}}}

Deletes(batch) == {r \in DOMAIN batch : batch[r] = "delete"}
Updates(batch) == DOMAIN batch \ Deletes(batch)

\* The update needs no ancestry check: new ref, forced, or the tip is unchanged.
FastForwardExempt(kind, old, new) ==
    old = NoCommit \/ kind = "force" \/ old = new

\* Mutant of Accepted: without merge-base.
AcceptedUnchecked(batch, src, refs, have) ==
    {r \in Deletes(batch) : refs[r] # NoCommit}
        \cup {r \in Updates(batch) :
                FastForwardExempt(batch[r], refs[r], src[r]) \/ refs[r] \in have}

\* The destinations of the batch accepted against refs, when a client whose
\* object store is have resolves each source r to src[r].
Accepted(batch, src, refs, have) ==
    {r \in Deletes(batch) : refs[r] # NoCommit}
        \cup {r \in Updates(batch) :
                \/ FastForwardExempt(batch[r], refs[r], src[r])
                \/ refs[r] \in have /\ IsAncestor(refs[r], src[r])}

\* The ref map the batch turns refs into.
NewRefs(batch, src, refs, have) ==
    LET A == Accepted(batch, src, refs, have)
    IN  [r \in Refs |-> CASE r \in A \cap Deletes(batch) -> NoCommit
                          [] r \in A \cap Updates(batch) -> src[r]
                          [] OTHER -> refs[r]]

Wants(batch, src, refs, have) ==
    {src[r] : r \in Accepted(batch, src, refs, have) \cap Updates(batch)}

\* The objects the push must upload: reachable from what it publishes and not
\* from a remote tip the local repository holds.
PackRevs(wants, refs, have) == ReachAll(wants) \ ReachAll(Tips(refs) \cap have)

\* The packs built for version v to carry the objects X: none for no objects,
\* one pack, or several when one would exceed the host's size limit.  part says
\* which pack each object goes to.
SplitPacks(v, X, part) ==
    {[id |-> <<v, i>>, objs |-> {x \in X : part[x] = i}, replaces |-> {}] :
        i \in {part[x] : x \in X}}

BuildPacks(v, X) == {SplitPacks(v, X, part) : part \in [X -> 1..MaxSplit]}

\* Mutants of NextPushManifest: without Generation++, and without the packs that
\* base carries.
SameGeneration(base, v, refs, new) ==
    [gen |-> base.gen, repo |-> IF base.repo = 0 THEN v ELSE base.repo,
     refs |-> refs, packs |-> base.packs \cup new, chain |-> base.chain \cup {v}]
OnlyNewPacks(base, v, refs, new) ==
    [gen |-> base.gen + 1, repo |-> IF base.repo = 0 THEN v ELSE base.repo,
     refs |-> refs, packs |-> new, chain |-> base.chain \cup {v}]

\* The next manifest: one generation up, every pack of base kept.
NextPushManifest(base, v, refs, new) ==
    [gen |-> base.gen + 1, repo |-> IF base.repo = 0 THEN v ELSE base.repo,
     refs |-> refs, packs |-> base.packs \cup new, chain |-> base.chain \cup {v}]

\* The pack that replaces the victims.
MergedPack(v, victims) ==
    [id |-> <<v, 0>>, objs |-> PackObjs(victims), replaces |-> Ids(victims)]

\* The same version with the victims merged, on a chain of its own.
Consolidated(man, v, victims) ==
    [man EXCEPT !.packs = (@ \ victims) \cup {MergedPack(v, victims)},
                !.chain = {v}]

\* Mutant of CanMarkConsolidated: the merged pack always counts as applied.
CanAlwaysMark(victims, new, applied) == TRUE

\* The merged pack may be recorded as applied only if every victim is applied
\* or is the pack this push has just built.
CanMarkConsolidated(victims, new, applied) ==
    \E own \in Ids(victims \cap new) \cup {<<0, 0>>} :
        Ids(victims) \subseteq applied \cup {own}

\* Mutant of RepackManifest: the pack carries the tips without their history.
RepackTipsOnly(man, v) ==
    [man EXCEPT !.gen = @ + 1, !.chain = {v},
                !.packs = {[id |-> <<v, 0>>, objs |-> Tips(man.refs),
                            replaces |-> Ids(man.packs)]}]

\* A single pack of everything the refs of man reach, on a chain of its own.
RepackManifest(man, v) ==
    [man EXCEPT !.gen = @ + 1, !.chain = {v},
                !.packs = {[id |-> <<v, 0>>, objs |-> ReachAll(Tips(man.refs)),
                            replaces |-> Ids(man.packs)]}]

-----------------------------------------------------------------------------
(* What a fetch downloads *)

\* Mutant of ReplacesCovered: one applied predecessor is enough.
ReplacesTouched(p, applied) == p.replaces \cap applied # {}

\* Every pack that p replaces is applied, so p delivers nothing new.
ReplacesCovered(p, applied) == p.replaces # {} /\ p.replaces \subseteq applied

HasObjectClosure(man, have) == ReachAll(Tips(man.refs)) \subseteq have

\* The packs of man that a client must still download.
Missing(man, have, applied) ==
    IF HasObjectClosure(man, have) THEN {}
    ELSE {p \in man.packs : p.id \notin applied /\ ~ReplacesCovered(p, applied)}
=============================================================================
