-------------------------- MODULE CloakSync_proofs --------------------------
(***************************************************************************)
(* Theorems about CloakSync, for every commit graph, set of refs and set   *)
(* of clients, every number of retries and every choice of Faults.         *)
(***************************************************************************)
EXTENDS CloakSync, TLAPS

-----------------------------------------------------------------------------
(* Reachability *)

\* What commits reach are commits, themselves included.
LEMMA ReachAllCommits ==
    ASSUME NEW S \in SUBSET Commits
    PROVE  ReachAll(S) \in SUBSET Commits /\ S \subseteq ReachAll(S)
  BY ReachAssumption DEF ReachAll

\* What two sets reach is what each reaches.
LEMMA ReachAllUnion ==
    ASSUME NEW S, NEW T
    PROVE  ReachAll(S \cup T) = ReachAll(S) \cup ReachAll(T)
  BY DEF ReachAll

\* More commits reach more.
LEMMA ReachAllMonotone ==
    ASSUME NEW S, NEW T, S \subseteq T
    PROVE  ReachAll(S) \subseteq ReachAll(T)
  BY DEF ReachAll

\* The tips of a ref map are commits.
LEMMA TipsCommits ==
    ASSUME NEW refs \in RefMaps
    PROVE  Tips(refs) \in SUBSET Commits
  BY DEF RefMaps, Tips

-----------------------------------------------------------------------------
(* Packs and manifests *)

\* Splitting objects over packs loses none and invents none.
LEMMA SplitPacksExact ==
    ASSUME NEW v \in Nat, NEW X \in SUBSET Commits, NEW new \in BuildPacks(v, X)
    PROVE  new \in SUBSET Packs /\ PackObjs(new) = X
  <1>1. PICK part \in [X -> 1..MaxSplit] : new = SplitPacks(v, X, part)
    BY DEF BuildPacks
  <1>2. \A x \in X : part[x] \in Nat
    BY <1>1, MaxSplitAssumption
  <1>3. new \in SUBSET Packs
    BY <1>1, <1>2 DEF SplitPacks, Packs, PackIds
  <1>4. ASSUME NEW x \in X PROVE x \in PackObjs(new)
    <2>1. [id |-> <<v, part[x]>>, objs |-> {y \in X : part[y] = part[x]},
           replaces |-> {}] \in new
      BY <1>1, <1>4 DEF SplitPacks
    <2>2. QED BY <2>1, <1>4 DEF PackObjs
  <1>5. ASSUME NEW x \in PackObjs(new) PROVE x \in X
    BY <1>1, <1>5 DEF PackObjs, SplitPacks
  <1>6. QED BY <1>3, <1>4, <1>5

\* The objects of two sets of packs are those of each.
LEMMA PackObjsUnion ==
    ASSUME NEW P, NEW Q
    PROVE  PackObjs(P \cup Q) = PackObjs(P) \cup PackObjs(Q)
  BY DEF PackObjs

\* Packs carry commits, under pack ids.
LEMMA PackObjsCommits ==
    ASSUME NEW P \in SUBSET Packs
    PROVE  PackObjs(P) \in SUBSET Commits /\ Ids(P) \in SUBSET PackIds
  BY DEF PackObjs, Packs, Ids

\* What a push on an empty remote builds on is a manifest.
LEMMA EmptyManifestType == EmptyManifest \in Manifests
  BY DEF EmptyManifest, Manifests, NoRefs, RefMaps

\* The packs of a manifest contain the history of its refs.
Whole(man) == ReachAll(Tips(man.refs)) \subseteq PackObjs(man.packs)

\* Merging live packs changes neither the refs nor the objects a manifest stands
\* for (consolidatedPacks).
LEMMA ConsolidatedExact ==
    ASSUME NEW man \in Manifests, NEW v \in Nat, NEW victims \in SUBSET man.packs,
           NEW new, new = Consolidated(man, v, victims)
    PROVE  /\ new \in Manifests
           /\ new.gen = man.gen /\ new.repo = man.repo /\ new.refs = man.refs
           /\ PackObjs(new.packs) = PackObjs(man.packs)
  <1> DEFINE merged == MergedPack(v, victims)
  <1>1. man.packs \in SUBSET Packs
    BY DEF Manifests
  <1>2. merged \in Packs
    BY <1>1, PackObjsCommits DEF MergedPack, Packs, PackIds
  <1>3. /\ new \in Manifests
        /\ new.gen = man.gen /\ new.repo = man.repo /\ new.refs = man.refs
        /\ new.packs = (man.packs \ victims) \cup {merged}
    BY <1>1, <1>2 DEF Consolidated, Manifests
  <1>4. PackObjs({merged}) = PackObjs(victims)
    BY DEF PackObjs, MergedPack
  <1>5. PackObjs(new.packs) = PackObjs(man.packs \ victims) \cup PackObjs(victims)
    BY <1>3, <1>4, PackObjsUnion
  <1>6. (man.packs \ victims) \cup victims = man.packs
    OBVIOUS
  <1>7. PackObjs(new.packs) = PackObjs(man.packs)
    BY <1>5, <1>6, PackObjsUnion
  <1>8. QED BY <1>3, <1>7

\* A repacked manifest is whole whatever the old packs contained (repackPack).
LEMMA RepackWhole ==
    ASSUME NEW man \in Manifests, NEW v \in Nat,
           NEW new, new = RepackManifest(man, v)
    PROVE  /\ new \in Manifests
           /\ new.gen = man.gen + 1 /\ new.repo = man.repo
           /\ Whole(new)
  <1> DEFINE pack == [id |-> <<v, 0>>, objs |-> ReachAll(Tips(man.refs)),
                      replaces |-> Ids(man.packs)]
  <1>1. ReachAll(Tips(man.refs)) \in SUBSET Commits
    BY TipsCommits, ReachAllCommits DEF Manifests
  <1>2. pack \in Packs
    BY <1>1, PackObjsCommits DEF Manifests, Packs, PackIds
  <1>3. /\ new \in Manifests
        /\ new.gen = man.gen + 1 /\ new.repo = man.repo /\ new.refs = man.refs
        /\ new.packs = {pack}
    <2>1. new = [man EXCEPT !.gen = @ + 1, !.chain = {v}, !.packs = {pack}]
      BY DEF RepackManifest
    <2> HIDE DEF pack
    <2>2. {pack} \in SUBSET Packs /\ {v} \in SUBSET Nat /\ man.gen + 1 \in Nat
      BY <1>2 DEF Manifests
    <2>3. /\ new.gen = man.gen + 1 /\ new.repo = man.repo /\ new.refs = man.refs
          /\ new.packs = {pack}
      BY <2>1 DEF Manifests
    <2>4. new \in Manifests
      <3> DEFINE gen == man.gen + 1  packs == {pack}  chain == {v}
      <3>1. new = [man EXCEPT !.gen = gen, !.chain = chain, !.packs = packs]
        BY <2>1
      <3>2. gen \in Nat /\ packs \in SUBSET Packs /\ chain \in SUBSET Nat
        BY <2>2
      <3> HIDE DEF gen, packs, chain
      <3>3. QED BY <3>1, <3>2 DEF Manifests
    <2>5. QED BY <2>3, <2>4
  <1>4. PackObjs({pack}) = ReachAll(Tips(man.refs))
    BY DEF PackObjs
  <1>5. QED BY <1>3, <1>4 DEF Whole

-----------------------------------------------------------------------------
(* What a push publishes *)

\* Every source of the batch resolves to a commit.
Resolved(batch, src) == \A r \in Updates(batch) : src[r] \in Commits

\* The refs a push publishes are old refs and resolved sources.
LEMMA NewRefsTips ==
    ASSUME NEW batch, NEW refs \in RefMaps, NEW have,
           NEW src, Resolved(batch, src)
    PROVE  /\ NewRefs(batch, src, refs, have) \in RefMaps
           /\ Wants(batch, src, refs, have) \in SUBSET Commits
           /\ Tips(NewRefs(batch, src, refs, have)) \subseteq
                 Tips(refs) \cup Wants(batch, src, refs, have)
  <1> DEFINE A == Accepted(batch, src, refs, have)
             new == NewRefs(batch, src, refs, have)
             wants == Wants(batch, src, refs, have)
  <1>1. \A r \in A \cap Updates(batch) : src[r] \in Commits
    BY DEF Resolved
  <1>2. wants \in SUBSET Commits
    BY <1>1 DEF Wants
  <1>3. ASSUME NEW r \in Refs
        PROVE  /\ new[r] \in Commits \cup {NoCommit}
               /\ new[r] \in {NoCommit, refs[r]} \cup wants
    <2>1. CASE r \in A \cap Deletes(batch)
      <3>1. r \notin Updates(batch)
        BY <2>1 DEF Updates
      <3>2. new[r] = NoCommit
        BY <2>1, <3>1 DEF NewRefs
      <3>3. QED BY <3>2
    <2>2. CASE r \in A \cap Updates(batch)
      <3>1. r \notin Deletes(batch)
        BY <2>2 DEF Updates
      <3>2. new[r] = src[r]
        BY <2>2, <3>1 DEF NewRefs
      <3>3. QED BY <3>2, <2>2, <1>1 DEF Wants
    <2>3. CASE r \notin A \cap Deletes(batch) /\ r \notin A \cap Updates(batch)
      <3>1. new[r] = refs[r]
        BY <2>3 DEF NewRefs
      <3>2. QED BY <3>1 DEF RefMaps
    <2>4. QED BY <2>1, <2>2, <2>3
  <1>4. new \in RefMaps
    BY <1>3 DEF NewRefs, RefMaps
  <1>5. Tips(new) \subseteq Tips(refs) \cup wants
    BY <1>3 DEF Tips
  <1>6. QED BY <1>2, <1>4, <1>5

\* The next manifest is one, with every pack of the last (nextPushManifest).
LEMMA NextPushType ==
    ASSUME NEW b \in Manifests, NEW n \in Nat, NEW after \in RefMaps,
           NEW added \in SUBSET Packs, NEW m, m = NextPushManifest(b, n, after, added)
    PROVE  /\ m \in Manifests
           /\ m.gen = b.gen + 1
           /\ m.repo = IF b.repo = 0 THEN n ELSE b.repo
           /\ m.refs = after /\ m.packs = b.packs \cup added
  <1>1. /\ m.gen = b.gen + 1
        /\ m.repo = IF b.repo = 0 THEN n ELSE b.repo
        /\ m.refs = after /\ m.packs = b.packs \cup added
    BY DEF NextPushManifest
  <1>2. m \in Manifests
    BY DEF NextPushManifest, Manifests
  <1>3. QED BY <1>1, <1>2

\* A push that keeps every pack of a whole manifest and uploads PackRevs makes a
\* whole manifest, whichever of the remote tips it found in its own store
\* (buildPackRevs, nextPushManifest).
LEMMA PushWhole ==
    ASSUME NEW before, NEW after, NEW wants, NEW have, NEW old, NEW new,
           Tips(after) \subseteq Tips(before) \cup wants,
           PackObjs(new) = PackRevs(wants, before, have),
           ReachAll(Tips(before)) \subseteq PackObjs(old)
    PROVE  ReachAll(Tips(after)) \subseteq PackObjs(old \cup new)
  <1>1. ReachAll(Tips(after)) \subseteq ReachAll(Tips(before) \cup wants)
    BY ReachAllMonotone
  <1>2. ReachAll(Tips(before) \cup wants) = ReachAll(Tips(before)) \cup ReachAll(wants)
    BY ReachAllUnion
  <1>3. ReachAll(wants) \subseteq PackObjs(new) \cup ReachAll(Tips(before))
    BY ReachAllMonotone DEF PackRevs
  <1>4. PackObjs(old \cup new) = PackObjs(old) \cup PackObjs(new)
    BY PackObjsUnion
  <1>5. QED BY <1>1, <1>2, <1>3, <1>4

-----------------------------------------------------------------------------
(* Versions and offers *)

\* What a session can have loaded is a manifest.
LEMMA ManifestType ==
    ASSUME TypeOK, NEW v \in 0..Len(versions)
    PROVE  Manifest(v) \in Manifests
  BY EmptyManifestType DEF TypeOK, Manifest

\* Storing a version leaves the older ones as they are.
LEMMA StoreVersion ==
    ASSUME TypeOK, NEW man \in Manifests, HostTakes(man)
    PROVE  /\ versions' \in Seq(Manifests)
           /\ Len(versions') = NewVersion /\ NewVersion \in Nat \ {0}
           /\ tip' = NewVersion /\ versions'[NewVersion] = man
           /\ \A v \in 1..Len(versions) : versions'[v] = versions[v]
  BY DEF TypeOK, HostTakes, NewVersion

\* Every offer is a manifest one generation up, of the loaded repository or, on
\* an empty remote, of one the offer creates, and it is whole if the loaded
\* version is.
LEMMA OfferSound ==
    ASSUME TypeOK, NEW c \in Clients, NEW offer \in Offers(c)
    PROVE  /\ offer.man \in Manifests
           /\ offer.mark \in SUBSET PackIds
           /\ offer.man.gen = Loaded(c).gen + 1
           /\ offer.man.repo = IF Loaded(c).repo = 0 /\ sess[c].op # "repack"
                               THEN NewVersion ELSE Loaded(c).repo
           /\ Whole(Loaded(c)) => Whole(offer.man)
  <1>1. NewVersion \in Nat /\ Loaded(c) \in Manifests
    BY ManifestType DEF TypeOK, NewVersion, Loaded
  <1>2. CASE sess[c].op = "repack"
    <2>1. offer = RepackOffer(c)
      BY <1>2 DEF Offers
    <2>2. /\ offer.man = RepackManifest(Loaded(c), NewVersion)
          /\ offer.mark = {<<NewVersion, 0>>}
      BY <2>1 DEF RepackOffer
    <2>3. /\ offer.man \in Manifests
          /\ offer.man.gen = Loaded(c).gen + 1 /\ offer.man.repo = Loaded(c).repo
          /\ Whole(offer.man)
      BY <1>1, <2>2, RepackWhole
    <2>4. offer.mark \in SUBSET PackIds
      BY <1>1, <2>2 DEF PackIds
    <2>5. QED BY <1>2, <2>3, <2>4
  <1>3. CASE sess[c].op # "repack"
    <2>1. PICK src \in Sources(c) : offer \in PushOffers(c, src)
      BY <1>3 DEF Offers
    <2>2. Resolved(sess[c].batch, src)
      BY DEF Sources, Complete, TypeOK, Resolved
    <2> DEFINE base == Loaded(c)
               X == PackRevs(Wants(sess[c].batch, src, base.refs, objs[c]),
                             base.refs, objs[c])
               Victims(new) == {V \in SUBSET (base.packs \cup new) :
                                  \E p, q \in V : p # q}
    <2>3. PICK new \in BuildPacks(NewVersion, X) :
             \/ offer = PlainOffer(c, src, new)
             \/ \E victims \in Victims(new) :
                   offer = SquashOffer(c, PlainOffer(c, src, new), new, victims)
      BY <2>1 DEF PushOffers
    <2> DEFINE plain == PlainOffer(c, src, new)
    <2>4. /\ plain.man \in Manifests
          /\ new \in SUBSET Packs
          /\ plain.mark = Ids(new)
          /\ plain.man.gen = base.gen + 1
          /\ plain.man.repo = IF base.repo = 0 THEN NewVersion ELSE base.repo
          /\ plain.man.packs = base.packs \cup new
          /\ Whole(base) => Whole(plain.man)
      <3> DEFINE after == NewRefs(sess[c].batch, src, base.refs, objs[c])
                 sent == Wants(sess[c].batch, src, base.refs, objs[c])
      <3>1. plain.mark = Ids(new) /\ plain.man = NextPushManifest(base, NewVersion, after, new)
        BY DEF PlainOffer
      <3>2. /\ after \in RefMaps /\ sent \in SUBSET Commits
            /\ Tips(after) \subseteq Tips(base.refs) \cup sent
        BY <1>1, <2>2, NewRefsTips DEF Manifests
      <3>3. new \in SUBSET Packs /\ PackObjs(new) = PackRevs(sent, base.refs, objs[c])
        <4>1. X \in SUBSET Commits
          BY <3>2, ReachAllCommits DEF PackRevs
        <4>2. QED BY <1>1, <2>3, <4>1, SplitPacksExact
      <3> DEFINE m == plain.man  b == base  n == NewVersion
      <3>4. /\ b \in Manifests /\ n \in Nat /\ m = NextPushManifest(b, n, after, new)
            /\ Tips(after) \subseteq Tips(b.refs) \cup sent
            /\ PackObjs(new) = PackRevs(sent, b.refs, objs[c])
        BY <1>1, <3>1, <3>2, <3>3
      <3> HIDE DEF m, b, n, after, sent
      <3>5. /\ m \in Manifests
            /\ m.gen = b.gen + 1
            /\ m.repo = IF b.repo = 0 THEN n ELSE b.repo
            /\ m.refs = after /\ m.packs = b.packs \cup new
        BY <3>2, <3>3, <3>4, NextPushType
      <3>6. ASSUME ReachAll(Tips(b.refs)) \subseteq PackObjs(b.packs)
            PROVE  ReachAll(Tips(after)) \subseteq PackObjs(b.packs \cup new)
        BY <3>4, <3>6, PushWhole
      <3>7. Whole(b) => Whole(m)
        BY <3>5, <3>6 DEF Whole
      <3>8. QED BY <3>1, <3>3, <3>5, <3>7 DEF m, b, n
    <2>5. CASE offer = plain
      BY <1>3, <2>4, <2>5, PackObjsCommits
    <2>6. ASSUME NEW victims \in Victims(new),
                 offer = SquashOffer(c, plain, new, victims)
          PROVE  /\ offer.man \in Manifests
                 /\ offer.mark \in SUBSET PackIds
                 /\ offer.man.gen = base.gen + 1
                 /\ offer.man.repo = IF base.repo = 0 THEN NewVersion ELSE base.repo
                 /\ Whole(base) => Whole(offer.man)
      <3>1. /\ offer.man = Consolidated(plain.man, NewVersion, victims)
            /\ offer.mark = Ids(new \ victims) \cup
                  IF CanMarkConsolidated(victims, new, applied[c])
                  THEN {<<NewVersion, 0>>} ELSE {}
        BY <2>6 DEF SquashOffer
      <3>2. victims \in SUBSET plain.man.packs
        BY <2>4
      <3>3. /\ offer.man \in Manifests
            /\ offer.man.gen = plain.man.gen /\ offer.man.repo = plain.man.repo
            /\ offer.man.refs = plain.man.refs
            /\ PackObjs(offer.man.packs) = PackObjs(plain.man.packs)
        <4> DEFINE m == plain.man  o == offer.man  v == NewVersion
        <4>1. m \in Manifests /\ v \in Nat /\ victims \in SUBSET m.packs
          BY <1>1, <2>4, <3>2
        <4>2. o = Consolidated(m, v, victims)
          BY <3>1
        <4> HIDE DEF m, o, v
        <4>3. /\ o \in Manifests
              /\ o.gen = m.gen /\ o.repo = m.repo /\ o.refs = m.refs
              /\ PackObjs(o.packs) = PackObjs(m.packs)
          BY <4>1, <4>2, ConsolidatedExact
        <4>4. QED BY <4>3 DEF m, o
      <3>4. offer.mark \in SUBSET PackIds
        <4>1. Ids(new \ victims) \in SUBSET PackIds
          BY <2>4, PackObjsCommits
        <4>2. <<NewVersion, 0>> \in PackIds
          BY <1>1 DEF PackIds
        <4>3. QED BY <3>1, <4>1, <4>2
      <3>5. QED BY <2>4, <3>3, <3>4 DEF Whole
    <2>7. QED BY <1>3, <2>3, <2>5, <2>6
  <1>4. QED BY <1>2, <1>3

-----------------------------------------------------------------------------
(* Type correctness *)

\* The part of TypeOK about sessions.
SessTyped ==
    /\ sess \in [Clients -> Sessions]
    /\ \A c \in Clients : {sess[c].cur, sess[c].saved.pin} \subseteq 0..Len(versions)

\* The session between two sessions is typed and names no version.
LEMMA IdleTyped ==
    ASSUME NEW r \in Alarms \cup {"none"}
    PROVE  /\ Idle(r) \in Sessions
           /\ Idle(r).cur = 0 /\ Idle(r).saved = NoPins
           /\ NoPins.pin = 0 /\ NoPins.repo = 0
  BY DEF Idle, Sessions, Ops, Steps, NoPins

\* A session may be replaced by any that names stored versions.
LEMMA PutTyped ==
    ASSUME TypeOK, NEW c \in Clients, NEW s \in Sessions,
           Len(versions') \in Nat, Len(versions) <= Len(versions'),
           {s.cur, s.saved.pin} \subseteq 0..Len(versions'),
           sess' = [sess EXCEPT ![c] = s]
    PROVE  SessTyped'
  <1>1. sess' \in [Clients -> Sessions]
    BY DEF TypeOK
  <1>2. ASSUME NEW d \in Clients
        PROVE  {sess'[d].cur, sess'[d].saved.pin} \subseteq 0..Len(versions')
    <2>1. CASE d = c
      BY <2>1 DEF TypeOK
    <2>2. CASE d # c
      <3>1. sess'[d] = sess[d]
        BY <2>2 DEF TypeOK
      <3>2. {sess[d].cur, sess[d].saved.pin} \subseteq 0..Len(versions)
        BY DEF TypeOK
      <3>3. Len(versions) \in Nat
        BY DEF TypeOK
      <3>4. QED BY <3>1, <3>2, <3>3
    <2>3. QED BY <2>1, <2>2
  <1>3. QED BY <1>1, <1>2 DEF SessTyped

\* Ending a session, with or without an alarm.
LEMMA EndTyped ==
    ASSUME TypeOK, NEW c \in Clients, NEW r \in Alarms \cup {"none"}, End(c, r),
           UNCHANGED versions
    PROVE  SessTyped'
  <1> DEFINE s == Idle(r)
  <1>1. s \in Sessions /\ {s.cur, s.saved.pin} \subseteq 0..Len(versions)
    BY IdleTyped DEF TypeOK
  <1>2. sess' = [sess EXCEPT ![c] = s]
    BY DEF End
  <1> HIDE DEF s
  <1>3. Len(versions) \in Nat
    BY DEF TypeOK
  <1>4. /\ Len(versions') \in Nat /\ Len(versions) <= Len(versions')
        /\ {s.cur, s.saved.pin} \subseteq 0..Len(versions')
    BY <1>1, <1>3
  <1>5. QED BY <1>1, <1>2, <1>4, PutTyped

\* Moving a session to its next step.
LEMMA GotoTyped ==
    ASSUME TypeOK, NEW c \in Clients, NEW p \in Steps, Goto(c, p),
           UNCHANGED versions
    PROVE  SessTyped'
  <1> DEFINE s == [sess[c] EXCEPT !.pc = p]
  <1>1. s \in Sessions /\ s.cur = sess[c].cur /\ s.saved = sess[c].saved
    BY DEF TypeOK, Sessions
  <1>2. sess' = [sess EXCEPT ![c] = s]
    BY DEF Goto
  <1> HIDE DEF s
  <1>3. Len(versions) \in Nat /\ {sess[c].cur, sess[c].saved.pin} \subseteq 0..Len(versions)
    BY DEF TypeOK
  <1>4. /\ Len(versions') \in Nat /\ Len(versions) <= Len(versions')
        /\ {s.cur, s.saved.pin} \subseteq 0..Len(versions')
    BY <1>1, <1>3
  <1>5. QED BY <1>1, <1>2, <1>4, PutTyped

\* Ending a request.
LEMMA ResolveTyped ==
    ASSUME TypeOK, NEW c \in Clients, Resolve(c), UNCHANGED versions
    PROVE  SessTyped'
  <1>1. CASE sess[c].op # "helper"
    BY <1>1, EndTyped DEF Resolve
  <1>2. CASE sess[c].op = "helper"
    <2> DEFINE s == [Idle("none") EXCEPT !.pc = "ready", !.cur = sess[c].cur]
    <2>1. s \in Sessions /\ s.cur = sess[c].cur /\ s.saved = NoPins
      BY IdleTyped DEF TypeOK, Sessions, Steps, Idle
    <2>2. sess' = [sess EXCEPT ![c] = s]
      BY <1>2 DEF Resolve
    <2> HIDE DEF s
    <2>3. /\ Len(versions) \in Nat /\ NoPins.pin = 0
          /\ {sess[c].cur, sess[c].saved.pin} \subseteq 0..Len(versions)
      BY DEF TypeOK, NoPins
    <2>4. /\ Len(versions') \in Nat /\ Len(versions) <= Len(versions')
          /\ {s.cur, s.saved.pin} \subseteq 0..Len(versions')
      BY <2>1, <2>3
    <2>5. QED BY <2>1, <2>2, <2>4, PutTyped
  <1>3. QED BY <1>1, <1>2

\* Validation ends in "ok" or in one of two alarms.
LEMMA LoadResult ==
    ASSUME NEW c \in Clients
    PROVE  LoadRemoteState(c) \in {"ok", "rollback", "tamper"}
  BY DEF LoadRemoteState, CheckPin, CheckRepoID

\* Opening a session.
LEMMA OpenTyped ==
    ASSUME TypeOK, NEW c \in Clients, NEW command \in Ops, Open(c, command)
    PROVE  SessTyped'
  <1>0. UNCHANGED versions
    BY DEF Open, host
  <1>1. CASE LoadRemoteState(c) # "ok"
    <2>1. End(c, LoadRemoteState(c))
      BY <1>1 DEF Open
    <2>2. LoadRemoteState(c) \in Alarms \cup {"none"}
      BY <1>1, LoadResult DEF Alarms
    <2>3. QED BY <1>0, <2>1, <2>2, EndTyped
  <1>2. CASE LoadRemoteState(c) = "ok"
    <2> DEFINE s == [Idle("none") EXCEPT !.op = command, !.pc = "ready", !.cur = tip]
    <2>0. tip \in Nat
      BY DEF TypeOK
    <2>1. s \in Sessions /\ s.cur = tip /\ s.saved = NoPins
      BY <2>0, IdleTyped DEF Sessions, Steps, Idle
    <2>2. sess' = [sess EXCEPT ![c] = s]
      BY <1>2 DEF Open
    <2> HIDE DEF s
    <2>3. Len(versions) \in Nat /\ tip \in 0..Len(versions) /\ NoPins.pin = 0
      BY DEF TypeOK, NoPins
    <2>4. /\ Len(versions') \in Nat /\ Len(versions) <= Len(versions')
          /\ {s.cur, s.saved.pin} \subseteq 0..Len(versions')
      BY <1>0, <2>1, <2>3
    <2>5. QED BY <2>1, <2>2, <2>4, PutTyped
  <1>3. QED BY <1>1, <1>2

\* The packs a fetch downloads are packs of its manifest.
LEMMA MissingTyped ==
    ASSUME NEW m \in Manifests, NEW have, NEW ids
    PROVE  Missing(m, have, ids) \in SUBSET Packs /\ m.packs \in SUBSET Packs
  BY DEF Missing, Manifests

\* Every step of a session and of the host keeps the types.
LEMMA StepTyped ==
    ASSUME TypeOK, Next
    PROVE  TypeOK'
  <1>1. ASSUME NEW c \in Clients, LocalCommit(c) PROVE TypeOK'
    BY <1>1 DEF LocalCommit, TypeOK, host
  <1>2. ASSUME NEW c \in Clients, OpenHelper(c) PROVE TypeOK'
    <2>1. SessTyped'
      BY <1>2, OpenTyped DEF OpenHelper, Ops
    <2>2. QED BY <1>2, <2>1 DEF OpenHelper, Open, TypeOK, SessTyped, host, disk
  <1>3. ASSUME NEW c \in Clients, CloseHelper(c) PROVE TypeOK'
    <2>1. SessTyped'
      BY <1>3, EndTyped DEF CloseHelper, host
    <2>2. QED BY <1>3, <2>1 DEF CloseHelper, TypeOK, SessTyped, host, disk
  <1>4. ASSUME NEW c \in Clients, Crash(c) PROVE TypeOK'
    <2>1. SessTyped'
      BY <1>4, EndTyped DEF Crash, host
    <2>2. QED BY <1>4, <2>1 DEF Crash, TypeOK, SessTyped, host, disk
  <1>5. ASSUME NEW c \in Clients, FetchApply(c) PROVE TypeOK'
    <2>1. SessTyped'
      BY <1>5, GotoTyped DEF FetchApply, host, Steps
    <2> DEFINE m == Loaded(c)  miss == Missing(m, objs[c], applied[c])
    <2>2. m \in Manifests
      BY ManifestType DEF Loaded, TypeOK
    <2> HIDE DEF m
    <2>3. PackObjs(miss) \in SUBSET Commits /\ Ids(m.packs) \in SUBSET PackIds
      BY <2>2, MissingTyped, PackObjsCommits
    <2>4. /\ objs' = [objs EXCEPT ![c] = @ \cup PackObjs(miss)]
          /\ applied' = [applied EXCEPT ![c] = @ \cup Ids(m.packs)]
          /\ UNCHANGED <<host, pin, repoPin, requests>>
      BY <1>5 DEF FetchApply, m
    <2> HIDE DEF miss
    <2>5. QED BY <2>1, <2>3, <2>4 DEF TypeOK, SessTyped, host
  <1>6. ASSUME NEW c \in Clients, FetchApplyCut(c) PROVE TypeOK'
    <2>1. SessTyped'
      BY <1>6, EndTyped DEF FetchApplyCut, host
    <2> DEFINE m == Loaded(c)
    <2>2. m \in Manifests
      BY ManifestType DEF Loaded, TypeOK
    <2>3. PICK got \in SUBSET Missing(m, objs[c], applied[c]) :
             objs' = [objs EXCEPT ![c] = @ \cup PackObjs(got)]
      BY <1>6 DEF FetchApplyCut
    <2> HIDE DEF m
    <2>4. PackObjs(got) \in SUBSET Commits
      <3>1. got \in SUBSET Packs
        BY <2>2, <2>3, MissingTyped
      <3>2. QED BY <3>1, PackObjsCommits
    <2>5. UNCHANGED <<host, applied, pin, repoPin, requests>>
      BY <1>6 DEF FetchApplyCut
    <2>6. QED BY <2>1, <2>3, <2>4, <2>5 DEF TypeOK, SessTyped, host
  <1>7. ASSUME NEW c \in Clients, FetchVerify(c) PROVE TypeOK'
    <2>1. SessTyped'
      BY <1>7, GotoTyped, EndTyped DEF FetchVerify, host, Steps, Alarms
    <2>2. QED BY <1>7, <2>1 DEF FetchVerify, TypeOK, SessTyped, host, disk
  <1>8. ASSUME NEW c \in Clients, SaveGeneration(c) PROVE TypeOK'
    <2>1. SessTyped'
      BY <1>8, GotoTyped DEF SaveGeneration, host, Steps
    <2>2. sess[c].cur \in 0..Len(versions)
      BY DEF TypeOK
    <2>3. QED BY <1>8, <2>1, <2>2 DEF SaveGeneration, TypeOK, SessTyped, host
  <1>9. ASSUME NEW c \in Clients, SaveRepoID(c) PROVE TypeOK'
    <2>1. SessTyped'
      BY <1>9, GotoTyped, ResolveTyped DEF SaveRepoID, host, Steps
    <2>2. Loaded(c) \in Manifests
      BY ManifestType DEF Loaded, TypeOK
    <2>3. Loaded(c).repo \in Nat
      BY <2>2 DEF Manifests
    <2>4. QED BY <1>9, <2>1, <2>3 DEF SaveRepoID, TypeOK, SessTyped, host
  <1>10. ASSUME NEW c \in Clients, MarkApplied(c) PROVE TypeOK'
    <2>1. SessTyped'
      BY <1>10, ResolveTyped DEF MarkApplied, host
    <2>2. sess[c].mark \in SUBSET PackIds
      BY DEF TypeOK, Sessions
    <2>3. QED BY <1>10, <2>1, <2>2 DEF MarkApplied, TypeOK, SessTyped, host
  <1>11. ASSUME NEW c \in Clients, BeginPush(c) PROVE TypeOK'
    <2>1. PICK batch \in Batches :
             sess' = [sess EXCEPT ![c] = [@ EXCEPT !.pc = "push", !.batch = batch]]
      BY <1>11 DEF BeginPush
    <2>2. UNCHANGED <<host, disk>> /\ requests' = requests + 1
      BY <1>11 DEF BeginPush, Request
    <2> DEFINE s == [sess[c] EXCEPT !.pc = "push", !.batch = batch]
    <2>3. s \in Sessions /\ s.cur = sess[c].cur /\ s.saved = sess[c].saved
      <3> HIDE DEF Batches
      <3>1. QED BY <2>1 DEF TypeOK, Sessions, Steps
    <2>4. sess' = [sess EXCEPT ![c] = s]
      BY <2>1
    <2> HIDE DEF s
    <2>5. /\ Len(versions') \in Nat /\ Len(versions) <= Len(versions')
          /\ {s.cur, s.saved.pin} \subseteq 0..Len(versions')
      BY <2>2, <2>3 DEF TypeOK, host
    <2>6. SessTyped'
      BY <2>3, <2>4, <2>5, PutTyped
    <2>7. QED BY <2>2, <2>6 DEF TypeOK, SessTyped, host, disk
  <1>12. ASSUME NEW c \in Clients, PushReject(c) PROVE TypeOK'
    <2>1. SessTyped'
      BY <1>12, ResolveTyped DEF PushReject, host
    <2>2. QED BY <1>12, <2>1 DEF PushReject, TypeOK, SessTyped, host, disk
  <1>13. ASSUME NEW c \in Clients, PushOK(c) PROVE TypeOK'
    <2>1. PICK offer \in Offers(c) :
             /\ HostTakes(offer.man)
             /\ sess' = [sess EXCEPT ![c] = [@ EXCEPT !.pc = "pinGen",
                                !.cur = NewVersion, !.mark = offer.mark]]
      BY <1>13 DEF PushOK
    <2>2. offer.man \in Manifests /\ offer.mark \in SUBSET PackIds
      BY <2>1, OfferSound
    <2> DEFINE mark == offer.mark  n == NewVersion
               s == [sess[c] EXCEPT !.pc = "pinGen", !.cur = n, !.mark = mark]
    <2>3. sess' = [sess EXCEPT ![c] = s]
      BY <2>1
    <2>4. /\ versions' \in Seq(Manifests) /\ Len(versions') = n /\ tip' = n
          /\ n = Len(versions) + 1 /\ n \in Nat /\ Len(versions) \in Nat
      BY <2>1, <2>2, StoreVersion DEF NewVersion, TypeOK
    <2> HIDE DEF mark, n
    <2>5. s \in Sessions /\ s.cur = n /\ s.saved = sess[c].saved
      BY <2>2, <2>4 DEF TypeOK, Sessions, Steps, mark
    <2>6. s.saved.pin \in 0..Len(versions)
      BY <2>5 DEF TypeOK
    <2> HIDE DEF s
    <2>7. /\ Len(versions') \in Nat /\ Len(versions) <= Len(versions')
          /\ {s.cur, s.saved.pin} \subseteq 0..Len(versions')
      BY <2>4, <2>5, <2>6
    <2>8. SessTyped'
      BY <2>3, <2>5, <2>7, PutTyped
    <2>9. UNCHANGED <<disk, requests>>
      BY <1>13 DEF PushOK
    <2>10. QED BY <2>4, <2>8, <2>9 DEF TypeOK, SessTyped, disk
  <1>14. ASSUME NEW c \in Clients, PushCASLost(c) PROVE TypeOK'
    <2>1. SessTyped'
      BY <1>14, GotoTyped DEF PushCASLost, host, Steps
    <2>2. QED BY <1>14, <2>1 DEF PushCASLost, TypeOK, SessTyped, host, disk
  <1>15. ASSUME NEW c \in Clients, PushAnswerLost(c) PROVE TypeOK'
    <2>1. PICK offer \in Offers(c) : HostTakes(offer.man)
      BY <1>15 DEF PushAnswerLost
    <2>2. offer.man \in Manifests
      BY <2>1, OfferSound
    <2> DEFINE n == NewVersion
    <2>3. /\ versions' \in Seq(Manifests) /\ Len(versions') = n /\ tip' = n
          /\ n = Len(versions) + 1 /\ n \in Nat /\ Len(versions) \in Nat
      BY <2>1, <2>2, StoreVersion DEF NewVersion, TypeOK
    <2> HIDE DEF n
    <2>4. PICK s \in Sessions :
             /\ sess' = [sess EXCEPT ![c] = s]
             /\ {s.cur, s.saved.pin} \subseteq 0..Len(versions)
      <3>1. CASE Goto(c, "lost")
        <4> DEFINE t == [sess[c] EXCEPT !.pc = "lost"]
        <4>1. t \in Sessions /\ t.cur = sess[c].cur /\ t.saved = sess[c].saved
          BY DEF TypeOK, Sessions, Steps
        <4>2. sess' = [sess EXCEPT ![c] = t]
          BY <3>1 DEF Goto
        <4> HIDE DEF t
        <4>3. QED BY <4>1, <4>2 DEF TypeOK
      <3>2. CASE End(c, "none")
        <4> DEFINE t == Idle("none")
        <4>1. t \in Sessions /\ t.cur = 0 /\ t.saved.pin = 0
          BY IdleTyped
        <4>2. sess' = [sess EXCEPT ![c] = t]
          BY <3>2 DEF End
        <4> HIDE DEF t
        <4>3. {t.cur, t.saved.pin} \subseteq 0..Len(versions)
          BY <4>1, <2>3
        <4>4. QED BY <4>1, <4>2, <4>3
      <3>3. QED BY <1>15, <3>1, <3>2 DEF PushAnswerLost
    <2>5. /\ Len(versions') \in Nat /\ Len(versions) <= Len(versions')
          /\ {s.cur, s.saved.pin} \subseteq 0..Len(versions')
      BY <2>3, <2>4
    <2>6. SessTyped'
      BY <2>4, <2>5, PutTyped
    <2>7. UNCHANGED <<disk, requests>>
      BY <1>15 DEF PushAnswerLost
    <2>8. QED BY <2>3, <2>6, <2>7 DEF TypeOK, SessTyped, disk
  <1>16. ASSUME NEW c \in Clients, PushRefused(c) PROVE TypeOK'
    <2>1. SessTyped'
      BY <1>16, GotoTyped DEF PushRefused, host, Steps
    <2>2. QED BY <1>16, <2>1 DEF PushRefused, TypeOK, SessTyped, host, disk
  <1>17. ASSUME NEW c \in Clients, RetryAfterCASLost(c) PROVE TypeOK'
    <2>1. SessTyped'
      <3>0. UNCHANGED versions /\ Len(versions) \in Nat
        BY <1>17 DEF RetryAfterCASLost, host, TypeOK
      <3>1. CASE LoadRemoteState(c) # "ok"
        <4>1. LoadRemoteState(c) \in Alarms
          BY <3>1, LoadResult DEF Alarms
        <4>2. QED BY <1>17, <3>0, <3>1, <4>1, EndTyped DEF RetryAfterCASLost
      <3>2. CASE LoadRemoteState(c) = "ok" /\ sess[c].attempt = PushRetries
        BY <1>17, <3>0, <3>2, EndTyped DEF RetryAfterCASLost
      <3>3. CASE LoadRemoteState(c) = "ok" /\ sess[c].attempt # PushRetries
        <4> DEFINE step == IF sess[c].op = "repack" THEN "ready" ELSE "push"
                   att == sess[c].attempt + 1
                   s == [sess[c] EXCEPT !.cur = tip, !.attempt = att, !.pc = step]
        <4>1. sess' = [sess EXCEPT ![c] = s]
          BY <1>17, <3>3 DEF RetryAfterCASLost
        <4>2. /\ step \in Steps /\ tip \in Nat /\ tip \in 0..Len(versions)
              /\ att \in Nat
          BY DEF Steps, TypeOK, Sessions
        <4> HIDE DEF step, att
        <4>3. s \in Sessions /\ s.cur = tip /\ s.saved = sess[c].saved
          BY <4>2 DEF TypeOK, Sessions
        <4> HIDE DEF s
        <4>4. /\ Len(versions') \in Nat /\ Len(versions) <= Len(versions')
              /\ {s.cur, s.saved.pin} \subseteq 0..Len(versions')
          BY <3>0, <4>2, <4>3 DEF TypeOK
        <4>5. QED BY <4>1, <4>3, <4>4, PutTyped
      <3>4. QED BY <3>1, <3>2, <3>3
    <2>2. QED BY <1>17, <2>1 DEF RetryAfterCASLost, TypeOK, SessTyped, host, disk
  <1>18. ASSUME NEW c \in Clients, OpenRepack(c) PROVE TypeOK'
    <2>1. SessTyped'
      BY <1>18, OpenTyped DEF OpenRepack, Ops
    <2>2. QED BY <1>18, <2>1 DEF OpenRepack, Open, Request, TypeOK, SessTyped, host, disk
  <1>19. ASSUME NEW c \in Clients, RepackFails(c) PROVE TypeOK'
    <2>1. SessTyped'
      BY <1>19, EndTyped DEF RepackFails, host
    <2>2. QED BY <1>19, <2>1 DEF RepackFails, TypeOK, SessTyped, host, disk
  <1>20. ASSUME NEW c \in Clients, AcceptBegin(c) PROVE TypeOK'
    <2> DEFINE p == pin[c]  r == repoPin[c]
    <2>1. /\ UNCHANGED <<host, objs, applied>> /\ requests' = requests + 1
          /\ p \in 0..Len(versions) /\ p \in Nat /\ r \in Nat /\ Len(versions) \in Nat
      BY <1>20 DEF AcceptBegin, Request, TypeOK
    <2>2. PICK command \in Accepts :
             /\ sess' = [sess EXCEPT ![c] =
                        [Idle("none") EXCEPT !.op = command,
                            !.pc = IF command = "accept-rollback" THEN "cleared"
                                   ELSE "clearing",
                            !.saved = [pin |-> p, repo |-> r]]]
             /\ IF command = "accept-rollback"
                THEN pin' = [pin EXCEPT ![c] = 0] /\ UNCHANGED repoPin
                ELSE repoPin' = [repoPin EXCEPT ![c] = 0] /\ UNCHANGED pin
      BY <1>20 DEF AcceptBegin
    <2> DEFINE step == IF command = "accept-rollback" THEN "cleared" ELSE "clearing"
               keep == [pin |-> p, repo |-> r]
               s == [Idle("none") EXCEPT !.op = command, !.pc = step, !.saved = keep]
    <2>3. sess' = [sess EXCEPT ![c] = s]
      BY <2>2
    <2>4. step \in Steps /\ keep \in [pin : Nat, repo : Nat] /\ keep.pin = p
      BY <2>1 DEF Steps
    <2>5. pin' \in [Clients -> 0..Len(versions)] /\ repoPin' \in [Clients -> Nat]
      <3>1. 0 \in 0..Len(versions)
        BY <2>1
      <3>2. QED BY <2>2, <3>1 DEF TypeOK
    <2> HIDE DEF p, r, step, keep
    <2>6. s \in Sessions /\ s.cur = 0 /\ s.saved = keep
      BY <2>4, IdleTyped DEF Sessions, Idle, Ops, Accepts
    <2> HIDE DEF s
    <2>7. /\ Len(versions') \in Nat /\ Len(versions) <= Len(versions')
          /\ {s.cur, s.saved.pin} \subseteq 0..Len(versions')
      BY <2>1, <2>4, <2>6 DEF host
    <2>8. SessTyped'
      BY <2>3, <2>6, <2>7, PutTyped
    <2>9. QED BY <2>1, <2>5, <2>8 DEF TypeOK, SessTyped, host
  <1>21. ASSUME NEW c \in Clients, AcceptClearPin(c) PROVE TypeOK'
    <2>1. SessTyped'
      BY <1>21, GotoTyped DEF AcceptClearPin, host, Steps
    <2>2. pin' \in [Clients -> 0..Len(versions)]
      <3>1. 0 \in 0..Len(versions)
        BY DEF TypeOK
      <3>2. QED BY <1>21, <3>1 DEF AcceptClearPin, TypeOK
    <2>3. QED BY <1>21, <2>1, <2>2 DEF AcceptClearPin, TypeOK, SessTyped, host
  <1>22. ASSUME NEW c \in Clients, AcceptLoad(c) PROVE TypeOK'
    <2>1. SessTyped'
      <3>0. UNCHANGED versions /\ Len(versions) \in Nat
        BY <1>22 DEF AcceptLoad, host, TypeOK
      <3>1. CASE tip = 0
        BY <1>22, <3>0, <3>1, EndTyped DEF AcceptLoad
      <3>2. CASE tip # 0
        <4> DEFINE s == [sess[c] EXCEPT !.pc = "pinGen", !.cur = tip]
        <4>1. sess' = [sess EXCEPT ![c] = s]
          BY <1>22, <3>2 DEF AcceptLoad
        <4>0. tip \in Nat
          BY DEF TypeOK
        <4>2. s \in Sessions /\ s.cur = tip /\ s.saved = sess[c].saved
          BY <4>0 DEF TypeOK, Sessions, Steps
        <4> HIDE DEF s
        <4>3. /\ Len(versions') \in Nat /\ Len(versions) <= Len(versions')
              /\ {s.cur, s.saved.pin} \subseteq 0..Len(versions')
          BY <3>0, <4>2 DEF TypeOK
        <4>4. QED BY <4>1, <4>2, <4>3, PutTyped
      <3>3. QED BY <3>1, <3>2
    <2>2. QED BY <1>22, <2>1 DEF AcceptLoad, TypeOK, SessTyped, host, disk
  <1>23. ASSUME NEW c \in Clients, AcceptFails(c) PROVE TypeOK'
    <2>1. SessTyped'
      <3>0. UNCHANGED versions /\ Len(versions) \in Nat
        BY <1>23 DEF AcceptFails, host, TypeOK
      <3> DEFINE r == LoadRemoteState(c)
                 s == [sess[c] EXCEPT !.pc = "restorePin", !.alarm = r]
      <3>1. CASE Goto(c, "restorePin")
        BY <3>0, <3>1, GotoTyped DEF Steps
      <3>2. CASE r # "ok" /\ sess' =
                   [sess EXCEPT ![c].pc = "restorePin", ![c].alarm = r]
        <4>1. r \in Alarms \cup {"none"}
          BY <3>2, LoadResult DEF Alarms
        <4> HIDE DEF r
        <4>2. sess' = [sess EXCEPT ![c] = s]
          BY <3>2
        <4>3. s \in Sessions /\ s.cur = sess[c].cur /\ s.saved = sess[c].saved
          BY <4>1 DEF TypeOK, Sessions, Steps
        <4> HIDE DEF s
        <4>4. /\ Len(versions') \in Nat /\ Len(versions) <= Len(versions')
              /\ {s.cur, s.saved.pin} \subseteq 0..Len(versions')
          BY <3>0, <4>3 DEF TypeOK
        <4>5. QED BY <4>2, <4>3, <4>4, PutTyped
      <3>3. QED BY <1>23, <3>1, <3>2 DEF AcceptFails
    <2>2. QED BY <1>23, <2>1 DEF AcceptFails, TypeOK, SessTyped, host, disk
  <1>24. ASSUME NEW c \in Clients, AcceptRestorePin(c) PROVE TypeOK'
    <2>1. SessTyped'
      BY <1>24, GotoTyped DEF AcceptRestorePin, host, Steps
    <2>2. sess[c].saved.pin \in 0..Len(versions)
      BY DEF TypeOK
    <2>3. QED BY <1>24, <2>1, <2>2 DEF AcceptRestorePin, TypeOK, SessTyped, host
  <1>25. ASSUME NEW c \in Clients, AcceptRestoreRepo(c) PROVE TypeOK'
    <2>1. sess[c].saved.repo \in Nat /\ sess[c].alarm \in Alarms \cup {"none"}
      BY DEF TypeOK, Sessions
    <2>2. SessTyped'
      BY <1>25, <2>1, EndTyped DEF AcceptRestoreRepo, host
    <2>3. QED BY <1>25, <2>1, <2>2 DEF AcceptRestoreRepo, TypeOK, SessTyped, host
  <1>26. CASE Restore \/ Wipe
    BY <1>26 DEF Restore, Wipe, TypeOK, disk
  <1>27. QED
    BY <1>1, <1>2, <1>3, <1>4, <1>5, <1>6, <1>7, <1>8, <1>9, <1>10, <1>11, <1>12,
       <1>13, <1>14, <1>15, <1>16, <1>17, <1>18, <1>19, <1>20, <1>21, <1>22, <1>23,
       <1>24, <1>25, <1>26
    DEF Next, ClientStep, Fetching, Saving, Pushing, Repacking, Accepting

\* Every variable keeps its type, and every version a pin or a session names is
\* one the host has stored.
THEOREM TypeCorrect == Spec => []TypeOK
  <1>1. Init => TypeOK
    BY IdleTyped DEF Init, TypeOK
  <1>2. TypeOK /\ [Next]_vars => TypeOK'
    <2>1. ASSUME TypeOK, UNCHANGED vars PROVE TypeOK'
      BY <2>1 DEF TypeOK, vars, host, disk
    <2>2. QED BY <2>1, StepTyped
  <1>3. QED BY <1>1, <1>2, PTL DEF Spec

-----------------------------------------------------------------------------
(* Remotes are complete *)

\* Only an offer the host takes stores a version.
LEMMA StepVersions ==
    ASSUME Next
    PROVE  \/ UNCHANGED versions
           \/ \E c \in Clients : \E offer \in Offers(c) : HostTakes(offer.man)
  <1>1. CASE \E c \in Clients : PushOK(c) \/ PushAnswerLost(c)
    BY <1>1 DEF PushOK, PushAnswerLost
  <1>2. CASE ~ \E c \in Clients : PushOK(c) \/ PushAnswerLost(c)
    BY <1>2 DEF Next, ClientStep, Fetching, Saving, Pushing, Repacking, Accepting,
       LocalCommit, OpenHelper, Open, CloseHelper, Crash, FetchApply, FetchApplyCut,
       FetchVerify, SaveGeneration, SaveRepoID, MarkApplied, BeginPush, PushReject,
       PushCASLost, PushRefused, RetryAfterCASLost, OpenRepack, RepackFails,
       AcceptBegin, AcceptClearPin, AcceptLoad, AcceptFails, AcceptRestorePin,
       AcceptRestoreRepo, Restore, Wipe, host
  <1>3. QED BY <1>1, <1>2

\* A version, once stored, stays what it is.
LEMMA StepManifest ==
    ASSUME TypeOK, Next, NEW v \in 0..Len(versions)
    PROVE  Manifest(v)' = Manifest(v)
  <1>1. CASE UNCHANGED versions
    BY <1>1 DEF Manifest
  <1>2. ASSUME NEW c \in Clients, NEW offer \in Offers(c), HostTakes(offer.man)
        PROVE  Manifest(v)' = Manifest(v)
    <2>1. \A w \in 1..Len(versions) : versions'[w] = versions[w]
      BY <1>2, OfferSound, StoreVersion
    <2>2. v # 0 => v \in 1..Len(versions)
      BY DEF TypeOK
    <2>3. QED BY <2>1, <2>2 DEF Manifest
  <1>3. QED BY <1>1, <1>2, StepVersions

\* Storing an offer keeps every version whole.
LEMMA StepComplete ==
    ASSUME TypeOK, RemoteComplete, Next
    PROVE  RemoteComplete'
  <1>1. CASE UNCHANGED versions
    BY <1>1 DEF RemoteComplete
  <1>2. ASSUME NEW c \in Clients, NEW offer \in Offers(c), HostTakes(offer.man)
        PROVE  RemoteComplete'
    <2>1. Whole(Loaded(c))
      <3>1. CASE sess[c].cur = 0
        <4>1. Loaded(c) = EmptyManifest
          BY <3>1 DEF Loaded, Manifest
        <4>2. ReachAll(Tips(NoRefs)) = {}
          BY DEF NoRefs, Tips, ReachAll
        <4>3. QED BY <4>1, <4>2 DEF Whole, EmptyManifest
      <3>2. CASE sess[c].cur # 0
        <4>1. sess[c].cur \in 1..Len(versions)
          BY <3>2 DEF TypeOK
        <4>2. QED BY <3>2, <4>1 DEF RemoteComplete, Loaded, Manifest, Whole
      <3>3. QED BY <3>1, <3>2
    <2>2. offer.man \in Manifests /\ Whole(offer.man)
      BY <2>1, OfferSound
    <2>3. /\ Len(versions') = NewVersion /\ versions'[NewVersion] = offer.man
          /\ \A v \in 1..Len(versions) : versions'[v] = versions[v]
      BY <1>2, <2>2, StoreVersion
    <2>4. \A v \in 1..NewVersion : v = NewVersion \/ v \in 1..Len(versions)
      BY DEF NewVersion, TypeOK
    <2> DEFINE m == offer.man  n == NewVersion
    <2>5. ReachAll(Tips(m.refs)) \subseteq PackObjs(m.packs)
      BY <2>2 DEF Whole
    <2> HIDE DEF m, n
    <2>6. ASSUME NEW v \in 1..n
          PROVE  ReachAll(Tips(versions'[v].refs)) \subseteq PackObjs(versions'[v].packs)
      <3>1. CASE v = n
        BY <2>3, <2>5, <3>1 DEF m, n
      <3>2. CASE v \in 1..Len(versions)
        BY <2>3, <3>2 DEF RemoteComplete
      <3>3. QED BY <2>4, <3>1, <3>2 DEF n
    <2>7. QED BY <2>3, <2>6 DEF RemoteComplete, n
  <1>3. QED BY <1>1, <1>2, StepVersions

\* Whichever objects pushing clients hold, whatever they merge, squash or repack,
\* and whatever the host serves them, every version the host stores contains the
\* history of its refs: a fresh clone of any of them succeeds.
THEOREM RemoteAlwaysComplete == Spec => []RemoteComplete
  <1> DEFINE IInv == TypeOK /\ RemoteComplete
  <1>1. Init => IInv
    <2>1. Init => RemoteComplete
      BY DEF Init, RemoteComplete
    <2>2. Init => TypeOK
      BY IdleTyped DEF Init, TypeOK
    <2>3. QED BY <2>1, <2>2
  <1>2. IInv /\ [Next]_vars => IInv'
    <2>1. ASSUME IInv, UNCHANGED vars PROVE IInv'
      BY <2>1 DEF TypeOK, RemoteComplete, vars, host, disk
    <2>2. QED BY <2>1, StepTyped, StepComplete
  <1>3. IInv => RemoteComplete
    OBVIOUS
  <1>4. QED BY <1>1, <1>2, <1>3, PTL DEF Spec

-----------------------------------------------------------------------------
(* Pins *)

\* The state of a session is not behind the generation pin p.
Ahead(s, p) == p # 0 => s.cur = p \/ Manifest(s.cur).gen > Manifest(p).gen

\* It belongs to the pinned repository r, or to one its push has just created.
SameRepo(s, r) ==
    r # 0 /\ s.cur # 0 =>
        \/ Manifest(s.cur).repo = r
        \/ /\ Manifest(s.cur).repo = s.cur /\ s.batch \in Batches
           /\ s.pc \in {"pinGen", "pinRepo"}

\* What makes WorksAheadOfPin inductive: where a session may be with an empty
\* remote, without a batch, or outside an accept command, and that a push which
\* creates a repository is between the host's answer and the repoid file.
Fine(s, p, r) ==
    /\ s.pc \in {"fetched", "pinGen", "pinRepo"} => s.cur # 0
    /\ (s.pc = "push" \/ (s.pc = "lost" /\ s.op # "repack")) => s.batch \in Batches
    /\ s.pc \in {"clearing", "cleared", "restorePin", "restoreRepo"} => s.op \in Accepts
    /\ s.pc # "idle" /\ s.op \notin Accepts => Ahead(s, p) /\ SameRepo(s, r)

PinInv == \A c \in Clients : Fine(sess[c], pin[c], repoPin[c])

\* The empty batch is no batch git hands over.
LEMMA NoBatchIsNone == NoBatch \notin Batches
  <1>1. DOMAIN NoBatch = {}
    BY DEF NoBatch
  <1>2. ASSUME NoBatch \in Batches PROVE FALSE
    <2>1. PICK D \in (SUBSET Refs) \ {{}} : NoBatch \in [D -> Kinds]
      BY <1>2 DEF Batches
    <2>2. DOMAIN NoBatch = D
      BY <2>1
    <2>3. D # {}
      BY <2>1
    <2>4. QED BY <1>1, <2>2, <2>3
  <1>3. QED BY <1>2

\* A session, its pins and the versions they name stay fine while others act.
LEMMA FineAfter ==
    ASSUME TypeOK, Next, NEW c \in Clients, NEW s, NEW p, NEW r,
           s.cur \in 0..Len(versions), p \in 0..Len(versions), Fine(s, p, r),
           sess'[c] = s, pin'[c] = p, repoPin'[c] = r
    PROVE  Fine(sess[c], pin[c], repoPin[c])'
  <1>1. Manifest(s.cur)' = Manifest(s.cur) /\ Manifest(p)' = Manifest(p)
    BY StepManifest
  <1>2. QED BY <1>1 DEF Fine, Ahead, SameRepo, Manifest

\* A client whose session and pins a step leaves alone stays fine.
LEMMA FineSame ==
    ASSUME TypeOK, PinInv, Next, NEW c \in Clients, sess'[c] = sess[c],
           pin'[c] = pin[c], repoPin'[c] = repoPin[c]
    PROVE  Fine(sess[c], pin[c], repoPin[c])'
  <1> DEFINE s == sess[c]  p == pin[c]  r == repoPin[c]
  <1>1. s.cur \in 0..Len(versions) /\ p \in 0..Len(versions) /\ Fine(s, p, r)
    BY DEF TypeOK, PinInv
  <1>2. sess'[c] = s /\ pin'[c] = p /\ repoPin'[c] = r
    OBVIOUS
  <1> HIDE DEF s, p, r
  <1>3. QED BY <1>1, <1>2, FineAfter

\* A session that ended is fine.
LEMMA FineEnd ==
    ASSUME TypeOK, NEW c \in Clients, NEW a, End(c, a)
    PROVE  Fine(sess[c], pin[c], repoPin[c])'
  <1>1. sess'[c] = Idle(a)
    BY DEF End, TypeOK
  <1>2. /\ sess'[c].pc = "idle"
    BY <1>1 DEF Idle
  <1>3. QED BY <1>2 DEF Fine

\* What LoadRemoteState lets pass is not behind the pins (CheckPin, CheckRepoID).
LEMMA LoadFine ==
    ASSUME TypeOK, NEW c \in Clients, LoadRemoteState(c) = "ok"
    PROVE  /\ pin[c] # 0 => tip = pin[c] \/ Manifest(tip).gen > Manifest(pin[c]).gen
           /\ repoPin[c] # 0 /\ tip # 0 => Manifest(tip).repo = repoPin[c]
  <1>1. CheckPin(c, tip) = "ok"
    BY DEF LoadRemoteState
  <1>2. CheckRepoID(c, tip) = "ok"
    BY <1>1 DEF LoadRemoteState
  <1>3. ASSUME pin[c] # 0
        PROVE  tip = pin[c] \/ Manifest(tip).gen > Manifest(pin[c]).gen
    <2>1. tip # 0
      BY <1>1, <1>3 DEF CheckPin
    <2>2. QED BY <1>1, <1>3, <2>1 DEF CheckPin
  <1>4. ASSUME repoPin[c] # 0, tip # 0 PROVE Manifest(tip).repo = repoPin[c]
    BY <1>2, <1>4 DEF CheckRepoID
  <1>5. QED BY <1>3, <1>4

\* A step of one client leaves the sessions and the pins of the others alone.
LEMMA OthersKeep ==
    ASSUME TypeOK, NEW c \in Clients, ClientStep(c), NEW d \in Clients, d # c
    PROVE  sess'[d] = sess[d] /\ pin'[d] = pin[d] /\ repoPin'[d] = repoPin[d]
  <1>1. CASE LocalCommit(c) \/ OpenHelper(c) \/ CloseHelper(c) \/ Crash(c)
    BY <1>1 DEF LocalCommit, OpenHelper, CloseHelper, Crash, Open, End, TypeOK, disk
  <1>2. CASE Fetching(c)
    BY <1>2 DEF Fetching, FetchApply, FetchApplyCut, FetchVerify, End, Goto, TypeOK, disk
  <1>3. CASE Saving(c)
    BY <1>3 DEF Saving, SaveGeneration, SaveRepoID, MarkApplied, Resolve, End, Goto,
       TypeOK, disk
  <1>4. CASE Repacking(c)
    BY <1>4 DEF Repacking, OpenRepack, RepackFails, Open, End, TypeOK, disk
  <1>5. CASE Pushing(c)
    BY <1>5 DEF Pushing, BeginPush, PushReject, PushOK, PushCASLost, PushAnswerLost,
       PushRefused, RetryAfterCASLost, Resolve, End, Goto, TypeOK, disk
  <1>6. CASE Accepting(c)
    BY <1>6 DEF Accepting, AcceptBegin, AcceptClearPin, AcceptLoad, AcceptFails,
       AcceptRestorePin, AcceptRestoreRepo, End, Goto, TypeOK, disk
  <1>7. QED BY <1>1, <1>2, <1>3, <1>4, <1>5, <1>6 DEF ClientStep

\* Opening a session loads nothing behind the pins.
LEMMA FineOpen ==
    ASSUME TypeOK, Next, NEW c \in Clients, NEW command \in {"helper", "repack"},
           Open(c, command)
    PROVE  Fine(sess[c], pin[c], repoPin[c])'
  <1>1. CASE LoadRemoteState(c) # "ok"
    BY <1>1, FineEnd DEF Open
  <1>2. CASE LoadRemoteState(c) = "ok"
    <2> DEFINE s == [Idle("none") EXCEPT !.op = command, !.pc = "ready", !.cur = tip]
               p == pin[c]  r == repoPin[c]
    <2>1. sess'[c] = s /\ pin'[c] = p /\ repoPin'[c] = r
      BY <1>2 DEF Open, TypeOK, disk
    <2>2. /\ s.pc = "ready" /\ s.cur = tip
          /\ s.cur \in 0..Len(versions) /\ p \in 0..Len(versions)
      BY DEF Idle, TypeOK
    <2>3. Ahead(s, p) /\ SameRepo(s, r)
      BY <1>2, <2>2, LoadFine DEF Ahead, SameRepo
    <2>4. Fine(s, p, r)
      <3> HIDE DEF s, p, r
      <3>1. QED BY <2>2, <2>3 DEF Fine
    <2> HIDE DEF s, p, r
    <2>5. QED BY <2>1, <2>2, <2>4, FineAfter
  <1>3. QED BY <1>1, <1>2

\* A step of a session that changes neither the pins nor what it loaded.
LEMMA FineMove ==
    ASSUME TypeOK, PinInv, Next, NEW c \in Clients, NEW step \in Steps,
           NEW s, s.pc = step, s.op = sess[c].op, s.cur = sess[c].cur, sess'[c] = s,
           pin'[c] = pin[c], repoPin'[c] = repoPin[c],
           sess[c].pc # "idle",
           sess[c].pc \in {"pinGen", "pinRepo"} => s.batch = sess[c].batch /\ step \in {"pinRepo"},
           step \in {"fetched", "pinGen", "pinRepo"} => s.cur # 0,
           (step = "push" \/ (step = "lost" /\ s.op # "repack")) => s.batch \in Batches,
           step \in {"clearing", "cleared", "restorePin", "restoreRepo"} => s.op \in Accepts
    PROVE  Fine(sess[c], pin[c], repoPin[c])'
  <1> DEFINE p == pin[c]  r == repoPin[c]
  <1>1. s.cur \in 0..Len(versions) /\ p \in 0..Len(versions)
    BY DEF TypeOK
  <1>2. Fine(sess[c], p, r)
    BY DEF PinInv
  <1> HIDE DEF p, r
  <1>3. s.op \notin Accepts => Ahead(s, p) /\ SameRepo(s, r)
    BY <1>2 DEF Fine, Ahead, SameRepo
  <1>4. Fine(s, p, r)
    BY <1>3 DEF Fine
  <1>5. sess'[c] = s /\ pin'[c] = p /\ repoPin'[c] = r
    BY DEF p, r
  <1>6. QED BY <1>1, <1>4, <1>5, FineAfter

\* The same, for a step that changes only where the session is.
LEMMA FineGoto ==
    ASSUME TypeOK, PinInv, Next, NEW c \in Clients, NEW step \in Steps, Goto(c, step),
           pin'[c] = pin[c], repoPin'[c] = repoPin[c],
           sess[c].pc \notin {"idle", "pinGen", "pinRepo"},
           step \in {"fetched", "pinGen", "pinRepo"} => sess[c].cur # 0,
           (step = "push" \/ (step = "lost" /\ sess[c].op # "repack"))
               => sess[c].batch \in Batches,
           step \in {"clearing", "cleared", "restorePin", "restoreRepo"}
               => sess[c].op \in Accepts
    PROVE  Fine(sess[c], pin[c], repoPin[c])'
  <1> DEFINE s == [sess[c] EXCEPT !.pc = step]
  <1>1. /\ s.pc = step /\ s.op = sess[c].op /\ s.cur = sess[c].cur
        /\ s.batch = sess[c].batch
    BY DEF TypeOK, Sessions
  <1>2. sess'[c] = s
    BY DEF Goto, TypeOK
  <1> HIDE DEF s
  <1>3. QED BY <1>1, <1>2, FineMove

\* The same, for a request that ends after the pins are saved.
LEMMA FineResolve ==
    ASSUME TypeOK, PinInv, Next, NEW c \in Clients, Resolve(c),
           pin'[c] = pin[c], repoPin'[c] = repoPin[c],
           sess[c].pc \notin {"idle", "pinGen", "pinRepo"}
    PROVE  Fine(sess[c], pin[c], repoPin[c])'
  <1>1. CASE sess[c].op # "helper"
    BY <1>1, FineEnd DEF Resolve
  <1>2. CASE sess[c].op = "helper"
    <2> DEFINE s == [Idle("none") EXCEPT !.pc = "ready", !.cur = sess[c].cur]
    <2>1. s.pc = "ready" /\ s.op = sess[c].op /\ s.cur = sess[c].cur
      BY <1>2 DEF Idle
    <2>2. sess'[c] = s
      BY <1>2 DEF Resolve, TypeOK
    <2> HIDE DEF s
    <2>3. "ready" \in Steps
      BY DEF Steps
    <2>4. QED BY <2>1, <2>2, <2>3, FineMove
  <1>3. QED BY <1>1, <1>2

\* The session that has an offer for the host, whatever becomes of it.
LEMMA OfferFrom ==
    ASSUME TypeOK, PinInv, NEW c \in Clients, Offers(c) # {}
    PROVE  \/ sess[c].pc = "fetched" /\ sess[c].op = "repack" /\ sess[c].cur # 0
           \/ sess[c].pc = "push" /\ sess[c].op # "repack" /\ sess[c].batch \in Batches
  BY DEF Offers, PinInv, Fine

\* A push or a repack whose compare-and-swap was lost, or seems to be.
LEMMA FineLost ==
    ASSUME TypeOK, PinInv, Next, NEW c \in Clients, Offers(c) # {}, Goto(c, "lost"),
           pin'[c] = pin[c], repoPin'[c] = repoPin[c]
    PROVE  Fine(sess[c], pin[c], repoPin[c])'
  <1>1. "lost" \in Steps
    BY DEF Steps
  <1>2. CASE sess[c].pc = "fetched" /\ sess[c].op = "repack"
    BY <1>1, <1>2, FineGoto
  <1>3. CASE sess[c].pc = "push" /\ sess[c].op # "repack" /\ sess[c].batch \in Batches
    BY <1>1, <1>3, FineGoto
  <1>4. QED BY <1>2, <1>3, OfferFrom

\* The version a push has just stored is one generation above the one it loaded,
\* of the same repository unless the remote was empty.
LEMMA FinePushOK ==
    ASSUME TypeOK, TypeOK', PinInv, Next, NEW c \in Clients, PushOK(c)
    PROVE  Fine(sess[c], pin[c], repoPin[c])'
  <1>1. PICK offer \in Offers(c) :
           /\ HostTakes(offer.man)
           /\ sess' = [sess EXCEPT ![c] = [@ EXCEPT !.pc = "pinGen",
                              !.cur = NewVersion, !.mark = offer.mark]]
    BY DEF PushOK
  <1> DEFINE base == Loaded(c)  s == sess[c]
  <1>0. PICK n, p, r : n = NewVersion /\ p = pin[c] /\ r = repoPin[c]
    OBVIOUS
  <1>2. /\ offer.man \in Manifests /\ offer.man.gen = base.gen + 1
        /\ offer.man.repo = IF base.repo = 0 /\ s.op # "repack" THEN n ELSE base.repo
    BY <1>0, OfferSound
  <1>3. /\ n \in Nat \ {0} /\ versions'[n] = offer.man
    BY <1>0, <1>1, <1>2, StoreVersion
  <1>4. /\ sess'[c].pc = "pinGen" /\ sess'[c].cur = n /\ sess'[c].op = s.op
        /\ sess'[c].batch = s.batch
    BY <1>0, <1>1 DEF TypeOK, Sessions
  <1>5. pin'[c] = p /\ repoPin'[c] = r
    BY <1>0 DEF PushOK, disk
  <1>6. Manifest(n)' = offer.man
    BY <1>3 DEF Manifest
  <1>7. Manifest(p)' = Manifest(p)
    BY <1>0, StepManifest DEF TypeOK
  <1>8. Manifest(p).gen \in Nat /\ base.gen \in Nat
    BY <1>0, ManifestType DEF TypeOK, Loaded, Manifests
  <1>9. \/ s.pc = "fetched" /\ s.op = "repack" /\ s.cur # 0
        \/ s.pc = "push" /\ s.op # "repack" /\ s.batch \in Batches
    BY OfferFrom
  <1>10. base = Manifest(s.cur)
    BY DEF Loaded
  <1>11. (s.cur = 0) => base.repo = 0
    BY <1>10 DEF Manifest, EmptyManifest
  <1>12. s.op \notin Accepts => Ahead(s, p) /\ SameRepo(s, r)
    BY <1>0, <1>9 DEF PinInv, Fine
  <1> HIDE DEF base, s
  <1>13. ASSUME s.op \notin Accepts, p # 0 PROVE offer.man.gen > Manifest(p).gen
    BY <1>2, <1>8, <1>10, <1>12, <1>13 DEF Ahead
  <1>14. ASSUME s.op \notin Accepts, r # 0
         PROVE  \/ offer.man.repo = r
                \/ offer.man.repo = n /\ s.batch \in Batches
    BY <1>2, <1>9, <1>10, <1>11, <1>12, <1>14 DEF SameRepo
  <1>15. ASSUME s.op \notin Accepts
         PROVE  Ahead(sess[c], pin[c])' /\ SameRepo(sess[c], repoPin[c])'
    <2>1. Manifest(sess[c].cur)' = offer.man
      BY <1>4, <1>6 DEF Manifest
    <2>2. Manifest(pin[c])' = Manifest(p)
      BY <1>5, <1>7 DEF Manifest
    <2>3. Ahead(sess[c], pin[c])'
      BY <1>5, <1>13, <1>15, <2>1, <2>2 DEF Ahead
    <2>4. SameRepo(sess[c], repoPin[c])'
      BY <1>4, <1>5, <1>14, <1>15, <2>1 DEF SameRepo
    <2>5. QED BY <2>3, <2>4
  <1>16. QED BY <1>3, <1>4, <1>15 DEF Fine

\* The generation file now names what the session works on.
LEMMA FineSaveGeneration ==
    ASSUME TypeOK, PinInv, Next, NEW c \in Clients, SaveGeneration(c)
    PROVE  Fine(sess[c], pin[c], repoPin[c])'
  <1> DEFINE s == [sess[c] EXCEPT !.pc = "pinRepo"]  p == sess[c].cur  r == repoPin[c]
  <1>1. sess'[c] = s /\ pin'[c] = p /\ repoPin'[c] = r
    BY DEF SaveGeneration, Goto, TypeOK
  <1>2. /\ s.pc = "pinRepo" /\ s.op = sess[c].op /\ s.cur = p
        /\ s.batch = sess[c].batch /\ p \in 0..Len(versions)
    BY DEF TypeOK, Sessions
  <1>3. Fine(sess[c], pin[c], r) /\ sess[c].pc = "pinGen"
    BY DEF PinInv, SaveGeneration
  <1>4. sess[c].cur = p
    OBVIOUS
  <1> HIDE DEF s, p, r
  <1>5. p # 0
    BY <1>3, <1>4 DEF Fine
  <1>6. Ahead(s, p)
    BY <1>2 DEF Ahead
  <1>7. s.op \notin Accepts => SameRepo(s, r)
    BY <1>2, <1>3, <1>4 DEF Fine, SameRepo
  <1>8. Fine(s, p, r)
    BY <1>2, <1>5, <1>6, <1>7 DEF Fine
  <1>9. QED BY <1>1, <1>2, <1>8, FineAfter

\* The repoid file now names the repository the session works on.
LEMMA FineSaveRepoID ==
    ASSUME TypeOK, PinInv, Next, NEW c \in Clients, SaveRepoID(c)
    PROVE  Fine(sess[c], pin[c], repoPin[c])'
  <1>1. CASE End(c, "none")
    BY <1>1, FineEnd
  <1>2. CASE ~End(c, "none")
    <2> DEFINE rest == IF sess[c].mark = {} THEN "ready" ELSE "mark"
               s == IF sess[c].mark = {}
                    THEN [Idle("none") EXCEPT !.pc = "ready", !.cur = sess[c].cur]
                    ELSE [sess[c] EXCEPT !.pc = "mark"]
               p == pin[c]  r == Loaded(c).repo
    <2>1. pin'[c] = p /\ repoPin'[c] = r
      BY DEF SaveRepoID, TypeOK
    <2>2. sess'[c] = s /\ s.pc = rest /\ s.op = sess[c].op /\ s.cur = sess[c].cur
      <3>1. CASE sess[c].mark = {}
        <4>1. sess[c].op = "helper"
          BY <1>2, <3>1 DEF SaveRepoID, Resolve
        <4>2. QED BY <3>1, <4>1 DEF SaveRepoID, Resolve, Idle, TypeOK
      <3>2. CASE sess[c].mark # {}
        <4>1. sess' = [sess EXCEPT ![c].pc = "mark"]
          BY <3>2 DEF SaveRepoID, Goto
        <4>2. s = [sess[c] EXCEPT !.pc = "mark"] /\ rest = "mark"
          BY <3>2
        <4> HIDE DEF s, rest
        <4>3. QED BY <4>1, <4>2 DEF TypeOK, Sessions
      <3>3. QED BY <3>1, <3>2
    <2>3. s.cur \in 0..Len(versions) /\ p \in 0..Len(versions)
      BY <2>2 DEF TypeOK
    <2>4. Fine(sess[c], p, repoPin[c])
      BY DEF PinInv
    <2>5. Manifest(s.cur).repo = r /\ rest \in {"ready", "mark"}
      BY <2>2 DEF Loaded
    <2>6. sess[c].pc = "pinRepo"
      BY DEF SaveRepoID
    <2> HIDE DEF s, p, r, rest
    <2>7. s.op \notin Accepts => Ahead(s, p)
      BY <2>2, <2>4, <2>6 DEF Fine, Ahead
    <2>8. SameRepo(s, r)
      BY <2>5 DEF SameRepo
    <2>9. Fine(s, p, r)
      BY <2>2, <2>5, <2>7, <2>8 DEF Fine
    <2>10. QED BY <2>1, <2>2, <2>3, <2>9, FineAfter
  <1>3. QED BY <1>1, <1>2

\* After a lost compare-and-swap the session works on what it loaded again.
LEMMA FineRetry ==
    ASSUME TypeOK, PinInv, Next, NEW c \in Clients, RetryAfterCASLost(c)
    PROVE  Fine(sess[c], pin[c], repoPin[c])'
  <1>1. CASE LoadRemoteState(c) # "ok"
    BY <1>1, FineEnd DEF RetryAfterCASLost
  <1>2. CASE LoadRemoteState(c) = "ok" /\ sess[c].attempt = PushRetries
    BY <1>2, FineEnd DEF RetryAfterCASLost
  <1>3. CASE LoadRemoteState(c) = "ok" /\ sess[c].attempt # PushRetries
    <2> DEFINE step == IF sess[c].op = "repack" THEN "ready" ELSE "push"
               att == sess[c].attempt + 1
               s == [sess[c] EXCEPT !.cur = tip, !.attempt = att, !.pc = step]
               p == pin[c]  r == repoPin[c]
    <2>1. sess'[c] = s /\ pin'[c] = p /\ repoPin'[c] = r
      BY <1>3 DEF RetryAfterCASLost, TypeOK, disk
    <2>2. /\ s.pc = step /\ s.op = sess[c].op /\ s.cur = tip /\ s.batch = sess[c].batch
          /\ tip \in 0..Len(versions) /\ p \in 0..Len(versions)
      <3> HIDE DEF step, att
      <3>1. QED BY DEF TypeOK, Sessions
    <2>3. /\ s.op = "repack" => step = "ready"
          /\ s.op # "repack" => step = "push" /\ s.batch \in Batches
      <3>1. sess[c].op # "repack" => sess[c].batch \in Batches
        BY DEF RetryAfterCASLost, PinInv, Fine
      <3>2. s.op = sess[c].op /\ s.batch = sess[c].batch
        BY <2>2
      <3> HIDE DEF s
      <3>3. QED BY <3>1, <3>2
    <2>4. Ahead(s, p) /\ SameRepo(s, r)
      <3>1. /\ p # 0 => tip = p \/ Manifest(tip).gen > Manifest(p).gen
            /\ r # 0 /\ tip # 0 => Manifest(tip).repo = r
        BY <1>3, LoadFine
      <3> HIDE DEF s, p, r
      <3>2. QED BY <2>2, <3>1 DEF Ahead, SameRepo
    <2> HIDE DEF s, p, r, step
    <2>5. Fine(s, p, r)
      BY <2>2, <2>3, <2>4 DEF Fine
    <2>6. QED BY <2>1, <2>2, <2>5, FineAfter
  <1>4. QED BY <1>1, <1>2, <1>3

\* The steps of an accept command, which the pins do not bind.
LEMMA FineAccepting ==
    ASSUME TypeOK, PinInv, Next, NEW c \in Clients, Accepting(c)
    PROVE  Fine(sess[c], pin[c], repoPin[c])'
  <1>1. CASE AcceptBegin(c)
    <2>1. /\ sess'[c].op \in Accepts
          /\ sess'[c].pc \in {"clearing", "cleared"}
      BY <1>1 DEF AcceptBegin, TypeOK, Idle, Accepts
    <2>2. QED BY <2>1 DEF Fine
  <1>2. CASE AcceptClearPin(c) \/ AcceptRestorePin(c)
    <2>1. sess[c].op \in Accepts
      BY <1>2 DEF PinInv, Fine, AcceptClearPin, AcceptRestorePin
    <2>2. /\ sess'[c].op = sess[c].op
          /\ sess'[c].pc \in {"cleared", "restoreRepo"}
      BY <1>2 DEF AcceptClearPin, AcceptRestorePin, Goto, TypeOK, Sessions
    <2>3. QED BY <2>1, <2>2 DEF Fine
  <1>3. CASE AcceptLoad(c)
    <2>1. sess[c].op \in Accepts
      BY <1>3 DEF PinInv, Fine, AcceptLoad
    <2>2. CASE tip = 0
      BY <1>3, <2>2, FineEnd DEF AcceptLoad
    <2>3. CASE tip # 0
      <3>1. /\ sess'[c].op = sess[c].op
            /\ sess'[c].pc = "pinGen" /\ sess'[c].cur # 0
        <4>1. sess' = [sess EXCEPT ![c] = [@ EXCEPT !.pc = "pinGen", !.cur = tip]]
          BY <1>3, <2>3 DEF AcceptLoad
        <4>2. QED BY <2>3, <4>1 DEF TypeOK, Sessions
      <3>2. QED BY <2>1, <3>1 DEF Fine
    <2>4. QED BY <2>2, <2>3
  <1>4. CASE AcceptFails(c)
    <2>1. sess[c].op \in Accepts
      BY <1>4 DEF PinInv, Fine, AcceptFails
    <2>2. /\ sess'[c].op = sess[c].op
          /\ sess'[c].pc = "restorePin"
      BY <1>4 DEF AcceptFails, Goto, TypeOK, Sessions
    <2>3. QED BY <2>1, <2>2 DEF Fine
  <1>5. CASE AcceptRestoreRepo(c)
    BY <1>5, FineEnd DEF AcceptRestoreRepo
  <1>6. QED BY <1>1, <1>2, <1>3, <1>4, <1>5 DEF Accepting

\* Every step of a client keeps its own session fine.
LEMMA FineStep ==
    ASSUME TypeOK, TypeOK', PinInv, Next, NEW c \in Clients, ClientStep(c)
    PROVE  Fine(sess[c], pin[c], repoPin[c])'
  <1>1. CASE LocalCommit(c)
    BY <1>1, FineSame DEF LocalCommit
  <1>2. CASE OpenHelper(c)
    BY <1>2, FineOpen DEF OpenHelper
  <1>3. CASE CloseHelper(c) \/ Crash(c)
    BY <1>3, FineEnd DEF CloseHelper, Crash
  <1>4. CASE Fetching(c)
    <2>1. CASE FetchApply(c)
      <3>1. "fetched" \in Steps
        BY DEF Steps
      <3>2. QED BY <2>1, <3>1, FineGoto DEF FetchApply
    <2>2. CASE FetchApplyCut(c)
      BY <2>2, FineEnd DEF FetchApplyCut
    <2>3. CASE FetchVerify(c)
      <3>1. CASE Goto(c, "pinGen")
        <4>1. sess[c].pc = "fetched" /\ sess[c].cur # 0
          BY <2>3 DEF FetchVerify, PinInv, Fine
        <4>2. "pinGen" \in Steps
          BY DEF Steps
        <4>3. QED BY <2>3, <3>1, <4>1, <4>2, FineGoto DEF FetchVerify, disk
      <3>2. CASE End(c, "incomplete")
        BY <3>2, FineEnd
      <3>3. QED BY <2>3, <3>1, <3>2 DEF FetchVerify
    <2>4. QED BY <1>4, <2>1, <2>2, <2>3 DEF Fetching
  <1>5. CASE Saving(c)
    <2>1. CASE MarkApplied(c)
      BY <2>1, FineResolve DEF MarkApplied
    <2>2. QED BY <1>5, <2>1, FineSaveGeneration, FineSaveRepoID DEF Saving
  <1>6. CASE Repacking(c)
    <2>1. CASE OpenRepack(c)
      BY <2>1, FineOpen DEF OpenRepack
    <2>2. CASE RepackFails(c)
      BY <2>2, FineEnd DEF RepackFails
    <2>3. QED BY <1>6, <2>1, <2>2 DEF Repacking
  <1>7. CASE Pushing(c)
    <2>1. CASE BeginPush(c)
      <3>1. PICK batch \in Batches :
               sess' = [sess EXCEPT ![c] = [@ EXCEPT !.pc = "push", !.batch = batch]]
        BY <2>1 DEF BeginPush
      <3> DEFINE s == [sess[c] EXCEPT !.pc = "push", !.batch = batch]
      <3>2. /\ s.pc = "push" /\ s.op = sess[c].op /\ s.cur = sess[c].cur
            /\ s.batch = batch
        BY DEF TypeOK, Sessions
      <3>3. sess'[c] = s
        BY <3>1 DEF TypeOK
      <3> HIDE DEF s
      <3>4. /\ "push" \in Steps /\ sess[c].pc = "ready"
            /\ pin'[c] = pin[c] /\ repoPin'[c] = repoPin[c]
        BY <2>1 DEF Steps, BeginPush, disk
      <3>5. QED BY <3>1, <3>2, <3>3, <3>4, FineMove
    <2>2. CASE PushReject(c)
      BY <2>2, FineResolve DEF PushReject, disk
    <2>3. CASE PushCASLost(c)
      <3>1. Offers(c) # {} /\ Goto(c, "lost")
        BY <2>3 DEF PushCASLost
      <3>2. QED BY <2>3, <3>1, FineLost DEF PushCASLost, disk
    <2>4. CASE PushAnswerLost(c)
      <3>1. CASE Goto(c, "lost")
        <4>1. Offers(c) # {}
          BY <2>4 DEF PushAnswerLost
        <4>2. QED BY <2>4, <3>1, <4>1, FineLost DEF PushAnswerLost, disk
      <3>2. CASE End(c, "none")
        BY <3>2, FineEnd
      <3>3. QED BY <2>4, <3>1, <3>2 DEF PushAnswerLost
    <2>5. CASE PushRefused(c)
      BY <2>5, FineLost DEF PushRefused, disk
    <2>6. QED BY <1>7, <2>1, <2>2, <2>3, <2>4, <2>5, FinePushOK, FineRetry DEF Pushing
  <1>8. CASE Accepting(c)
    BY <1>8, FineAccepting
  <1>9. QED BY <1>1, <1>2, <1>3, <1>4, <1>5, <1>6, <1>7, <1>8 DEF ClientStep

\* Every step of every client and of the host keeps all pins and sessions fine.
LEMMA StepFine ==
    ASSUME TypeOK, TypeOK', PinInv, Next
    PROVE  PinInv'
  <1> SUFFICES ASSUME NEW d \in Clients
               PROVE  Fine(sess[d], pin[d], repoPin[d])'
    BY DEF PinInv
  <1>1. ASSUME NEW c \in Clients, ClientStep(c) PROVE Fine(sess[d], pin[d], repoPin[d])'
    <2>1. CASE c = d
      BY <1>1, <2>1, FineStep
    <2>2. CASE c # d
      BY <1>1, <2>2, OthersKeep, FineSame
    <2>3. QED BY <2>1, <2>2
  <1>2. CASE Restore \/ Wipe
    BY <1>2, FineSame DEF Restore, Wipe, disk
  <1>3. QED BY <1>1, <1>2 DEF Next

\* Nobody has pins or a session to begin with.
LEMMA FineInit == Init => PinInv
  BY DEF Init, PinInv, Fine, Idle

\* Nothing changes when nothing happens.
LEMMA FineStutter ==
    ASSUME PinInv, UNCHANGED vars
    PROVE  PinInv'
  BY DEF PinInv, vars, host, disk, Fine, Ahead, SameRepo, Manifest

\* The inductive invariant of the pins.
LEMMA PinInvariant == Spec => [](TypeOK /\ PinInv)
  <1> DEFINE IInv == TypeOK /\ PinInv
  <1>1. Init => IInv
    BY FineInit, IdleTyped DEF Init, TypeOK
  <1>2. IInv /\ [Next]_vars => IInv'
    <2>1. ASSUME IInv, UNCHANGED vars PROVE IInv'
      <3>1. TypeOK'
        BY <2>1 DEF TypeOK, vars, host, disk
      <3>2. QED BY <2>1, <3>1, FineStutter
    <2>2. QED BY <2>1, StepTyped, StepFine
  <1>3. QED BY <1>1, <1>2, PTL DEF Spec

\* What a session works on is never behind its client's pins, under every fault.
THEOREM AlwaysAhead == Spec => []WorksAheadOfPin
  <1>1. TypeOK /\ PinInv => WorksAheadOfPin
    BY NoBatchIsNone DEF PinInv, Fine, Ahead, SameRepo, WorksAheadOfPin, Loaded
  <1>2. QED BY <1>1, PinInvariant, PTL

\* Outside accept commands the generation pin moves forward and the repository
\* pin only to a repository the client has just created.
LEMMA StepPins ==
    ASSUME TypeOK, PinInv, Next, NEW c \in Clients,
           sess[c].op \notin Accepts, sess'[c].op \notin Accepts
    PROVE  /\ pin'[c] # pin[c] =>
                 pin[c] = 0 \/ Manifest(pin'[c]).gen > Manifest(pin[c]).gen
           /\ repoPin'[c] # repoPin[c] =>
                 \/ repoPin[c] = 0
                 \/ repoPin'[c] = sess[c].cur /\ sess[c].batch # NoBatch
  <1>1. Fine(sess[c], pin[c], repoPin[c])
    BY DEF PinInv
  <1>2. ASSUME NEW d \in Clients, ClientStep(d), d # c
        PROVE  pin'[c] = pin[c] /\ repoPin'[c] = repoPin[c]
    BY <1>2, OthersKeep
  <1>3. CASE SaveGeneration(c)
    <2>1. repoPin'[c] = repoPin[c] /\ pin'[c] = sess[c].cur
      BY <1>3 DEF SaveGeneration, TypeOK
    <2>2. Ahead(sess[c], pin[c])
      BY <1>1, <1>3 DEF Fine, SaveGeneration
    <2>3. QED BY <2>1, <2>2 DEF Ahead
  <1>4. CASE SaveRepoID(c)
    <2>1. pin'[c] = pin[c] /\ repoPin'[c] = Manifest(sess[c].cur).repo
      BY <1>4 DEF SaveRepoID, Loaded, TypeOK
    <2>2. SameRepo(sess[c], repoPin[c]) /\ sess[c].cur # 0
      BY <1>1, <1>4 DEF Fine, SaveRepoID
    <2>3. QED BY <2>1, <2>2, NoBatchIsNone DEF SameRepo
  <1>5. CASE Accepting(c)
    <2>1. CASE AcceptBegin(c)
      <3>1. sess'[c].op \in Accepts
        BY <2>1 DEF AcceptBegin, TypeOK, Idle, Accepts
      <3>2. QED BY <3>1
    <2>2. CASE ~AcceptBegin(c)
      <3>1. sess[c].pc \in {"clearing", "cleared", "restorePin", "restoreRepo"}
        BY <1>5, <2>2 DEF Accepting, AcceptClearPin, AcceptLoad, AcceptFails,
           AcceptRestorePin, AcceptRestoreRepo
      <3>2. QED BY <1>1, <3>1 DEF Fine
    <2>3. QED BY <2>1, <2>2
  <1>6. ASSUME ClientStep(c), ~SaveGeneration(c), ~SaveRepoID(c), ~Accepting(c)
        PROVE  pin'[c] = pin[c] /\ repoPin'[c] = repoPin[c]
    <2>1. CASE LocalCommit(c) \/ OpenHelper(c) \/ CloseHelper(c) \/ Crash(c)
      BY <2>1 DEF LocalCommit, OpenHelper, CloseHelper, Crash, Open, disk
    <2>2. CASE Fetching(c)
      BY <2>2 DEF Fetching, FetchApply, FetchApplyCut, FetchVerify, disk
    <2>3. CASE MarkApplied(c)
      BY <2>3 DEF MarkApplied
    <2>4. CASE Repacking(c)
      BY <2>4 DEF Repacking, OpenRepack, RepackFails, Open, disk
    <2>5. CASE Pushing(c)
      BY <2>5 DEF Pushing, BeginPush, PushReject, PushOK, PushCASLost, PushAnswerLost,
         PushRefused, RetryAfterCASLost, disk
    <2>6. QED BY <1>6, <2>1, <2>2, <2>3, <2>4, <2>5 DEF ClientStep, Saving
  <1>7. CASE Restore \/ Wipe
    BY <1>7 DEF Restore, Wipe, disk
  <1>8. QED BY <1>2, <1>3, <1>4, <1>5, <1>6, <1>7 DEF Next

\* A client's pins never move back, whatever the host serves: the generation pin
\* only to a newer generation, the repository pin only to a repository the client
\* created on a remote that had become empty.
THEOREM PinsNeverMoveBack == Spec => PinsAdvance
  <1>1. TypeOK /\ PinInv /\ [Next]_vars =>
          [\A c \in Clients :
             sess[c].op \notin Accepts /\ sess'[c].op \notin Accepts =>
                /\ pin'[c] # pin[c] =>
                      pin[c] = 0 \/ Manifest(pin'[c]).gen > Manifest(pin[c]).gen
                /\ repoPin'[c] # repoPin[c] =>
                      \/ repoPin[c] = 0
                      \/ repoPin'[c] = sess[c].cur /\ sess[c].batch # NoBatch]_vars
    BY StepPins
  <1>2. QED BY <1>1, PinInvariant, PTL DEF Spec, PinsAdvance

=============================================================================
