-------------------------- MODULE HonestHost_proofs --------------------------
(***************************************************************************)
(* Theorems about CloakSync on an honest host: one that keeps what it      *)
(* stored and never moves its branch back.  Sessions still die anywhere,   *)
(* answers of the host are lost, packs are merged and repacked, and users  *)
(* run accept commands.                                                    *)
(***************************************************************************)
EXTENDS CloakSync_proofs

\* The operator of the host neither restores a backup nor deletes the branch.
Honest == Faults \cap {"restore", "wipe"} = {}

-----------------------------------------------------------------------------
(* How one version follows another *)

\* The commits a clone of the manifest needs.
Needs(man) == ReachAll(Tips(man.refs))

\* Nobody who has seen no version after w can count the pack as applied, or every
\* pack it replaces.
Newer(p, w) == p.id[1] > w /\ (p.replaces = {} \/ \E r \in p.replaces : r[1] > w)

\* p is the pack q of version w, or a later one that nobody who has seen no
\* version after w and lacks q can count as applied or as covered.
StandsFor(p, q, w) ==
    \/ p = q
    \/ /\ p.id[1] > w
       /\ p.replaces = {} \/ \E r \in p.replaces : r = q.id \/ r[1] > w

\* From version w on: what new needs beyond old is in packs newer than w, and what
\* it still needs of a pack of old is in one that stands for it.
Continues(old, w, new) ==
    \A y \in Needs(new) :
        /\ y \notin Needs(old) => \E p \in new.packs : y \in p.objs /\ Newer(p, w)
        /\ \A q \in old.packs : y \in q.objs =>
              \E p \in new.packs : y \in p.objs /\ StandsFor(p, q, w)

\* The same for the version v that was built on base.
Succeeds(base, v, new) ==
    \A y \in Needs(new) :
        /\ y \notin Needs(base) =>
              \E p \in new.packs :
                 /\ y \in p.objs /\ p.id[1] = v
                 /\ p.replaces = {} \/ \E r \in p.replaces : r[1] = v
        /\ \A q \in base.packs : y \in q.objs =>
              \E p \in new.packs :
                 y \in p.objs /\ (p = q \/ (p.id[1] = v /\ q.id \in p.replaces))

\* Every version continues itself.
LEMMA ContinuesItself ==
    ASSUME NEW man, NEW w
    PROVE  Continues(man, w, man)
  BY DEF Continues, StandsFor

\* What continues w goes on doing so when another version is built on it.
LEMMA ContinuesStep ==
    ASSUME NEW old, NEW w \in Nat, NEW base, NEW v \in Nat, NEW new, w < v,
           Continues(old, w, base), Succeeds(base, v, new)
    PROVE  Continues(old, w, new)
  <1> SUFFICES ASSUME NEW y \in Needs(new)
               PROVE  /\ y \notin Needs(old) =>
                            \E p \in new.packs : y \in p.objs /\ Newer(p, w)
                      /\ \A q \in old.packs : y \in q.objs =>
                            \E p \in new.packs : y \in p.objs /\ StandsFor(p, q, w)
    BY DEF Continues
  <1>1. ASSUME y \notin Needs(base)
        PROVE  \E p \in new.packs : y \in p.objs /\ p.id[1] > w
                  /\ (p.replaces = {} \/ \E r \in p.replaces : r[1] > w)
    BY <1>1 DEF Succeeds
  <1>2. ASSUME NEW q \in base.packs, y \in q.objs
        PROVE  \E p \in new.packs :
                  y \in p.objs /\ (p = q \/ (p.id[1] > w /\ q.id \in p.replaces))
    BY <1>2 DEF Succeeds
  <1>3. ASSUME y \notin Needs(old)
        PROVE  \E p \in new.packs : y \in p.objs /\ Newer(p, w)
    <2>1. CASE y \in Needs(base)
      <3>1. PICK q \in base.packs : y \in q.objs /\ Newer(q, w)
        BY <1>3, <2>1 DEF Continues
      <3>2. QED BY <1>2, <3>1 DEF Newer
    <2>2. QED BY <1>1, <2>1 DEF Newer
  <1>4. ASSUME NEW q \in old.packs, y \in q.objs
        PROVE  \E p \in new.packs : y \in p.objs /\ StandsFor(p, q, w)
    <2>1. CASE y \in Needs(base)
      <3>1. PICK b \in base.packs : y \in b.objs /\ StandsFor(b, q, w)
        BY <1>4, <2>1 DEF Continues
      <3>2. QED BY <1>2, <3>1 DEF StandsFor
    <2>2. QED BY <1>1, <2>1 DEF StandsFor
  <1>5. QED BY <1>3, <1>4

-----------------------------------------------------------------------------
(* What an offer is *)

\* What the push of c uploads.
Upload(c, src) ==
    PackRevs(Wants(sess[c].batch, src, Loaded(c).refs, objs[c]), Loaded(c).refs, objs[c])

\* An offer is a repack, a plain push, or a push squashed after a consolidation.
LEMMA OfferCases ==
    ASSUME NEW c \in Clients, NEW offer \in Offers(c)
    PROVE  \/ /\ sess[c].op = "repack"
              /\ HasObjectClosure(Loaded(c), objs[c])
              /\ offer = RepackOffer(c)
           \/ /\ sess[c].op # "repack" /\ sess[c].pc = "push"
              /\ \E src \in Sources(c) : \E new \in BuildPacks(NewVersion, Upload(c, src)) :
                    \/ offer = PlainOffer(c, src, new)
                    \/ \E victims \in SUBSET (Loaded(c).packs \cup new) :
                          offer = SquashOffer(c, PlainOffer(c, src, new), new, victims)
  <1>1. CASE sess[c].op = "repack"
    BY <1>1 DEF Offers
  <1>2. CASE sess[c].op # "repack"
    <2>1. sess[c].pc = "push" /\ \E src \in Sources(c) : offer \in PushOffers(c, src)
      BY <1>2 DEF Offers
    <2>2. PICK src \in Sources(c) : offer \in PushOffers(c, src)
      BY <2>1
    <2>3. PICK new \in BuildPacks(NewVersion, Upload(c, src)) :
             \/ offer = PlainOffer(c, src, new)
             \/ \E victims \in {V \in SUBSET (Loaded(c).packs \cup new) :
                                  \E p, q \in V : p # q} :
                   offer = SquashOffer(c, PlainOffer(c, src, new), new, victims)
      BY <2>2 DEF PushOffers, Upload
    <2>4. QED BY <1>2, <2>1, <2>3
  <1>3. QED BY <1>1, <1>2

\* The packs built for version v are named after it, unlike a merged pack, and
\* replace nothing.
LEMMA BuiltPacks ==
    ASSUME NEW v \in Nat, NEW X, NEW new \in BuildPacks(v, X), NEW p \in new
    PROVE  p.id[1] = v /\ p.id[2] # 0 /\ p.replaces = {}
  <1>1. PICK part \in [X -> 1..MaxSplit] : new = SplitPacks(v, X, part)
    BY DEF BuildPacks
  <1>2. PICK i \in {part[x] : x \in X} : p = [id |-> <<v, i>>,
                                              objs |-> {x \in X : part[x] = i},
                                              replaces |-> {}]
    BY <1>1 DEF SplitPacks
  <1>3. i \in 1..MaxSplit
    BY <1>2
  <1>4. QED BY <1>2, <1>3

\* A plain push keeps the packs it loaded, and what its refs need beyond those is
\* in the packs it built from the client's own store (buildPackRevs, buildPack).
LEMMA PlainShape ==
    ASSUME TypeOK, NEW c \in Clients, NEW src \in Sources(c),
           NEW new \in BuildPacks(NewVersion, Upload(c, src)),
           NEW man, man = PlainOffer(c, src, new).man
    PROVE  /\ man \in Manifests
           /\ man.gen = Loaded(c).gen + 1
           /\ man.repo = IF Loaded(c).repo = 0 THEN NewVersion ELSE Loaded(c).repo
           /\ man.refs = NewRefs(sess[c].batch, src, Loaded(c).refs, objs[c])
           /\ man.packs = Loaded(c).packs \cup new
           /\ man.chain = Loaded(c).chain \cup {NewVersion}
           /\ new \in SUBSET Packs
           /\ Needs(man) \subseteq Needs(Loaded(c)) \cup PackObjs(new)
           /\ PackObjs(new) \subseteq objs[c]
  <1> DEFINE base == Loaded(c)  batch == sess[c].batch  have == objs[c]
             after == NewRefs(batch, src, base.refs, have)
             wants == Wants(batch, src, base.refs, have)
  <1>1. man = NextPushManifest(base, NewVersion, after, new)
    BY DEF PlainOffer
  <1>2. /\ man.refs = after /\ man.packs = base.packs \cup new
        /\ man.chain = base.chain \cup {NewVersion}
    BY <1>1 DEF NextPushManifest
  <1>3. NewVersion \in Nat /\ base \in Manifests /\ base.refs \in RefMaps
    <2>1. NewVersion \in Nat
      BY DEF TypeOK, NewVersion
    <2>2. sess[c].cur \in 0..Len(versions)
      BY DEF TypeOK
    <2>3. base \in Manifests
      BY <2>2, ManifestType DEF Loaded
    <2>4. base.refs \in RefMaps
      BY <2>3 DEF Manifests
    <2>5. QED BY <2>1, <2>3, <2>4
  <1>4. \A r \in Updates(batch) : src[r] \in Commits /\ Reach[src[r]] \subseteq have
    <2>1. have \subseteq Commits
      BY DEF TypeOK
    <2>2. \A r \in Updates(batch) : src[r] \in have /\ Reach[src[r]] \subseteq have
      BY DEF Sources, Complete
    <2>3. QED BY <2>1, <2>2
  <1>5. Resolved(batch, src)
    BY <1>4 DEF Resolved
  <1>6. /\ wants \in SUBSET Commits /\ Tips(after) \subseteq Tips(base.refs) \cup wants
    BY <1>3, <1>5, NewRefsTips
  <1>7. ReachAll(wants) \subseteq have
    BY <1>4 DEF ReachAll, Wants
  <1>8. Upload(c, src) = ReachAll(wants) \ ReachAll(Tips(base.refs) \cap have)
    BY DEF Upload, PackRevs
  <1>9. Upload(c, src) \in SUBSET Commits
    BY <1>6, <1>8, ReachAllCommits
  <1>10. new \in SUBSET Packs /\ PackObjs(new) = Upload(c, src)
    BY <1>3, <1>9, SplitPacksExact
  <1>11. ReachAll(Tips(after)) \subseteq ReachAll(Tips(base.refs)) \cup ReachAll(wants)
    <2>1. ReachAll(Tips(after)) \subseteq ReachAll(Tips(base.refs) \cup wants)
      BY <1>6, ReachAllMonotone
    <2>2. QED BY <2>1, ReachAllUnion
  <1>12. ReachAll(Tips(base.refs) \cap have) \subseteq ReachAll(Tips(base.refs))
    BY ReachAllMonotone
  <1>13. Needs(man) = ReachAll(Tips(after)) /\ Needs(base) = ReachAll(Tips(base.refs))
    BY <1>2 DEF Needs
  <1> HIDE DEF after, wants, base, have
  <1>14. Needs(man) \subseteq Needs(base) \cup PackObjs(new)
    BY <1>8, <1>10, <1>11, <1>12, <1>13
  <1>15. PackObjs(new) \subseteq have
    BY <1>7, <1>8, <1>10
  <1>16. /\ man \in Manifests /\ man.gen = base.gen + 1
         /\ man.repo = IF base.repo = 0 THEN NewVersion ELSE base.repo
    <2>1. after \in RefMaps
      BY <1>3, <1>5, NewRefsTips DEF after, base
    <2>2. QED BY <1>1, <1>3, <1>10, <2>1, NextPushType DEF base
  <1>17. QED BY <1>2, <1>10, <1>14, <1>15, <1>16 DEF base, have, after, batch

\* A squash replaces the victims by one pack that carries what they carried.
LEMMA SquashShape ==
    ASSUME NEW man \in Manifests, NEW v \in Nat, NEW victims \in SUBSET man.packs,
           NEW new, new = Consolidated(man, v, victims)
    PROVE  /\ new.refs = man.refs
           /\ new.packs = (man.packs \ victims) \cup {MergedPack(v, victims)}
           /\ new.chain = {v}
           /\ MergedPack(v, victims).id = <<v, 0>>
           /\ MergedPack(v, victims).objs = PackObjs(victims)
           /\ MergedPack(v, victims).replaces = Ids(victims)
  <1> DEFINE packs == (man.packs \ victims) \cup {MergedPack(v, victims)}  chain == {v}
  <1>1. new = [man EXCEPT !.packs = packs, !.chain = chain]
    BY DEF Consolidated
  <1> HIDE DEF packs, chain
  <1>2. new.refs = man.refs /\ new.packs = packs /\ new.chain = chain
    BY <1>1 DEF Manifests
  <1>3. QED BY <1>2 DEF packs, chain, MergedPack

\* A repack replaces all packs by one that carries what the refs need.
LEMMA RepackShape ==
    ASSUME NEW man \in Manifests, NEW v \in Nat, NEW new, new = RepackManifest(man, v)
    PROVE  /\ new.refs = man.refs /\ new.chain = {v}
           /\ new.packs = {[id |-> <<v, 0>>, objs |-> Needs(man),
                            replaces |-> Ids(man.packs)]}
  <1> DEFINE packs == {[id |-> <<v, 0>>, objs |-> Needs(man), replaces |-> Ids(man.packs)]}
             chain == {v}  gen == man.gen + 1
  <1>1. new = [man EXCEPT !.gen = gen, !.chain = chain, !.packs = packs]
    BY DEF RepackManifest, Needs
  <1> HIDE DEF packs, chain, gen
  <1>2. new.refs = man.refs /\ new.packs = packs /\ new.chain = chain
    BY <1>1 DEF Manifests
  <1>3. QED BY <1>2 DEF packs, chain

\* A plain push succeeds the version it was built on.
LEMMA PlainSucceeds ==
    ASSUME NEW base, NEW v \in Nat, NEW man, NEW new,
           man.packs = base.packs \cup new,
           \A p \in new : p.id[1] = v /\ p.replaces = {},
           Needs(man) \subseteq Needs(base) \cup PackObjs(new)
    PROVE  Succeeds(base, v, man)
  <1> SUFFICES ASSUME NEW y \in Needs(man)
               PROVE  /\ y \notin Needs(base) =>
                            \E p \in man.packs :
                               /\ y \in p.objs /\ p.id[1] = v
                               /\ p.replaces = {} \/ \E r \in p.replaces : r[1] = v
                      /\ \A q \in base.packs : y \in q.objs =>
                            \E p \in man.packs :
                               /\ y \in p.objs
                               /\ p = q \/ (p.id[1] = v /\ q.id \in p.replaces)
    BY DEF Succeeds
  <1>1. y \notin Needs(base) => \E p \in new : y \in p.objs
    BY DEF PackObjs
  <1>2. QED BY <1>1

\* Consolidating a version that succeeds base leaves it a successor.
LEMMA SquashSucceeds ==
    ASSUME NEW base, NEW v \in Nat, NEW man, NEW victims \in SUBSET man.packs,
           NEW merged, NEW new, Succeeds(base, v, man), base.packs \subseteq man.packs,
           new.refs = man.refs, new.packs = (man.packs \ victims) \cup {merged},
           merged.id = <<v, 0>>, merged.objs = PackObjs(victims),
           merged.replaces = Ids(victims)
    PROVE  Succeeds(base, v, new)
  <1> SUFFICES ASSUME NEW y \in Needs(new)
               PROVE  /\ y \notin Needs(base) =>
                            \E p \in new.packs :
                               /\ y \in p.objs /\ p.id[1] = v
                               /\ p.replaces = {} \/ \E r \in p.replaces : r[1] = v
                      /\ \A q \in base.packs : y \in q.objs =>
                            \E p \in new.packs :
                               /\ y \in p.objs
                               /\ p = q \/ (p.id[1] = v /\ q.id \in p.replaces)
    BY DEF Succeeds
  <1>1. y \in Needs(man)
    BY DEF Needs
  <1>2. ASSUME NEW p \in man.packs, y \in p.objs, p \in victims
        PROVE  /\ merged \in new.packs /\ y \in merged.objs
               /\ merged.id[1] = v /\ p.id \in merged.replaces
    BY <1>2 DEF PackObjs, Ids
  <1>3. ASSUME y \notin Needs(base)
        PROVE  \E p \in new.packs :
                  /\ y \in p.objs /\ p.id[1] = v
                  /\ p.replaces = {} \/ \E r \in p.replaces : r[1] = v
    <2>1. PICK p \in man.packs :
             /\ y \in p.objs /\ p.id[1] = v
             /\ p.replaces = {} \/ \E r \in p.replaces : r[1] = v
      BY <1>1, <1>3 DEF Succeeds
    <2>2. CASE p \in victims
      BY <1>2, <2>1, <2>2
    <2>3. CASE p \notin victims
      BY <2>1, <2>3
    <2>4. QED BY <2>2, <2>3
  <1>4. ASSUME NEW q \in base.packs, y \in q.objs
        PROVE  \E p \in new.packs :
                  /\ y \in p.objs
                  /\ p = q \/ (p.id[1] = v /\ q.id \in p.replaces)
    <2>1. CASE q \in victims
      BY <1>2, <1>4, <2>1
    <2>2. CASE q \notin victims
      BY <1>4, <2>2
    <2>3. QED BY <2>1, <2>2
  <1>5. QED BY <1>3, <1>4

\* A repack succeeds the version it was built on.
LEMMA RepackSucceeds ==
    ASSUME NEW base, NEW v \in Nat, NEW new, new.refs = base.refs,
           new.packs = {[id |-> <<v, 0>>, objs |-> Needs(base),
                         replaces |-> Ids(base.packs)]}
    PROVE  Succeeds(base, v, new)
  <1> DEFINE pack == [id |-> <<v, 0>>, objs |-> Needs(base), replaces |-> Ids(base.packs)]
  <1>1. pack \in new.packs /\ pack.objs = Needs(base) /\ pack.id[1] = v
    OBVIOUS
  <1>2. \A q \in base.packs : q.id \in pack.replaces
    BY DEF Ids
  <1>3. Needs(new) = Needs(base)
    BY DEF Needs
  <1> HIDE DEF pack
  <1>4. QED BY <1>1, <1>2, <1>3 DEF Succeeds

-----------------------------------------------------------------------------
(* The history an honest host keeps *)

\* Version v: its generation counts the versions, there is one repository, its
\* backend commit continues only versions up to itself, and its packs were built,
\* and replace packs built, for versions up to it.
Ordered(v, man) ==
    /\ man.gen = v
    /\ man.repo = IF v = 0 THEN 0 ELSE 1
    /\ man.chain \subseteq 1..v
    /\ v # 0 => v \in man.chain
    /\ \A p \in man.packs : p.id[1] \in 1..v /\ \A r \in p.replaces : r[1] \in 1..v

\* The branch points at the last version, and every version continues all before.
HostInv ==
    /\ tip = Len(versions)
    /\ \A v \in 0..tip : Ordered(v, Manifest(v))
    /\ \A v \in 0..tip : \A w \in 0..v : Continues(Manifest(w), w, Manifest(v))

\* The host takes a push, plain or squashed, only from a client that loaded the
\* version its branch points at.
LEMMA TakenMeansLatest ==
    ASSUME TypeOK, HostInv, NEW c \in Clients, NEW offer \in Offers(c)
    PROVE  offer.taken <=> sess[c].cur = tip
  <1> DEFINE cur == sess[c].cur
  <1>1. cur \in 0..tip /\ tip \in Nat
    BY DEF TypeOK, HostInv
  <1>2. Ordered(cur, Loaded(c))
    BY <1>1 DEF HostInv, Loaded
  <1> HIDE DEF cur
  <1>3. (tip = 0 \/ tip \in Loaded(c).chain) <=> cur = tip
    BY <1>1, <1>2 DEF Ordered
  <1>4. FastForwardOk(c) <=> cur = tip
    BY <1>3 DEF FastForwardOk
  <1>5. LeaseOk(c) <=> cur = tip
    BY DEF LeaseOk, cur
  <1>6. offer.taken = FastForwardOk(c) \/ offer.taken = LeaseOk(c)
    <2>1. \A src, new : PlainOffer(c, src, new).taken = FastForwardOk(c)
      BY DEF PlainOffer
    <2>2. \A o, new, victims : SquashOffer(c, o, new, victims).taken = LeaseOk(c)
      BY DEF SquashOffer
    <2>3. RepackOffer(c).taken = LeaseOk(c)
      BY DEF RepackOffer
    <2>4. QED BY <2>1, <2>2, <2>3, OfferCases
  <1>7. QED BY <1>4, <1>5, <1>6 DEF cur

\* A consolidated version is as well ordered as the one it was made from.
LEMMA SquashOrdered ==
    ASSUME NEW v \in Nat \ {0}, NEW man, NEW victims \in SUBSET man.packs, NEW merged,
           NEW new, Ordered(v, man), new.gen = man.gen, new.repo = man.repo,
           new.packs = (man.packs \ victims) \cup {merged}, new.chain = {v},
           merged.id = <<v, 0>>, merged.replaces = Ids(victims)
    PROVE  Ordered(v, new)
  <1>1. merged.id[1] = v
    OBVIOUS
  <1>2. ASSUME NEW r \in merged.replaces PROVE r[1] \in 1..v
    <2>1. PICK p \in victims : r = p.id
      BY DEF Ids
    <2>2. QED BY <2>1 DEF Ordered
  <1>3. ASSUME NEW p \in new.packs
        PROVE  p.id[1] \in 1..v /\ \A r \in p.replaces : r[1] \in 1..v
    BY <1>1, <1>2 DEF Ordered
  <1>4. QED BY <1>3 DEF Ordered

\* A repacked version is as well ordered as the one it was made from.
LEMMA RepackOrdered ==
    ASSUME NEW b \in Nat \ {0}, NEW base, NEW new, NEW pack, Ordered(b, base),
           new.gen = base.gen + 1, new.repo = base.repo,
           new.chain = {b + 1}, new.packs = {pack},
           pack.id = <<b + 1, 0>>, pack.replaces = Ids(base.packs)
    PROVE  Ordered(b + 1, new)
  <1>1. pack.id[1] = b + 1 /\ \A r \in pack.replaces : \E p \in base.packs : r = p.id
    BY DEF Ids
  <1>2. \A r \in pack.replaces : r[1] \in 1..(b + 1)
    BY <1>1 DEF Ordered
  <1>3. QED BY <1>1, <1>2 DEF Ordered

\* What a plain push offers a host whose latest version the client loaded is the
\* next version of the same history.
LEMMA PlainContinues ==
    ASSUME TypeOK, HostInv, NEW c \in Clients, sess[c].cur = tip, NEW src \in Sources(c),
           NEW new \in BuildPacks(NewVersion, Upload(c, src)),
           NEW man, man = PlainOffer(c, src, new).man
    PROVE  /\ Ordered(NewVersion, man)
           /\ Succeeds(Loaded(c), NewVersion, man)
  <1> DEFINE base == Loaded(c)  v == NewVersion
  <1>1. v = tip + 1 /\ tip \in Nat /\ v \in Nat
    BY DEF TypeOK, HostInv, NewVersion
  <1>2. Ordered(tip, base)
    BY <1>1 DEF HostInv, Loaded
  <1>3. /\ man.gen = base.gen + 1
        /\ man.repo = IF base.repo = 0 THEN v ELSE base.repo
        /\ man.packs = base.packs \cup new
        /\ man.chain = base.chain \cup {v}
        /\ Needs(man) \subseteq Needs(base) \cup PackObjs(new)
    BY PlainShape
  <1>4. \A p \in new : p.id[1] = v /\ p.replaces = {}
    BY <1>1, BuiltPacks
  <1> HIDE DEF v, base
  <1>5. ASSUME NEW p \in man.packs
        PROVE  p.id[1] \in 1..v /\ \A r \in p.replaces : r[1] \in 1..v
    <2>1. CASE p \in new
      BY <1>1, <1>4, <2>1
    <2>2. CASE p \in base.packs
      BY <1>1, <1>2, <2>2 DEF Ordered
    <2>3. QED BY <1>3, <2>1, <2>2
  <1>6. Ordered(v, man)
    BY <1>1, <1>2, <1>3, <1>5 DEF Ordered
  <1>7. Succeeds(base, v, man)
    BY <1>1, <1>3, <1>4, PlainSucceeds
  <1>8. QED BY <1>6, <1>7 DEF v, base

\* So is whatever else an honest host is offered by a client that loaded its
\* latest version.
LEMMA OfferContinues ==
    ASSUME TypeOK, PinInv, HostInv, NEW c \in Clients, NEW offer \in Offers(c),
           sess[c].cur = tip
    PROVE  /\ Ordered(NewVersion, offer.man)
           /\ Succeeds(Loaded(c), NewVersion, offer.man)
  <1> DEFINE base == Loaded(c)  v == NewVersion
  <1>1. v = tip + 1 /\ tip \in Nat /\ v \in Nat \ {0} /\ base \in Manifests
    BY ManifestType DEF TypeOK, HostInv, NewVersion, Loaded
  <1>2. Ordered(tip, base)
    BY <1>1 DEF HostInv, Loaded
  <1>3. CASE sess[c].op = "repack" /\ offer = RepackOffer(c)
    <2> DEFINE man == offer.man
               pack == [id |-> <<v, 0>>, objs |-> Needs(base), replaces |-> Ids(base.packs)]
    <2>1. man = RepackManifest(base, v) /\ tip # 0
      BY <1>3, OfferFrom DEF RepackOffer
    <2>2. man.gen = base.gen + 1 /\ man.repo = base.repo
      BY <1>1, <2>1, RepackWhole
    <2> HIDE DEF man, v, base
    <2>3. man.refs = base.refs /\ man.chain = {v} /\ man.packs = {pack}
      BY <1>1, <2>1, RepackShape
    <2>4. Succeeds(base, v, man)
      BY <1>1, <2>3, RepackSucceeds
    <2>5. pack.id = <<v, 0>> /\ pack.replaces = Ids(base.packs)
      OBVIOUS
    <2> HIDE DEF pack
    <2>6. Ordered(v, man)
      BY <1>1, <1>2, <2>1, <2>2, <2>3, <2>5, RepackOrdered
    <2>7. QED BY <2>4, <2>6 DEF man, v, base
  <1>4. ASSUME NEW src \in Sources(c), NEW new \in BuildPacks(NewVersion, Upload(c, src)),
               NEW victims \in SUBSET (Loaded(c).packs \cup new),
               offer = SquashOffer(c, PlainOffer(c, src, new), new, victims)
        PROVE  Ordered(v, offer.man) /\ Succeeds(base, v, offer.man)
    <2> DEFINE plain == PlainOffer(c, src, new).man  man == offer.man
               merged == MergedPack(v, victims)
    <2>0. man = Consolidated(plain, NewVersion, victims)
      BY <1>4, ZenonT(60) DEF SquashOffer
    <2>1. /\ plain \in Manifests /\ victims \in SUBSET plain.packs
          /\ base.packs \subseteq plain.packs
          /\ Ordered(v, plain) /\ Succeeds(base, v, plain)
      BY PlainShape, PlainContinues
    <2>2. man = Consolidated(plain, v, victims)
      BY <2>0
    <2> HIDE DEF plain, man, v, base
    <2>3. man.gen = plain.gen /\ man.repo = plain.repo
      BY <1>1, <2>1, <2>2, ConsolidatedExact
    <2>4. /\ man.refs = plain.refs /\ man.chain = {v}
          /\ man.packs = (plain.packs \ victims) \cup {merged}
          /\ merged.id = <<v, 0>> /\ merged.objs = PackObjs(victims)
          /\ merged.replaces = Ids(victims)
      BY <1>1, <2>1, <2>2, SquashShape
    <2> HIDE DEF merged
    <2>5. Ordered(v, man)
      BY <1>1, <2>1, <2>3, <2>4, SquashOrdered
    <2>6. Succeeds(base, v, man)
      BY <1>1, <2>1, <2>4, SquashSucceeds
    <2>7. QED BY <2>5, <2>6 DEF man
  <1>5. ASSUME NEW src \in Sources(c), NEW new \in BuildPacks(NewVersion, Upload(c, src)),
               offer = PlainOffer(c, src, new)
        PROVE  Ordered(v, offer.man) /\ Succeeds(base, v, offer.man)
    BY <1>5, PlainContinues
  <1>6. QED BY <1>3, <1>4, <1>5, OfferCases

\* An honest host stores one more version of the same history.
LEMMA StoreContinues ==
    ASSUME TypeOK, HostInv, NEW man \in Manifests, HostTakes(man),
           Ordered(NewVersion, man), Succeeds(Manifest(tip), NewVersion, man)
    PROVE  HostInv'
  <1>0. PICK n, old : n = NewVersion /\ old = tip
    OBVIOUS
  <1>1. /\ versions' \in Seq(Manifests) /\ Len(versions') = n /\ tip' = n
        /\ versions'[n] = man /\ \A v \in 1..Len(versions) : versions'[v] = versions[v]
    BY <1>0, StoreVersion
  <1>2. n = old + 1 /\ old \in Nat /\ old = Len(versions)
    BY <1>0 DEF TypeOK, HostInv, NewVersion
  <1>3. Manifest(n)' = man
    BY <1>1, <1>2 DEF Manifest
  <1>4. \A v \in 0..old : Manifest(v)' = Manifest(v)
    BY <1>1, <1>2 DEF Manifest
  <1>5. ASSUME NEW v \in 0..n PROVE Ordered(v, Manifest(v)')
    <2>1. CASE v = n
      BY <1>0, <1>3, <2>1
    <2>2. CASE v \in 0..old
      BY <1>0, <1>4, <2>2 DEF HostInv
    <2>3. QED BY <1>2, <2>1, <2>2
  <1>6. ASSUME NEW v \in 0..n, NEW w \in 0..v
        PROVE  Continues(Manifest(w)', w, Manifest(v)')
    <2>1. CASE w = v
      BY <2>1, ContinuesItself
    <2>2. CASE v \in 0..old
      <3>1. w \in 0..old
        BY <1>2, <2>2
      <3>2. QED BY <1>0, <1>4, <2>2, <3>1 DEF HostInv
    <2>3. CASE v = n /\ w # n
      <3>1. w \in 0..old /\ w \in Nat /\ n \in Nat /\ w < n
        BY <1>2, <2>3
      <3>2. Continues(Manifest(w), w, Manifest(old))
        BY <1>0, <1>2, <3>1 DEF HostInv
      <3>3. Continues(Manifest(w), w, man)
        BY <3>1, <3>2, <1>0, ContinuesStep
      <3>4. QED BY <1>3, <1>4, <2>3, <3>1, <3>3
    <2>4. QED BY <1>2, <2>1, <2>2, <2>3
  <1>7. QED BY <1>1, <1>5, <1>6 DEF HostInv

\* Every step under an honest host keeps its history.
LEMMA StepHost ==
    ASSUME Honest, TypeOK, PinInv, HostInv, Next
    PROVE  HostInv'
  <1>1. ASSUME NEW c \in Clients, NEW offer \in Offers(c), offer.taken,
               HostTakes(offer.man)
        PROVE  HostInv'
    <2>1. sess[c].cur = tip
      BY <1>1, TakenMeansLatest
    <2>2. Loaded(c) = Manifest(tip) /\ offer.man \in Manifests
      BY <2>1, OfferSound DEF Loaded
    <2>3. QED BY <1>1, <2>1, <2>2, OfferContinues, StoreContinues
  <1>2. CASE \E c \in Clients : PushOK(c) \/ PushAnswerLost(c)
    BY <1>1, <1>2 DEF PushOK, PushAnswerLost
  <1>3. CASE UNCHANGED host
    BY <1>3 DEF host, HostInv, Manifest
  <1>4. CASE ~ \E c \in Clients : PushOK(c) \/ PushAnswerLost(c)
    <2>1. UNCHANGED host
      BY <1>4 DEF Next, ClientStep, Fetching, Saving, Pushing, Repacking, Accepting,
         LocalCommit, OpenHelper, Open, CloseHelper, Crash, FetchApply, FetchApplyCut,
         FetchVerify, SaveGeneration, SaveRepoID, MarkApplied, BeginPush, PushReject,
         PushCASLost, PushRefused, RetryAfterCASLost, OpenRepack, RepackFails,
         AcceptBegin, AcceptClearPin, AcceptLoad, AcceptFails, AcceptRestorePin,
         AcceptRestoreRepo, Restore, Wipe, host, Honest
    <2>2. QED BY <1>3, <2>1
  <1>5. QED BY <1>2, <1>4

\* The inductive invariant of an honest host.
LEMMA HostInvariant ==
    ASSUME Honest PROVE Spec => [](TypeOK /\ PinInv /\ HostInv)
  <1>1. Init => HostInv
    <2>1. ASSUME Init PROVE HostInv
      <3>1. tip = 0 /\ Len(versions) = 0 /\ Manifest(0) = EmptyManifest
        BY <2>1 DEF Init, Manifest
      <3>2. Ordered(0, EmptyManifest)
        BY DEF Ordered, EmptyManifest
      <3>3. QED BY <3>1, <3>2, ContinuesItself DEF HostInv
    <2>2. QED BY <2>1
  <1>2. TypeOK /\ PinInv /\ HostInv /\ [Next]_vars => HostInv'
    <2>1. ASSUME HostInv, UNCHANGED vars PROVE HostInv'
      BY <2>1 DEF HostInv, Manifest, vars, host
    <2>2. QED BY <2>1, StepHost
  <1>3. QED BY <1>1, <1>2, PinInvariant, PTL DEF Spec

\* An honest host never moves its branch back.
LEMMA TipGrows ==
    ASSUME TypeOK, HostInv, HostInv', Next
    PROVE  tip \in Nat /\ tip' \in Nat /\ tip <= tip'
  <1>1. tip = Len(versions) /\ tip' = Len(versions') /\ tip \in Nat
    BY DEF TypeOK, HostInv
  <1>2. ASSUME NEW c \in Clients, NEW offer \in Offers(c), HostTakes(offer.man)
        PROVE  Len(versions') = Len(versions) + 1
    BY <1>2, OfferSound, StoreVersion DEF NewVersion
  <1>3. QED BY <1>1, <1>2, StepVersions

-----------------------------------------------------------------------------
(* What becomes of a session *)

\* A session that only moves on keeps all it knows.
LEMMA GotoKeeps ==
    ASSUME TypeOK, NEW c \in Clients, NEW p, Goto(c, p)
    PROVE  /\ sess'[c].pc = p
           /\ sess'[c].op = sess[c].op /\ sess'[c].cur = sess[c].cur
           /\ sess'[c].batch = sess[c].batch /\ sess'[c].mark = sess[c].mark
           /\ sess'[c].saved = sess[c].saved /\ sess'[c].alarm = sess[c].alarm
  BY DEF Goto, TypeOK, Sessions

\* A session that ends forgets all it knew.
LEMMA EndKeeps ==
    ASSUME TypeOK, NEW c \in Clients, NEW r, End(c, r)
    PROVE  /\ sess'[c].pc = "idle" /\ sess'[c].cur = 0 /\ sess'[c].batch = NoBatch
           /\ sess'[c].mark = {} /\ sess'[c].saved = NoPins /\ sess'[c].alarm = r
  BY DEF End, Idle, TypeOK

\* A session whose request is carried out ends, or keeps what it loaded.
LEMMA ResolveKeeps ==
    ASSUME TypeOK, NEW c \in Clients, Resolve(c)
    PROVE  /\ \/ sess'[c].pc = "idle" /\ sess'[c].cur = 0
              \/ sess'[c].pc = "ready" /\ sess'[c].cur = sess[c].cur
           /\ sess'[c].batch = NoBatch /\ sess'[c].mark = {}
           /\ sess'[c].saved = NoPins /\ sess'[c].alarm = "none"
  <1> DEFINE s == Idle("none")  cur == sess[c].cur
  <1>1. /\ s.pc = "idle" /\ s.cur = 0 /\ s.batch = NoBatch /\ s.mark = {}
        /\ s.saved = NoPins /\ s.alarm = "none" /\ s \in Sessions
    BY IdleTyped DEF Idle
  <1>2. sess' = [sess EXCEPT ![c] = s] \/ sess' = [sess EXCEPT ![c] = [s EXCEPT !.pc = "ready", !.cur = cur]]
    BY DEF Resolve, End
  <1> HIDE DEF s, cur
  <1>3. \/ sess'[c] = s
        \/ sess'[c] = [s EXCEPT !.pc = "ready", !.cur = cur]
    BY <1>2 DEF TypeOK
  <1>4. QED BY <1>1, <1>3 DEF Sessions, cur

\* A session that opens has loaded the branch, or ends with the alarm.
LEMMA OpenKeeps ==
    ASSUME TypeOK, NEW c \in Clients, NEW command, Open(c, command)
    PROVE  /\ \/ /\ sess'[c].pc = "ready" /\ sess'[c].cur = tip
                 /\ sess'[c].alarm = "none"
              \/ /\ sess'[c].pc = "idle" /\ sess'[c].alarm = LoadRemoteState(c)
                 /\ LoadRemoteState(c) # "ok"
           /\ sess'[c].batch = NoBatch /\ sess'[c].mark = {}
           /\ sess'[c].saved = NoPins
  <1> DEFINE s == Idle("none")
  <1>1. CASE LoadRemoteState(c) # "ok"
    BY <1>1, EndKeeps DEF Open
  <1>2. CASE LoadRemoteState(c) = "ok"
    <2>1. /\ s.batch = NoBatch /\ s.mark = {}
          /\ s.saved = NoPins /\ s.alarm = "none" /\ s \in Sessions
      BY IdleTyped DEF Idle
    <2>2. sess' = [sess EXCEPT ![c] = [s EXCEPT !.op = command, !.pc = "ready", !.cur = tip]]
      BY <1>2 DEF Open
    <2> HIDE DEF s
    <2>3. QED BY <2>1, <2>2 DEF TypeOK, Sessions
  <1>3. QED BY <1>1, <1>2

\* A session that retries has loaded the branch again, or ends.
LEMMA RetryKeeps ==
    ASSUME TypeOK, NEW c \in Clients, RetryAfterCASLost(c)
    PROVE  \/ /\ sess'[c].pc \in {"ready", "push"} /\ sess'[c].cur = tip
              /\ sess'[c].batch = sess[c].batch /\ sess'[c].mark = sess[c].mark
              /\ sess'[c].saved = sess[c].saved /\ sess'[c].alarm = sess[c].alarm
           \/ End(c, "none")
           \/ LoadRemoteState(c) # "ok" /\ End(c, LoadRemoteState(c))
  <1> DEFINE step == IF sess[c].op = "repack" THEN "ready" ELSE "push"
             att == sess[c].attempt + 1
  <1>1. CASE sess' = [sess EXCEPT ![c] = [@ EXCEPT !.cur = tip, !.attempt = att,
                                                  !.pc = step]]
    <2>1. step \in {"ready", "push"}
      OBVIOUS
    <2> HIDE DEF step, att
    <2>2. /\ sess'[c].pc = step /\ sess'[c].cur = tip
          /\ sess'[c].batch = sess[c].batch /\ sess'[c].mark = sess[c].mark
          /\ sess'[c].saved = sess[c].saved /\ sess'[c].alarm = sess[c].alarm
      BY <1>1 DEF TypeOK, Sessions
    <2>3. QED BY <2>1, <2>2
  <1>2. CASE LoadRemoteState(c) # "ok" \/ sess[c].attempt = PushRetries
    BY <1>2 DEF RetryAfterCASLost
  <1>3. QED BY <1>1, <1>2 DEF RetryAfterCASLost

\* A session whose push the host took goes on to save the pins.
LEMMA PushOKKeeps ==
    ASSUME TypeOK, NEW c \in Clients, PushOK(c)
    PROVE  /\ sess'[c].pc = "pinGen" /\ sess'[c].cur = NewVersion
           /\ sess'[c].op = sess[c].op /\ sess'[c].batch = sess[c].batch
           /\ sess'[c].saved = sess[c].saved /\ sess'[c].alarm = sess[c].alarm
           /\ \E offer \in Offers(c) :
                 offer.taken /\ HostTakes(offer.man) /\ sess'[c].mark = offer.mark
  <1>1. PICK offer \in Offers(c) :
           /\ offer.taken /\ HostTakes(offer.man)
           /\ sess' = [sess EXCEPT ![c] = [@ EXCEPT !.pc = "pinGen",
                              !.cur = NewVersion, !.mark = offer.mark]]
    BY DEF PushOK
  <1> DEFINE v == NewVersion  mark == offer.mark
  <1>2. sess' = [sess EXCEPT ![c] = [@ EXCEPT !.pc = "pinGen", !.cur = v, !.mark = mark]]
    BY <1>1
  <1> HIDE DEF v, mark
  <1>3. /\ sess'[c].pc = "pinGen" /\ sess'[c].cur = v /\ sess'[c].mark = mark
        /\ sess'[c].op = sess[c].op /\ sess'[c].batch = sess[c].batch
        /\ sess'[c].saved = sess[c].saved /\ sess'[c].alarm = sess[c].alarm
    BY <1>2 DEF TypeOK, Sessions
  <1>4. QED BY <1>1, <1>3 DEF v, mark

\* A session that is handed a batch pushes it.
LEMMA BeginPushKeeps ==
    ASSUME TypeOK, NEW c \in Clients, BeginPush(c)
    PROVE  /\ sess'[c].pc = "push" /\ sess'[c].batch \in Batches
           /\ sess'[c].op = sess[c].op /\ sess'[c].cur = sess[c].cur
           /\ sess'[c].mark = sess[c].mark
           /\ sess'[c].saved = sess[c].saved /\ sess'[c].alarm = sess[c].alarm
  <1>1. PICK batch \in Batches :
           sess' = [sess EXCEPT ![c] = [@ EXCEPT !.pc = "push", !.batch = batch]]
    BY DEF BeginPush
  <1>2. /\ sess'[c].pc = "push" /\ sess'[c].batch = batch
        /\ sess'[c].op = sess[c].op /\ sess'[c].cur = sess[c].cur
        /\ sess'[c].mark = sess[c].mark
        /\ sess'[c].saved = sess[c].saved /\ sess'[c].alarm = sess[c].alarm
    BY <1>1 DEF TypeOK, Sessions
  <1>3. QED BY <1>2

\* A session that begins an accept command has saved the pins.
LEMMA AcceptBeginKeeps ==
    ASSUME TypeOK, NEW c \in Clients, AcceptBegin(c)
    PROVE  /\ sess'[c].pc \in {"clearing", "cleared"} /\ sess'[c].cur = 0
           /\ sess'[c].batch = NoBatch /\ sess'[c].mark = {}
           /\ sess'[c].saved.pin = pin[c] /\ sess'[c].saved.repo = repoPin[c]
           /\ sess'[c].alarm = "none"
           /\ sess'[c].pc = "cleared" => pin'[c] = 0 /\ repoPin'[c] = repoPin[c]
           /\ sess'[c].pc = "clearing" => pin'[c] = pin[c] /\ repoPin'[c] = 0
  <1> DEFINE keep == [pin |-> pin[c], repo |-> repoPin[c]]
  <1>1. PICK command \in Accepts :
           /\ sess' = [sess EXCEPT ![c] =
                         [Idle("none") EXCEPT !.op = command,
                            !.pc = IF command = "accept-rollback" THEN "cleared"
                                   ELSE "clearing",
                            !.saved = keep]]
           /\ IF command = "accept-rollback"
              THEN pin' = [pin EXCEPT ![c] = 0] /\ UNCHANGED repoPin
              ELSE repoPin' = [repoPin EXCEPT ![c] = 0] /\ UNCHANGED pin
    BY DEF AcceptBegin
  <1>2. keep.pin = pin[c] /\ keep.repo = repoPin[c]
    OBVIOUS
  <1> HIDE DEF keep
  <1>3. /\ sess'[c].pc = IF command = "accept-rollback" THEN "cleared" ELSE "clearing"
        /\ sess'[c].cur = 0 /\ sess'[c].batch = NoBatch /\ sess'[c].mark = {}
        /\ sess'[c].saved = keep /\ sess'[c].alarm = "none"
    BY <1>1 DEF TypeOK, Idle
  <1>4. /\ command = "accept-rollback" => pin'[c] = 0 /\ repoPin'[c] = repoPin[c]
        /\ command # "accept-rollback" => pin'[c] = pin[c] /\ repoPin'[c] = 0
    BY <1>1 DEF TypeOK
  <1>5. QED BY <1>2, <1>3, <1>4

\* An accept command that could load the branch goes on to pin it, or ends.
LEMMA AcceptLoadKeeps ==
    ASSUME TypeOK, NEW c \in Clients, AcceptLoad(c)
    PROVE  \/ End(c, "none")
           \/ /\ sess'[c].pc = "pinGen" /\ sess'[c].cur = tip /\ tip # 0
              /\ sess'[c].batch = sess[c].batch /\ sess'[c].mark = sess[c].mark
              /\ sess'[c].saved = sess[c].saved /\ sess'[c].alarm = sess[c].alarm
  <1>1. CASE tip = 0
    BY <1>1 DEF AcceptLoad
  <1>2. CASE sess' = [sess EXCEPT ![c] = [@ EXCEPT !.pc = "pinGen", !.cur = tip]] /\ tip # 0
    BY <1>2 DEF TypeOK, Sessions
  <1>3. QED BY <1>1, <1>2 DEF AcceptLoad

\* An accept command that could not goes on to put the pins back.
LEMMA AcceptFailsKeeps ==
    ASSUME TypeOK, NEW c \in Clients, AcceptFails(c)
    PROVE  /\ sess'[c].pc = "restorePin" /\ sess'[c].cur = sess[c].cur
           /\ sess'[c].batch = sess[c].batch /\ sess'[c].mark = sess[c].mark
           /\ sess'[c].saved = sess[c].saved
           /\ \/ sess'[c].alarm = sess[c].alarm
              \/ sess'[c].alarm = LoadRemoteState(c) /\ LoadRemoteState(c) # "ok"
  <1>1. CASE Goto(c, "restorePin")
    BY <1>1, GotoKeeps
  <1>2. CASE ~Goto(c, "restorePin")
    BY <1>2 DEF AcceptFails, TypeOK, Sessions
  <1>3. QED BY <1>1, <1>2

-----------------------------------------------------------------------------
(* Losing a compare-and-swap *)

\* The branch has moved on since a session that lost loaded it.
LostInv == \A c \in Clients : sess[c].pc = "lost" => sess[c].cur < tip

\* A session that waits to retry did so before, or has just lost, unless answers
\* of the host are mistaken.
LEMMA LostAfter ==
    ASSUME TypeOK, "network" \notin Faults, NEW c \in Clients, ClientStep(c),
           sess'[c].pc = "lost"
    PROVE  sess'[c] = sess[c] \/ PushCASLost(c)
  <1>1. CASE LocalCommit(c)
    BY <1>1 DEF LocalCommit
  <1>2. CASE OpenHelper(c) \/ CloseHelper(c) \/ Crash(c) \/ Repacking(c)
    BY <1>2, OpenKeeps, EndKeeps
    DEF OpenHelper, CloseHelper, Crash, Repacking, OpenRepack, RepackFails
  <1>3. CASE Fetching(c)
    BY <1>3, GotoKeeps, EndKeeps DEF Fetching, FetchApply, FetchApplyCut, FetchVerify
  <1>4. CASE Saving(c)
    BY <1>4, GotoKeeps, ResolveKeeps DEF Saving, SaveGeneration, SaveRepoID, MarkApplied
  <1>5. CASE Accepting(c)
    BY <1>5, AcceptBeginKeeps, AcceptLoadKeeps, AcceptFailsKeeps, GotoKeeps, EndKeeps
    DEF Accepting, AcceptClearPin, AcceptRestorePin, AcceptRestoreRepo
  <1>6. CASE Pushing(c)
    BY <1>6, BeginPushKeeps, ResolveKeeps, PushOKKeeps, RetryKeeps, EndKeeps
    DEF Pushing, PushReject, PushAnswerLost, PushRefused
  <1>7. QED BY <1>1, <1>2, <1>3, <1>4, <1>5, <1>6 DEF ClientStep

\* Every step keeps a lost session behind the branch.
LEMMA StepLost ==
    ASSUME Honest, "network" \notin Faults, TypeOK, HostInv, HostInv', LostInv, Next
    PROVE  LostInv'
  <1> SUFFICES ASSUME NEW d \in Clients, sess'[d].pc = "lost"
               PROVE  sess'[d].cur < tip'
    BY DEF LostInv
  <1>1. tip \in Nat /\ tip' \in Nat /\ tip <= tip' /\ sess[d].cur \in 0..tip
    BY TipGrows DEF HostInv, TypeOK
  <1>2. CASE sess'[d] = sess[d]
    BY <1>1, <1>2 DEF LostInv
  <1>3. ASSUME NEW c \in Clients, ClientStep(c), c # d PROVE sess'[d] = sess[d]
    BY <1>3, OthersKeep
  <1>4. CASE PushCASLost(d)
    <2>1. sess[d].cur # tip
      BY <1>4, TakenMeansLatest DEF PushCASLost
    <2>2. sess'[d].cur = sess[d].cur
      BY <1>4 DEF PushCASLost, Goto, TypeOK, Sessions
    <2>3. QED BY <1>1, <2>1, <2>2
  <1>5. CASE Restore \/ Wipe
    BY <1>5 DEF Restore, Wipe, Honest
  <1>6. QED BY <1>2, <1>3, <1>4, <1>5, LostAfter DEF Next

\* On an honest host whose answers arrive, a client loses its compare-and-swap
\* only to a newer generation: every retry has something new to plan against, and
\* plain pushes and squashes never fight over a branch that does not move.
THEOREM LosesOnlyToNewer ==
    ASSUME Honest, "network" \notin Faults
    PROVE  Spec => []LostToNewer
  <1>1. Init => LostInv
    BY DEF Init, LostInv, Idle
  <1>2. TypeOK /\ PinInv /\ HostInv /\ HostInv' /\ LostInv /\ [Next]_vars => LostInv'
    <2>1. ASSUME LostInv, UNCHANGED vars PROVE LostInv'
      BY <2>1 DEF LostInv, vars, host
    <2>2. QED BY <2>1, StepLost
  <1>3. TypeOK /\ HostInv /\ LostInv => LostToNewer
    <2> SUFFICES ASSUME TypeOK, HostInv, LostInv, NEW c \in Clients, sess[c].pc = "lost"
                 PROVE  Manifest(tip).gen > Loaded(c).gen
      BY DEF LostToNewer
    <2>1. sess[c].cur \in 0..tip /\ tip \in 0..tip /\ sess[c].cur < tip
      BY DEF TypeOK, HostInv, LostInv
    <2>2. Manifest(tip).gen = tip /\ Loaded(c).gen = sess[c].cur
      BY <2>1 DEF HostInv, Ordered, Loaded
    <2>3. QED BY <2>1, <2>2
  <1>4. QED BY <1>1, <1>2, <1>3, HostInvariant, PTL DEF Spec

-----------------------------------------------------------------------------
(* The remote is a register *)

\* The register and the engine speak of the same batches and ref maps.
LEMMA SameWords ==
    /\ Register!Batches = Batches /\ Register!RefMaps = RefMaps
    /\ Register!NoRefs = NoRefs /\ Register!Nothing = NoBatch
    /\ \A x, y : Register!IsAncestor(x, y) <=> IsAncestor(x, y)
  BY DEF Register!Batches, Batches, Register!Kinds, Kinds, Register!RefMaps, RefMaps,
     Register!NoRefs, NoRefs, Register!Nothing, NoBatch, Register!IsAncestor, IsAncestor

\* What a batch makes of the refs is what each of its requests may make of its
\* ref, and it leaves every other ref alone (planBatch, applyAccepted).
LEMMA AcceptedMoves ==
    ASSUME NEW batch \in Batches, NEW src, Resolved(batch, src),
           NEW refs \in RefMaps, NEW have, NEW after,
           after = NewRefs(batch, src, refs, have), NEW r \in Refs, after[r] # refs[r]
    PROVE  r \in DOMAIN batch /\ Register!MayMove(batch[r], refs[r], after[r])
  <1> DEFINE A == Accepted(batch, src, refs, have)
  <1>1. PICK D \in (SUBSET Refs) \ {{}} : batch \in [D -> Kinds]
    BY DEF Batches
  <1>2. r \in A \cap Deletes(batch) \/ r \in A \cap Updates(batch)
    BY DEF NewRefs
  <1>3. CASE r \in A \cap Deletes(batch)
    <2>1. r \in DOMAIN batch /\ batch[r] = "delete"
      BY <1>3 DEF Deletes
    <2>2. after[r] = NoCommit
      BY <1>3 DEF NewRefs, Updates
    <2>3. QED BY <2>1, <2>2 DEF Register!MayMove
  <1>4. CASE r \in A \cap Updates(batch)
    <2>1. r \in DOMAIN batch /\ batch[r] \in {"update", "force"} /\ src[r] \in Commits
      BY <1>1, <1>4 DEF Updates, Deletes, Kinds, Resolved
    <2>2. after[r] = src[r]
      BY <1>4 DEF NewRefs, Updates
    <2>3. r \notin Deletes(batch)
      BY <1>4 DEF Updates
    <2>4. \/ FastForwardExempt(batch[r], refs[r], src[r])
          \/ IsAncestor(refs[r], src[r])
      BY <1>4, <2>3 DEF Accepted
    <2>5. CASE batch[r] = "force"
      BY <2>1, <2>2, <2>5 DEF Register!MayMove
    <2>6. CASE batch[r] = "update"
      <3>1. refs[r] = NoCommit \/ IsAncestor(refs[r], src[r])
        BY <2>2, <2>4, <2>6 DEF FastForwardExempt
      <3>2. QED BY <2>1, <2>2, <2>6, <3>1, SameWords DEF Register!MayMove
    <2>7. QED BY <2>1, <2>5, <2>6
  <1>5. QED BY <1>2, <1>3, <1>4

\* Whatever a session offers, plain or squashed, moves the refs it loaded as its
\* batch asks; a repack moves none.
LEMMA OfferMoves ==
    ASSUME TypeOK, PinInv, NEW c \in Clients, NEW offer \in Offers(c), NEW r \in Refs,
           offer.man.refs[r] # Loaded(c).refs[r]
    PROVE  /\ r \in DOMAIN sess[c].batch
           /\ Register!MayMove(sess[c].batch[r], Loaded(c).refs[r], offer.man.refs[r])
  <1>1. Loaded(c) \in Manifests /\ NewVersion \in Nat
    BY ManifestType DEF TypeOK, Loaded, NewVersion
  <1>2. offer # RepackOffer(c)
    <2>1. RepackManifest(Loaded(c), NewVersion).refs = Loaded(c).refs
      BY <1>1, RepackShape
    <2>2. RepackOffer(c).man = RepackManifest(Loaded(c), NewVersion)
      BY DEF RepackOffer
    <2>3. QED BY <2>1, <2>2
  <1>3. PICK src \in Sources(c) : \E new \in BuildPacks(NewVersion, Upload(c, src)) :
           \/ offer = PlainOffer(c, src, new)
           \/ \E victims \in SUBSET (Loaded(c).packs \cup new) :
                 offer = SquashOffer(c, PlainOffer(c, src, new), new, victims)
    BY <1>2, OfferCases
  <1>4. PICK new \in BuildPacks(NewVersion, Upload(c, src)) :
           \/ offer = PlainOffer(c, src, new)
           \/ \E victims \in SUBSET (Loaded(c).packs \cup new) :
                 offer = SquashOffer(c, PlainOffer(c, src, new), new, victims)
    BY <1>3
  <1> DEFINE plain == PlainOffer(c, src, new).man
  <1>5. /\ plain \in Manifests /\ plain.packs = Loaded(c).packs \cup new
        /\ plain.refs = NewRefs(sess[c].batch, src, Loaded(c).refs, objs[c])
    BY PlainShape
  <1> HIDE DEF plain
  <1>6. offer.man.refs = plain.refs
    <2>1. CASE offer = PlainOffer(c, src, new)
      BY <2>1 DEF plain
    <2>2. ASSUME NEW victims \in SUBSET (Loaded(c).packs \cup new),
                 offer = SquashOffer(c, PlainOffer(c, src, new), new, victims)
          PROVE  offer.man.refs = plain.refs
      <3>1. offer.man = Consolidated(plain, NewVersion, victims)
        BY <2>2 DEF SquashOffer, plain
      <3>2. QED BY <1>1, <1>5, <3>1, SquashShape
    <2>3. QED BY <1>4, <2>1, <2>2
  <1>7. Resolved(sess[c].batch, src)
    BY DEF Sources, Complete, TypeOK, Resolved
  <1>8. sess[c].batch \in Batches
    BY <1>2, OfferFrom, OfferCases
  <1>9. Loaded(c).refs \in RefMaps
    BY <1>1 DEF Manifests
  <1>10. QED BY <1>5, <1>6, <1>7, <1>8, <1>9, AcceptedMoves

\* A version an honest host stores is a batch that takes effect, against the refs
\* of that instant.
LEMMA StorePublishes ==
    ASSUME TypeOK, PinInv, HostInv, NEW c \in Clients, NEW offer \in Offers(c),
           offer.taken, HostTakes(offer.man),
           sess'[c].batch \in {sess[c].batch, NoBatch},
           \A d \in Clients \ {c} : sess'[d] = sess[d]
    PROVE  Register!Publish(c)
  <1> DEFINE now == Manifest(tip)  then == Manifest(tip)'
             asked == [d \in Clients |-> sess[d].batch]
  <1>1. Loaded(c) = now
    BY TakenMeansLatest DEF Loaded
  <1>2. offer.man \in Manifests /\ offer.man.gen = now.gen + 1
    BY <1>1, OfferSound
  <1>3. then = offer.man
    BY <1>2, StoreVersion DEF Manifest
  <1>4. then.refs \in RefMaps /\ then.gen = now.gen + 1
    BY <1>2, <1>3 DEF Manifests
  <1>5. \A r \in Refs : then.refs[r] # now.refs[r] =>
           /\ r \in DOMAIN asked[c]
           /\ Register!MayMove(asked[c][r], now.refs[r], then.refs[r])
    BY <1>1, <1>3, OfferMoves
  <1>6. [d \in Clients |-> sess'[d].batch] \in {asked, [asked EXCEPT ![c] = NoBatch]}
    <2>1. CASE sess'[c].batch = sess[c].batch
      <3>1. \A d \in Clients : sess'[d].batch = sess[d].batch
        BY <2>1
      <3>2. QED BY <3>1
    <2>2. CASE sess'[c].batch = NoBatch
      BY <2>2
    <2>3. QED BY <2>1, <2>2
  <1>7. QED BY <1>4, <1>5, <1>6, SameWords DEF Register!Publish

\* While the branch stays, a client asks, learns an outcome, or does neither.
LEMMA OtherwiseAsks ==
    ASSUME TypeOK, TypeOK', NEW c \in Clients, UNCHANGED host,
           \A d \in Clients \ {c} : sess'[d] = sess[d]
    PROVE  Register!Ask(c) \/ Register!Answer(c)
  <1> DEFINE asked == [d \in Clients |-> sess[d].batch]  next == sess'[c].batch
  <1>1. Manifest(tip)' = Manifest(tip)
    BY DEF host, Manifest
  <1>2. [d \in Clients |-> sess'[d].batch] = [asked EXCEPT ![c] = next]
    OBVIOUS
  <1>3. next \in Batches \/ next = NoBatch
    BY DEF TypeOK, Sessions
  <1> HIDE DEF next
  <1>4. CASE next \in Batches
    BY <1>1, <1>2, <1>4, SameWords DEF Register!Ask
  <1>5. CASE next = NoBatch
    BY <1>1, <1>2, <1>5, SameWords DEF Register!Answer
  <1>6. QED BY <1>3, <1>4, <1>5

\* Every step of the system is a step of the register or leaves it alone.
LEMMA StepRegister ==
    ASSUME Honest, TypeOK, TypeOK', PinInv, HostInv, Next
    PROVE  Register!Next
  <1>1. ASSUME NEW c \in Clients, ClientStep(c) PROVE Register!Next
    <2>1. \A d \in Clients \ {c} : sess'[d] = sess[d]
      BY <1>1, OthersKeep
    <2>2. ASSUME NEW offer \in Offers(c), offer.taken, HostTakes(offer.man),
                 sess'[c].batch \in {sess[c].batch, NoBatch}
          PROVE  Register!Next
      BY <2>1, <2>2, StorePublishes DEF Register!Next
    <2>3. CASE PushOK(c)
      BY <2>2, <2>3, PushOKKeeps
    <2>4. CASE PushAnswerLost(c)
      <3>1. sess'[c].batch \in {sess[c].batch, NoBatch}
        BY <2>4, GotoKeeps, EndKeeps DEF PushAnswerLost
      <3>2. QED BY <2>2, <2>4, <3>1 DEF PushAnswerLost
    <2>5. CASE ~PushOK(c) /\ ~PushAnswerLost(c)
      <3>1. UNCHANGED host
        BY <1>1, <2>5 DEF ClientStep, Fetching, Saving, Pushing, Repacking, Accepting,
           LocalCommit, OpenHelper, Open, CloseHelper, Crash, FetchApply, FetchApplyCut,
           FetchVerify, SaveGeneration, SaveRepoID, MarkApplied, BeginPush, PushReject,
           PushCASLost, PushRefused, RetryAfterCASLost, OpenRepack, RepackFails,
           AcceptBegin, AcceptClearPin, AcceptLoad, AcceptFails, AcceptRestorePin,
           AcceptRestoreRepo, host
      <3>2. QED BY <2>1, <3>1, OtherwiseAsks DEF Register!Next
    <2>6. QED BY <2>3, <2>4, <2>5
  <1>2. QED BY <1>1 DEF Next, Restore, Wipe, Honest

\* However many clients push, repack and consolidate at once, and wherever their
\* sessions die or lose the answer of the host: on a host that keeps what it
\* stored the refs behave like one register.  A push takes effect at one instant,
\* against the refs of that instant, only on refs its batch names, moving those it
\* does not force forward in their history; a repack moves none.
THEOREM RegisterImplemented ==
    ASSUME Honest PROVE Spec => RegisterSpec
  <1>1. Init => Register!Init
    <2>1. ASSUME Init PROVE Register!Init
      <3>1. Manifest(tip) = EmptyManifest
        BY <2>1 DEF Init, Manifest
      <3>2. \A d \in Clients : sess[d].batch = NoBatch
        BY <2>1 DEF Init, Idle
      <3>3. QED BY <3>1, <3>2, SameWords DEF Register!Init, EmptyManifest
    <2>2. QED BY <2>1
  <1>2. /\ TypeOK /\ PinInv /\ HostInv
        /\ TypeOK'
        /\ [Next]_vars
        => [Register!Next]_Register!vars
    <2>1. ASSUME UNCHANGED vars PROVE UNCHANGED Register!vars
      BY <2>1 DEF vars, host, Manifest, Register!vars
    <2>2. QED BY <2>1, StepRegister
  <1>3. QED BY <1>1, <1>2, HostInvariant, PTL DEF Spec, RegisterSpec, Register!Spec
=============================================================================
