----------------------------- MODULE Fetch_proofs -----------------------------
(***************************************************************************)
(* On an honest host a fetch always finds what it needs, whatever a client *)
(* skipped, recorded as applied or merged before, and the only alarm is    *)
(* the refusal of half-saved pins.  While no session is killed, the two    *)
(* pins a client keeps between its sessions belong together, on any host,  *)
(* after every accept command that succeeded or failed half-way.           *)
(***************************************************************************)
EXTENDS HonestHost_proofs

-----------------------------------------------------------------------------
(* What packs that are not applied still deliver *)

\* The packs of man a client with the applied ids A does not skip.
Undelivered(man, A) == {p \in man.packs : p.id \notin A /\ ~ReplacesCovered(p, A)}

\* They complete the object store have.
Sufficient(man, A, have) == Needs(man) \subseteq have \cup PackObjs(Undelivered(man, A))

\* No id in A is newer than version v.
UpTo(v, A) == \A i \in A : i[1] \in 0..v

\* Fewer applied ids and more objects suffice as well.
LEMMA SufficientWeaker ==
    ASSUME NEW man, NEW A, NEW B, NEW have, NEW more, A \subseteq B, have \subseteq more,
           Sufficient(man, B, have)
    PROVE  Sufficient(man, A, more)
  <1>1. Undelivered(man, B) \subseteq Undelivered(man, A)
    BY DEF Undelivered, ReplacesCovered
  <1>2. PackObjs(Undelivered(man, B)) \subseteq PackObjs(Undelivered(man, A))
    BY <1>1 DEF PackObjs
  <1>3. QED BY <1>2 DEF Sufficient

\* A manifest suffices if every commit it needs beyond the store is in a pack that
\* is not skipped.
LEMMA SufficientIf ==
    ASSUME NEW man, NEW A, NEW have,
           \A y \in Needs(man) : y \notin have => \E p \in Undelivered(man, A) : y \in p.objs
    PROVE  Sufficient(man, A, have)
  BY DEF Sufficient, PackObjs

\* What sufficed for version w suffices for every later one.
LEMMA SufficientLater ==
    ASSUME NEW w \in Nat, NEW old \in Manifests, NEW new \in Manifests,
           NEW A \in SUBSET PackIds, NEW have,
           Continues(old, w, new), UpTo(w, A), Sufficient(old, A, have)
    PROVE  Sufficient(new, A, have)
  <1> SUFFICES ASSUME NEW y \in Needs(new), y \notin have
               PROVE  \E p \in Undelivered(new, A) : y \in p.objs
    BY SufficientIf
  <1>1. ASSUME NEW i \in PackIds, i[1] > w PROVE i \notin A
    BY <1>1 DEF UpTo
  <1>2. \A p \in new.packs : p.id \in PackIds /\ p.replaces \subseteq PackIds
    BY DEF Manifests, Packs
  <1>3. CASE y \notin Needs(old)
    <2>1. PICK p \in new.packs : y \in p.objs /\ Newer(p, w)
      BY <1>3 DEF Continues
    <2>2. p.id \notin A /\ ~ReplacesCovered(p, A)
      BY <1>1, <1>2, <2>1 DEF Newer, ReplacesCovered
    <2>3. QED BY <2>1, <2>2 DEF Undelivered
  <1>4. CASE y \in Needs(old)
    <2>1. PICK q \in Undelivered(old, A) : y \in q.objs
      BY <1>4 DEF Sufficient, PackObjs
    <2>2. q \in old.packs /\ q.id \notin A /\ ~ReplacesCovered(q, A)
      BY <2>1 DEF Undelivered
    <2>3. PICK p \in new.packs : y \in p.objs /\ StandsFor(p, q, w)
      BY <2>1, <2>2 DEF Continues
    <2>4. CASE p = q
      BY <2>2, <2>3, <2>4 DEF Undelivered
    <2>5. CASE p # q
      <3>1. p.id[1] > w /\ (p.replaces = {} \/ \E r \in p.replaces : r = q.id \/ r[1] > w)
        BY <2>3, <2>5 DEF StandsFor
      <3>2. p.id \notin A /\ ~ReplacesCovered(p, A)
        BY <1>1, <1>2, <2>2, <3>1 DEF ReplacesCovered
      <3>3. QED BY <2>3, <3>2 DEF Undelivered
    <2>6. QED BY <2>4, <2>5
  <1>5. QED BY <1>3, <1>4

\* A fetch from a manifest that suffices leaves nothing out (FetchApply).
LEMMA SufficientFetch ==
    ASSUME NEW man, NEW A, NEW have, Sufficient(man, A, have)
    PROVE  Needs(man) \subseteq have \cup PackObjs(Missing(man, have, A))
  <1>1. CASE HasObjectClosure(man, have)
    BY <1>1 DEF HasObjectClosure, Needs
  <1>2. CASE ~HasObjectClosure(man, have)
    BY <1>2 DEF Missing, Undelivered, Sufficient
  <1>3. QED BY <1>1, <1>2

\* The packs a plain push built may be recorded as applied (MarkApplied).
LEMMA SufficientPlain ==
    ASSUME NEW b \in Nat, NEW base, NEW man, NEW new, NEW v \in Nat, v = b + 1,
           NEW A, NEW have, Ordered(b, base), UpTo(b, A), Sufficient(base, A, have),
           man.packs = base.packs \cup new, \A p \in new : p.id[1] = v,
           Needs(man) \subseteq Needs(base) \cup PackObjs(new),
           PackObjs(new) \subseteq have
    PROVE  Sufficient(man, A \cup Ids(new), have)
  <1> SUFFICES ASSUME NEW y \in Needs(man), y \notin have
               PROVE  \E p \in Undelivered(man, A \cup Ids(new)) : y \in p.objs
    BY SufficientIf
  <1>1. PICK q \in Undelivered(base, A) : y \in q.objs
    BY DEF Sufficient, PackObjs
  <1>2. q \in base.packs /\ q.id \notin A /\ ~ReplacesCovered(q, A)
    BY <1>1 DEF Undelivered
  <1>3. \A i \in Ids(new) : i[1] = v
    BY DEF Ids
  <1>4. q.id[1] \in 1..b /\ \A r \in q.replaces : r[1] \in 1..b
    BY <1>2 DEF Ordered
  <1>5. q.id \notin Ids(new) /\ q.replaces \cap Ids(new) = {}
    BY <1>3, <1>4
  <1>6. ~ReplacesCovered(q, A \cup Ids(new))
    BY <1>2, <1>5 DEF ReplacesCovered
  <1>7. QED BY <1>1, <1>2, <1>5, <1>6 DEF Undelivered

\* So may those a squash kept, and the merged pack when every victim is applied or
\* is the one this push built (canMarkConsolidated).
LEMMA SufficientSquash ==
    ASSUME NEW b \in Nat, NEW base, NEW man, NEW new, NEW v \in Nat, v = b + 1,
           NEW A, NEW have, Ordered(b, base), UpTo(b, A), Sufficient(base, A, have),
           NEW victims \in SUBSET (base.packs \cup new), NEW merged,
           man.packs = ((base.packs \cup new) \ victims) \cup {merged},
           merged.id = <<v, 0>>, merged.objs = PackObjs(victims),
           merged.replaces = Ids(victims),
           \A p \in new : p.id[1] = v /\ p.id[2] # 0,
           Needs(man) \subseteq Needs(base) \cup PackObjs(new),
           PackObjs(new) \subseteq have,
           NEW mark, mark = Ids(new \ victims) \cup
              IF CanMarkConsolidated(victims, new, A) THEN {<<v, 0>>} ELSE {}
    PROVE  Sufficient(man, A \cup mark, have)
  <1> SUFFICES ASSUME NEW y \in Needs(man), y \notin have
               PROVE  \E p \in Undelivered(man, A \cup mark) : y \in p.objs
    BY SufficientIf
  <1>1. PICK q \in Undelivered(base, A) : y \in q.objs
    BY DEF Sufficient, PackObjs
  <1>2. q \in base.packs /\ q.id \notin A /\ ~ReplacesCovered(q, A)
    BY <1>1 DEF Undelivered
  <1>3. \A i \in Ids(new) : i[1] = v
    BY DEF Ids
  <1>4. \A i \in mark : i[1] = v
    BY <1>3 DEF Ids
  <1>5. q.id[1] \in 1..b /\ \A r \in q.replaces : r[1] \in 1..b
    BY <1>2 DEF Ordered
  <1>6. q.id \notin mark /\ q.id \notin Ids(new) /\ q.replaces \cap mark = {}
    <2>1. v \notin 1..b
      OBVIOUS
    <2>2. \A i \in mark \cup Ids(new) : i[1] \notin 1..b
      BY <1>3, <1>4, <2>1
    <2>3. QED BY <1>5, <2>2
  <1>7. CASE q \notin victims
    <2>1. q \in man.packs
      BY <1>2, <1>7
    <2>2. ~ReplacesCovered(q, A \cup mark)
      BY <1>2, <1>6 DEF ReplacesCovered
    <2>3. QED BY <1>1, <1>2, <1>6, <2>1, <2>2 DEF Undelivered
  <1>8. CASE q \in victims
    <2>1. q.id \in Ids(victims) /\ y \in merged.objs /\ merged \in man.packs
      BY <1>1, <1>8 DEF Ids, PackObjs
    <2>2. ~CanMarkConsolidated(victims, new, A)
      <3>1. \A own \in Ids(victims \cap new) \cup {<<0, 0>>} : q.id # own
        <4>1. q.id # <<0, 0>>
          BY <1>5
        <4>2. Ids(victims \cap new) \subseteq Ids(new)
          BY DEF Ids
        <4>3. QED BY <1>6, <4>1, <4>2
      <3>2. QED BY <1>2, <2>1, <3>1 DEF CanMarkConsolidated
    <2>3. merged.id \notin A
      <3>1. merged.id[1] = v
        OBVIOUS
      <3>2. QED BY <3>1 DEF UpTo
    <2>4. merged.id \notin mark
      <3>1. mark = Ids(new \ victims)
        BY <2>2
      <3>2. merged.id[2] = 0
        OBVIOUS
      <3>3. \A i \in Ids(new \ victims) : i[2] # 0
        BY DEF Ids
      <3>4. QED BY <3>1, <3>2, <3>3
    <2>5. ~ReplacesCovered(merged, A \cup mark)
      BY <1>2, <1>6, <2>1 DEF ReplacesCovered
    <2>6. merged \in Undelivered(man, A \cup mark)
      BY <2>1, <2>3, <2>4, <2>5 DEF Undelivered
    <2>7. QED BY <2>1, <2>6
  <1>9. QED BY <1>7, <1>8

\* What a push whose client loaded the latest version offers the host, and what it
\* would record as applied, leaves that client nothing to miss.
LEMMA OfferMark ==
    ASSUME TypeOK, PinInv, HostInv, NEW c \in Clients, NEW offer \in Offers(c),
           sess[c].cur = tip, UpTo(tip, applied[c]),
           Sufficient(Loaded(c), applied[c], objs[c])
    PROVE  /\ \A i \in offer.mark : i[1] = NewVersion
           /\ Sufficient(offer.man, applied[c] \cup offer.mark, objs[c])
  <1> DEFINE base == Loaded(c)  v == NewVersion  A == applied[c]  have == objs[c]
  <1>1. v = tip + 1 /\ tip \in Nat /\ v \in Nat /\ base \in Manifests
    BY ManifestType DEF TypeOK, HostInv, NewVersion, Loaded
  <1>2. Ordered(tip, base) /\ UpTo(tip, A) /\ Sufficient(base, A, have)
    BY <1>1 DEF HostInv, Loaded
  <1>3. CASE sess[c].op = "repack" /\ HasObjectClosure(base, have) /\ offer = RepackOffer(c)
    <2>1. offer.man = RepackManifest(base, v) /\ offer.mark = {<<v, 0>>}
      BY <1>3 DEF RepackOffer
    <2>2. Needs(offer.man) = Needs(base)
      BY <1>1, <2>1, RepackShape DEF Needs
    <2>3. Needs(base) \subseteq have
      BY <1>3 DEF HasObjectClosure, Needs
    <2>4. QED BY <2>1, <2>2, <2>3 DEF Sufficient
  <1>4. ASSUME NEW src \in Sources(c), NEW new \in BuildPacks(v, Upload(c, src))
        PROVE  /\ \A i \in Ids(new) : i[1] = v
               /\ \A p \in new : p.id[1] = v /\ p.id[2] # 0
    BY <1>1, BuiltPacks DEF Ids
  <1>5. ASSUME NEW src \in Sources(c), NEW new \in BuildPacks(v, Upload(c, src)),
               offer = PlainOffer(c, src, new)
        PROVE  /\ \A i \in offer.mark : i[1] = v
               /\ Sufficient(offer.man, A \cup offer.mark, have)
    <2>1. offer.mark = Ids(new)
      BY <1>5 DEF PlainOffer
    <2>2. /\ offer.man.packs = base.packs \cup new
          /\ Needs(offer.man) \subseteq Needs(base) \cup PackObjs(new)
          /\ PackObjs(new) \subseteq have
      BY <1>5, PlainShape
    <2> HIDE DEF base, v, A, have
    <2>3. QED BY <1>1, <1>2, <1>4, <2>1, <2>2, SufficientPlain
  <1>6. ASSUME NEW src \in Sources(c), NEW new \in BuildPacks(v, Upload(c, src)),
               NEW victims \in SUBSET (base.packs \cup new),
               offer = SquashOffer(c, PlainOffer(c, src, new), new, victims)
        PROVE  /\ \A i \in offer.mark : i[1] = v
               /\ Sufficient(offer.man, A \cup offer.mark, have)
    <2> DEFINE plain == PlainOffer(c, src, new).man  merged == MergedPack(v, victims)
               mark == offer.mark  man == offer.man
    <2>1. /\ mark = Ids(new \ victims) \cup
                      IF CanMarkConsolidated(victims, new, A) THEN {<<v, 0>>} ELSE {}
          /\ man = Consolidated(plain, v, victims)
      BY <1>6 DEF SquashOffer
    <2>2. /\ plain \in Manifests /\ plain.packs = base.packs \cup new
          /\ Needs(plain) \subseteq Needs(base) \cup PackObjs(new)
          /\ PackObjs(new) \subseteq have
      BY PlainShape
    <2> HIDE DEF base, v, A, have, plain, mark, man
    <2>3. /\ Needs(man) = Needs(plain)
          /\ man.packs = ((base.packs \cup new) \ victims) \cup {merged}
          /\ merged.id = <<v, 0>> /\ merged.objs = PackObjs(victims)
          /\ merged.replaces = Ids(victims)
      BY <1>1, <1>6, <2>1, <2>2, SquashShape DEF Needs
    <2>4. \A i \in mark : i[1] = v
      <3>1. Ids(new \ victims) \subseteq Ids(new)
        BY DEF Ids
      <3>2. <<v, 0>>[1] = v
        OBVIOUS
      <3>3. \A i \in mark : i \in Ids(new) \/ i = <<v, 0>>
        BY <2>1, <3>1
      <3>4. QED BY <1>4, <3>2, <3>3
    <2> HIDE DEF merged
    <2>5. Sufficient(man, A \cup mark, have)
      <3>1. \A p \in new : p.id[1] = v /\ p.id[2] # 0
        BY <1>4
      <3>2. Needs(man) \subseteq Needs(base) \cup PackObjs(new)
        BY <2>2, <2>3
      <3>3. v = tip + 1 /\ tip \in Nat /\ v \in Nat
        BY <1>1
      <3>4. mark = Ids(new \ victims) \cup
                     IF CanMarkConsolidated(victims, new, A) THEN {<<v, 0>>} ELSE {}
        BY <2>1
      <3>5. PackObjs(new) \subseteq have /\ victims \in SUBSET (base.packs \cup new)
        BY <1>6, <2>2
      <3> HIDE <1>6
      <3>6. QED BY <1>2, <2>3, <3>1, <3>2, <3>3, <3>4, <3>5, SufficientSquash, ZenonT(60)
    <2>6. QED BY <2>4, <2>5 DEF mark, man
  <1>7. CASE offer = RepackOffer(c) /\ sess[c].op = "repack"
    BY <1>3, <1>7, OfferCases
  <1>8. ASSUME NEW src \in Sources(c), NEW new \in BuildPacks(v, Upload(c, src)),
               \/ offer = PlainOffer(c, src, new)
               \/ \E victims \in SUBSET (base.packs \cup new) :
                     offer = SquashOffer(c, PlainOffer(c, src, new), new, victims)
        PROVE  /\ \A i \in offer.mark : i[1] = v
               /\ Sufficient(offer.man, A \cup offer.mark, have)
    BY <1>5, <1>6, <1>8
  <1>9. QED BY <1>7, <1>8, OfferCases

-----------------------------------------------------------------------------
(* What a client has been delivered *)

\* Where a session works on no remote state.
Away == {"idle", "clearing", "cleared", "restorePin", "restoreRepo"}

\* The last version that what c holds, or is about to record, may stem from.
Seen(c) == IF sess[c].pc \in Away THEN tip ELSE sess[c].cur

\* What c recorded as applied, or is about to record, it holds or has no need of.
Delivered(c) ==
    LET A == applied[c] \cup sess[c].mark
    IN  UpTo(Seen(c), A) /\ Sufficient(Manifest(Seen(c)), A, objs[c])

\* A fetch that ran to its end has everything.
FetchInv ==
    \A c \in Clients :
        /\ Delivered(c)
        /\ sess[c].pc = "fetched" => Needs(Loaded(c)) \subseteq objs[c]

\* Nobody is ahead of the branch.
LEMMA SeenUpToTip ==
    ASSUME TypeOK, HostInv, NEW c \in Clients
    PROVE  Seen(c) \in 0..tip /\ tip = Len(versions) /\ tip \in Nat
  BY DEF TypeOK, HostInv, Seen

\* A step that records nothing new as applied leaves the client delivered, whatever
\* it loaded and whoever pushed.
LEMMA DeliveredKept ==
    ASSUME TypeOK, TypeOK', HostInv, HostInv', Next, NEW c \in Clients, Delivered(c),
           \/ sess'[c].pc \in Away
           \/ sess'[c].cur = tip
           \/ sess'[c].cur = sess[c].cur /\ sess[c].pc \notin Away,
           applied'[c] \cup sess'[c].mark \subseteq applied[c] \cup sess[c].mark,
           objs[c] \subseteq objs'[c]
    PROVE  Delivered(c)'
  <1>1. PICK w, v, A, B, have, more, old, new :
           /\ w = Seen(c) /\ v = Seen(c)'
           /\ A = applied[c] \cup sess[c].mark /\ B = applied'[c] \cup sess'[c].mark
           /\ have = objs[c] /\ more = objs'[c]
           /\ old = Manifest(w) /\ new = Manifest(v)'
    OBVIOUS
  <1>2. w \in 0..tip /\ tip = Len(versions) /\ tip \in Nat /\ tip' \in Nat /\ tip <= tip'
    BY <1>1, SeenUpToTip, TipGrows
  <1>3. v \in 0..tip' /\ w <= v
    <2>1. tip' = Len(versions') /\ sess'[c].cur \in 0..tip'
      BY DEF TypeOK, HostInv
    <2>2. CASE sess'[c].pc \in Away
      BY <1>1, <1>2, <2>2 DEF Seen
    <2>3. CASE sess'[c].pc \notin Away
      BY <1>1, <1>2, <2>1, <2>3 DEF Seen
    <2>4. QED BY <2>2, <2>3
  <1>4. old = Manifest(w)' /\ old \in Manifests /\ new \in Manifests
    <2>1. versions' \in Seq(Manifests) /\ v \in 0..Len(versions')
      BY <1>3 DEF TypeOK, HostInv
    <2>2. Manifest(v)' \in Manifests
      BY <2>1, EmptyManifestType DEF Manifest
    <2>3. QED BY <1>1, <1>2, <2>2, StepManifest, ManifestType
  <1>5. Continues(old, w, new)
    <2>1. w \in 0..v
      BY <1>2, <1>3
    <2>2. QED BY <1>1, <1>3, <1>4, <2>1 DEF HostInv
  <1>6. UpTo(w, A) /\ Sufficient(old, A, have) /\ A \in SUBSET PackIds
    BY <1>1 DEF Delivered, TypeOK, Sessions
  <1>7. Sufficient(new, A, have)
    BY <1>2, <1>4, <1>5, <1>6, SufficientLater
  <1>8. Sufficient(new, B, more)
    BY <1>1, <1>7, SufficientWeaker
  <1>9. UpTo(v, B)
    BY <1>1, <1>2, <1>3, <1>6 DEF UpTo
  <1>10. QED BY <1>1, <1>8, <1>9 DEF Delivered

\* No step takes an object from a client.
LEMMA StoresGrow ==
    ASSUME TypeOK, NEW c \in Clients, ClientStep(c), NEW d \in Clients
    PROVE  /\ objs[d] \subseteq objs'[d]
           /\ d # c => applied'[d] = applied[d]
           /\ ~FetchApply(c) /\ ~MarkApplied(c) => applied' = applied
  <1>1. CASE LocalCommit(c) \/ OpenHelper(c) \/ CloseHelper(c) \/ Crash(c)
    BY <1>1 DEF LocalCommit, OpenHelper, CloseHelper, Crash, Open, TypeOK, disk
  <1>2. CASE Fetching(c)
    BY <1>2 DEF Fetching, FetchApply, FetchApplyCut, FetchVerify, TypeOK, disk
  <1>3. CASE Saving(c)
    BY <1>3 DEF Saving, SaveGeneration, SaveRepoID, MarkApplied, TypeOK
  <1>4. CASE Repacking(c)
    BY <1>4 DEF Repacking, OpenRepack, RepackFails, Open, disk
  <1>5. CASE Pushing(c)
    BY <1>5 DEF Pushing, BeginPush, PushReject, PushOK, PushCASLost, PushAnswerLost,
       PushRefused, RetryAfterCASLost, disk
  <1>6. CASE Accepting(c)
    BY <1>6 DEF Accepting, AcceptBegin, AcceptClearPin, AcceptLoad, AcceptFails,
       AcceptRestorePin, AcceptRestoreRepo, disk
  <1>7. QED BY <1>1, <1>2, <1>3, <1>4, <1>5, <1>6 DEF ClientStep

\* A session has just fetched, or had done so before.
LEMMA FetchedAfter ==
    ASSUME TypeOK, NEW c \in Clients, ClientStep(c), sess'[c].pc = "fetched"
    PROVE  sess'[c] = sess[c] \/ FetchApply(c)
  <1>1. CASE LocalCommit(c)
    BY <1>1 DEF LocalCommit
  <1>2. CASE OpenHelper(c) \/ CloseHelper(c) \/ Crash(c) \/ Repacking(c)
    BY <1>2, OpenKeeps, EndKeeps
    DEF OpenHelper, CloseHelper, Crash, Repacking, OpenRepack, RepackFails
  <1>3. CASE Fetching(c)
    BY <1>3, GotoKeeps, EndKeeps DEF Fetching, FetchApplyCut, FetchVerify
  <1>4. CASE Saving(c)
    BY <1>4, GotoKeeps, ResolveKeeps DEF Saving, SaveGeneration, SaveRepoID, MarkApplied
  <1>5. CASE Accepting(c)
    BY <1>5, AcceptBeginKeeps, AcceptLoadKeeps, AcceptFailsKeeps, GotoKeeps, EndKeeps
    DEF Accepting, AcceptClearPin, AcceptRestorePin, AcceptRestoreRepo
  <1>6. CASE Pushing(c)
    BY <1>6, BeginPushKeeps, ResolveKeeps, PushOKKeeps, RetryKeeps, GotoKeeps, EndKeeps
    DEF Pushing, PushReject, PushCASLost, PushAnswerLost, PushRefused
  <1>7. QED BY <1>1, <1>2, <1>3, <1>4, <1>5, <1>6 DEF ClientStep

\* FetchApply downloads whatever the client lacks of the version it loaded, and may
\* count all of that version's packs as applied.
LEMMA FetchDelivers ==
    ASSUME TypeOK, TypeOK', PinInv, HostInv, Next, NEW c \in Clients, Delivered(c),
           FetchApply(c)
    PROVE  /\ Delivered(c)'
           /\ sess'[c].pc = "fetched" => (Needs(Loaded(c)) \subseteq objs[c])'
  <1>1. PICK cur, A, B, man, more :
           /\ cur = sess[c].cur /\ man = Loaded(c)
           /\ A = applied[c] /\ B = applied'[c] \cup sess'[c].mark
           /\ more = objs'[c]
    OBVIOUS
  <1>2. /\ sess[c].pc = "ready" /\ sess'[c].pc = "fetched"
        /\ sess'[c].cur = cur /\ sess'[c].mark = sess[c].mark
        /\ more = objs[c] \cup PackObjs(Missing(man, objs[c], A))
        /\ applied'[c] = A \cup Ids(man.packs)
    BY <1>1, GotoKeeps DEF FetchApply, TypeOK
  <1>3. /\ Seen(c) = cur /\ man = Manifest(cur)
        /\ Seen(c)' = cur /\ Manifest(cur)' = man /\ Loaded(c)' = man
        /\ cur \in 0..tip /\ tip \in Nat
    BY <1>1, <1>2, SeenUpToTip, StepManifest DEF Seen, Away, Loaded, Manifest
  <1>4. UpTo(cur, A \cup sess[c].mark) /\ Sufficient(man, A \cup sess[c].mark, objs[c])
    BY <1>1, <1>3 DEF Delivered
  <1>5. Needs(man) \subseteq more
    <2>1. Sufficient(man, A, objs[c])
      BY <1>4, SufficientWeaker
    <2>2. QED BY <1>2, <2>1, SufficientFetch
  <1>6. UpTo(cur, B)
    <2>1. Ordered(cur, man)
      BY <1>3 DEF HostInv
    <2>2. \A i \in Ids(man.packs) : i[1] \in 0..cur
      BY <1>3, <2>1 DEF Ordered, Ids
    <2>3. B = (A \cup sess[c].mark) \cup Ids(man.packs)
      BY <1>1, <1>2
    <2>4. QED BY <1>4, <2>2, <2>3 DEF UpTo
  <1>7. Sufficient(man, B, more)
    BY <1>5 DEF Sufficient
  <1>8. QED BY <1>1, <1>3, <1>5, <1>6, <1>7 DEF Delivered

\* A client whose push was taken holds or will fetch all of the version it made.
LEMMA PushDelivers ==
    ASSUME TypeOK, TypeOK', PinInv, HostInv, Next, NEW c \in Clients, Delivered(c),
           PushOK(c)
    PROVE  Delivered(c)'
  <1>1. PICK offer \in Offers(c) :
           offer.taken /\ HostTakes(offer.man) /\ sess'[c].mark = offer.mark
    BY PushOKKeeps
  <1>2. PICK v, A, mark, have, man :
           /\ v = NewVersion /\ A = applied[c] /\ mark = offer.mark
           /\ have = objs[c] /\ man = offer.man
    OBVIOUS
  <1>3. /\ sess'[c].pc = "pinGen" /\ sess'[c].cur = v /\ sess'[c].mark = mark
        /\ applied'[c] = A /\ objs'[c] = have
    BY <1>1, <1>2, PushOKKeeps DEF PushOK, disk
  <1>4. sess[c].cur = tip /\ sess[c].pc \notin Away
    BY <1>1, TakenMeansLatest, OfferFrom DEF Away
  <1>5. Seen(c) = tip /\ Loaded(c) = Manifest(tip) /\ Seen(c)' = v
    BY <1>3, <1>4 DEF Seen, Away, Loaded
  <1>6. Manifest(v)' = man /\ v = tip + 1 /\ tip \in Nat
    BY <1>1, <1>2, OfferSound, StoreVersion DEF Manifest, HostInv, NewVersion, TypeOK
  <1>7. UpTo(tip, A) /\ Sufficient(Loaded(c), A, have)
    BY <1>2, <1>5, SufficientWeaker DEF Delivered, UpTo
  <1>8. (\A i \in mark : i[1] = v) /\ Sufficient(man, A \cup mark, have)
    BY <1>2, <1>4, <1>7, OfferMark
  <1>9. UpTo(v, A \cup mark)
    BY <1>6, <1>7, <1>8 DEF UpTo
  <1>10. QED BY <1>3, <1>5, <1>6, <1>8, <1>9 DEF Delivered

\* Every other step loads the branch, keeps what was loaded, or ends the session,
\* and records nothing it was not about to.
LEMMA LoadsOrKeeps ==
    ASSUME TypeOK, PinInv, NEW c \in Clients, ClientStep(c), ~FetchApply(c), ~PushOK(c)
    PROVE  /\ \/ sess'[c].pc \in Away
              \/ sess'[c].cur = tip
              \/ sess'[c].cur = sess[c].cur /\ sess[c].pc \notin Away
           /\ sess'[c].mark \subseteq sess[c].mark
  <1>1. CASE LocalCommit(c)
    BY <1>1 DEF LocalCommit
  <1>2. CASE OpenHelper(c) \/ CloseHelper(c) \/ Crash(c) \/ Repacking(c)
    BY <1>2, OpenKeeps, EndKeeps
    DEF OpenHelper, CloseHelper, Crash, Repacking, OpenRepack, RepackFails, Away
  <1>3. CASE Fetching(c)
    BY <1>3, GotoKeeps, EndKeeps DEF Fetching, FetchApplyCut, FetchVerify, Away
  <1>4. CASE Saving(c)
    BY <1>4, GotoKeeps, ResolveKeeps
    DEF Saving, SaveGeneration, SaveRepoID, MarkApplied, Away
  <1>5. CASE Accepting(c)
    BY <1>5, AcceptBeginKeeps, AcceptLoadKeeps, AcceptFailsKeeps, GotoKeeps, EndKeeps
    DEF Accepting, AcceptClearPin, AcceptRestorePin, AcceptRestoreRepo, Away
  <1>6. CASE Pushing(c)
    <2>1. CASE BeginPush(c)
      BY <2>1, BeginPushKeeps DEF BeginPush, Away
    <2>2. CASE PushReject(c)
      BY <2>2, ResolveKeeps DEF PushReject, Away
    <2>3. CASE RetryAfterCASLost(c)
      BY <2>3, RetryKeeps, EndKeeps DEF Away
    <2>4. CASE PushCASLost(c) \/ PushAnswerLost(c) \/ PushRefused(c)
      <3>1. sess[c].pc \notin Away
        BY <2>4, OfferFrom DEF PushCASLost, PushAnswerLost, PushRefused, Away
      <3>2. QED BY <2>4, <3>1, GotoKeeps, EndKeeps
            DEF PushCASLost, PushAnswerLost, PushRefused, Away
    <2>5. QED BY <1>6, <2>1, <2>2, <2>3, <2>4 DEF Pushing
  <1>7. QED BY <1>1, <1>2, <1>3, <1>4, <1>5, <1>6 DEF ClientStep

\* Whatever a client does, and whatever the others do, it stays delivered.
LEMMA DeliveredStep ==
    ASSUME TypeOK, TypeOK', PinInv, HostInv, HostInv', Next, NEW c \in Clients,
           ClientStep(c), NEW d \in Clients, Delivered(d)
    PROVE  Delivered(d)'
  <1>1. objs[d] \subseteq objs'[d]
    BY StoresGrow
  <1>2. CASE d # c
    <2>1. sess'[d] = sess[d] /\ applied'[d] = applied[d]
      BY <1>2, OthersKeep, StoresGrow
    <2>2. QED BY <1>1, <2>1, DeliveredKept
  <1>3. CASE d = c /\ FetchApply(c)
    BY <1>3, FetchDelivers
  <1>4. CASE d = c /\ PushOK(c)
    BY <1>4, PushDelivers
  <1>5. CASE d = c /\ ~FetchApply(c) /\ ~PushOK(c)
    <2>1. applied'[c] \cup sess'[c].mark \subseteq applied[c] \cup sess[c].mark
      <3>1. CASE MarkApplied(c)
        BY <1>5, <3>1, LoadsOrKeeps DEF MarkApplied, TypeOK
      <3>2. CASE ~MarkApplied(c)
        BY <1>5, <3>2, StoresGrow, LoadsOrKeeps
      <3>3. QED BY <3>1, <3>2
    <2>2. QED BY <1>1, <1>5, <2>1, LoadsOrKeeps, DeliveredKept
  <1>6. QED BY <1>2, <1>3, <1>4, <1>5

\* Every step keeps every client delivered and every finished fetch complete.
LEMMA StepFetch ==
    ASSUME Honest, TypeOK, TypeOK', PinInv, HostInv, HostInv', FetchInv, Next
    PROVE  FetchInv'
  <1> SUFFICES ASSUME NEW d \in Clients
               PROVE  /\ Delivered(d)'
                      /\ sess'[d].pc = "fetched" => (Needs(Loaded(d)) \subseteq objs[d])'
    BY DEF FetchInv
  <1>1. Delivered(d) /\ (sess[d].pc = "fetched" => Needs(Loaded(d)) \subseteq objs[d])
    BY DEF FetchInv
  <1>2. ASSUME NEW c \in Clients, ClientStep(c)
        PROVE  /\ Delivered(d)'
               /\ sess'[d].pc = "fetched" => (Needs(Loaded(d)) \subseteq objs[d])'
    <2>1. Delivered(d)'
      BY <1>1, <1>2, DeliveredStep
    <2>2. CASE c = d /\ FetchApply(c)
      BY <1>1, <2>2, FetchDelivers
    <2>3. ASSUME ~(c = d /\ FetchApply(c)), sess'[d].pc = "fetched"
          PROVE  (Needs(Loaded(d)) \subseteq objs[d])'
      <3>1. sess'[d] = sess[d]
        BY <1>2, <2>3, OthersKeep, FetchedAfter
      <3>2. Loaded(d)' = Loaded(d)
        <4>1. sess[d].cur \in 0..Len(versions)
          BY DEF TypeOK
        <4>2. Manifest(sess[d].cur)' = Manifest(sess[d].cur)
          <5>1. PICK cur : cur = sess[d].cur
            OBVIOUS
          <5>2. Manifest(cur)' = Manifest(cur)
            BY <4>1, <5>1, StepManifest
          <5>3. QED BY <3>1, <5>1, <5>2 DEF Manifest
        <4>3. QED BY <3>1, <4>2 DEF Loaded, Manifest
      <3>3. objs[d] \subseteq objs'[d]
        BY <1>2, StoresGrow
      <3>4. QED BY <1>1, <2>3, <3>1, <3>2, <3>3 DEF Needs
    <2>4. QED BY <2>1, <2>2, <2>3
  <1>3. QED BY <1>2 DEF Next, Restore, Wipe, Honest

\* Nobody has anything or needs anything to begin with.
LEMMA InitFetch == Init => FetchInv
  <1> SUFFICES ASSUME Init, NEW c \in Clients PROVE Delivered(c) /\ sess[c].pc = "idle"
    BY DEF FetchInv
  <1>1. /\ sess[c].pc = "idle" /\ sess[c].mark = {} /\ applied[c] = {}
        /\ Seen(c) = 0 /\ Manifest(0) = EmptyManifest
    BY DEF Init, Idle, Seen, Away, Manifest
  <1>2. Needs(EmptyManifest) = {}
    BY DEF Needs, EmptyManifest, NoRefs, Tips, ReachAll
  <1>3. QED BY <1>1, <1>2 DEF Delivered, UpTo, Sufficient

\* The inductive invariant of the clients of an honest host.
LEMMA FetchInvariant ==
    ASSUME Honest PROVE Spec => [](TypeOK /\ PinInv /\ HostInv /\ FetchInv)
  <1>1. TypeOK /\ TypeOK' /\ PinInv /\ HostInv /\ HostInv' /\ FetchInv /\ [Next]_vars
        => FetchInv'
    <2>1. ASSUME FetchInv, UNCHANGED vars PROVE FetchInv'
      BY <2>1 DEF FetchInv, Delivered, Seen, Loaded, Manifest, vars, host, disk
    <2>2. QED BY <2>1, StepFetch
  <1>2. QED BY <1>1, InitFetch, HostInvariant, PTL DEF Spec

\* On an honest host the packs a client would download now complete the history of
\* every ref, whatever it skipped or recorded as applied: no pack it counts as
\* applied, as covered by its predecessors, or as merged from those, carried
\* anything it lacks (packSkippable, canMarkConsolidated, MarkApplied).
THEOREM FetchesSuffice ==
    ASSUME Honest PROVE Spec => []FetchSufficient
  <1>1. TypeOK /\ HostInv /\ FetchInv => FetchSufficient
    <2> SUFFICES ASSUME TypeOK, HostInv, FetchInv, NEW c \in Clients
                 PROVE  Needs(Manifest(tip)) \subseteq
                           objs[c] \cup PackObjs(Missing(Manifest(tip), objs[c], applied[c]))
      BY DEF FetchSufficient, Needs
    <2> DEFINE A == applied[c] \cup sess[c].mark  w == Seen(c)
    <2>1. UpTo(w, A) /\ Sufficient(Manifest(w), A, objs[c])
      BY DEF FetchInv, Delivered
    <2>2. w \in 0..tip /\ w \in Nat /\ tip \in 0..tip /\ tip = Len(versions)
      BY SeenUpToTip
    <2>3. Continues(Manifest(w), w, Manifest(tip))
      BY <2>2 DEF HostInv
    <2>4. A \in SUBSET PackIds
      BY DEF TypeOK, Sessions
    <2>5. Manifest(w) \in Manifests /\ Manifest(tip) \in Manifests
      BY <2>2, ManifestType
    <2>6. applied[c] \subseteq A
      OBVIOUS
    <2> HIDE DEF A, w
    <2>7. Sufficient(Manifest(tip), A, objs[c])
      BY <2>1, <2>2, <2>3, <2>4, <2>5, SufficientLater
    <2>8. Sufficient(Manifest(tip), applied[c], objs[c])
      BY <2>6, <2>7, SufficientWeaker
    <2>9. QED BY <2>8, SufficientFetch
  <1>2. QED BY <1>1, FetchInvariant, PTL

-----------------------------------------------------------------------------
(* Alarms *)

\* What a client of an honest host remembers of its repository, and that it sees no
\* alarm but the refusal of a generation pin without a repository pin.
Quiet(c) ==
    /\ repoPin[c] \in {0, 1} /\ sess[c].saved.repo \in {0, 1}
    /\ sess[c].pc = "cleared" => pin[c] = 0
    /\ sess[c].alarm # "none" => sess[c].pc = "idle" /\ pin[c] # 0 /\ repoPin[c] = 0

AlarmInv == \A c \in Clients : Quiet(c)

\* What an honest host serves passes every check of the pins, unless the repoid file
\* is missing (CheckPin, CheckRepoID).
LEMMA OnlyHalfSavedRefused ==
    ASSUME TypeOK, HostInv, NEW c \in Clients, repoPin[c] \in {0, 1},
           LoadRemoteState(c) # "ok"
    PROVE  pin[c] # 0 /\ repoPin[c] = 0
  <1>1. pin[c] \in 0..tip /\ tip \in 0..tip /\ tip \in Nat
    BY DEF TypeOK, HostInv
  <1>2. /\ Manifest(tip).gen = tip /\ Manifest(pin[c]).gen = pin[c]
        /\ tip # 0 => Manifest(tip).repo = 1
    BY <1>1 DEF HostInv, Ordered
  <1>3. CheckPin(c, tip) = "ok"
    <2>1. CASE pin[c] = 0
      BY <2>1 DEF CheckPin
    <2>2. CASE pin[c] # 0
      <3>1. tip # 0 /\ (tip = pin[c] \/ Manifest(tip).gen > Manifest(pin[c]).gen)
        BY <1>1, <1>2, <2>2
      <3>2. QED BY <2>2, <3>1 DEF CheckPin
    <2>3. QED BY <2>1, <2>2
  <1>4. CheckRepoID(c, tip) # "ok"
    BY <1>3 DEF LoadRemoteState
  <1>5. tip # 0
    BY <1>4 DEF CheckRepoID
  <1>6. CASE repoPin[c] # 0
    BY <1>2, <1>4, <1>5, <1>6 DEF CheckRepoID
  <1>7. CASE repoPin[c] = 0
    BY <1>4, <1>5, <1>7 DEF CheckRepoID
  <1>8. QED BY <1>6, <1>7

\* The pins a session may write, restore or clear are of the one repository.
LEMMA QuietPins ==
    ASSUME TypeOK, HostInv, NEW c \in Clients, Quiet(c), ClientStep(c)
    PROVE  repoPin'[c] \in {0, 1} /\ sess'[c].saved.repo \in {0, 1}
  <1>1. repoPin[c] \in {0, 1} /\ sess[c].saved.repo \in {0, 1} /\ NoPins.repo = 0
    BY DEF Quiet, NoPins
  <1>2. Loaded(c).repo \in {0, 1}
    BY DEF TypeOK, HostInv, Loaded, Ordered
  <1>3. CASE LocalCommit(c)
    BY <1>1, <1>3 DEF LocalCommit
  <1>4. CASE OpenHelper(c) \/ CloseHelper(c) \/ Crash(c) \/ Repacking(c)
    BY <1>1, <1>4, OpenKeeps, EndKeeps
    DEF OpenHelper, CloseHelper, Crash, Repacking, OpenRepack, RepackFails, Open, disk
  <1>5. CASE Fetching(c)
    BY <1>1, <1>5, GotoKeeps, EndKeeps
    DEF Fetching, FetchApply, FetchApplyCut, FetchVerify, disk
  <1>6. CASE Saving(c)
    BY <1>1, <1>2, <1>6, GotoKeeps, ResolveKeeps
    DEF Saving, SaveGeneration, SaveRepoID, MarkApplied, TypeOK
  <1>7. CASE Accepting(c)
    <2>1. CASE AcceptBegin(c)
      BY <1>1, <2>1, AcceptBeginKeeps
    <2>2. CASE AcceptClearPin(c) \/ AcceptLoad(c) \/ AcceptFails(c) \/ AcceptRestorePin(c)
      BY <1>1, <2>2, AcceptLoadKeeps, AcceptFailsKeeps, GotoKeeps, EndKeeps
      DEF AcceptClearPin, AcceptLoad, AcceptFails, AcceptRestorePin, disk
    <2>3. CASE AcceptRestoreRepo(c)
      BY <1>1, <2>3, EndKeeps DEF AcceptRestoreRepo, TypeOK
    <2>4. QED BY <1>7, <2>1, <2>2, <2>3 DEF Accepting
  <1>8. CASE Pushing(c)
    <2>1. repoPin' = repoPin
      BY <1>8 DEF Pushing, BeginPush, PushReject, PushOK, PushCASLost, PushAnswerLost,
         PushRefused, RetryAfterCASLost, disk
    <2>2. QED BY <1>1, <1>8, <2>1, BeginPushKeeps, ResolveKeeps, PushOKKeeps,
          RetryKeeps, GotoKeeps, EndKeeps
          DEF Pushing, PushReject, PushCASLost, PushAnswerLost, PushRefused
  <1>9. QED BY <1>3, <1>4, <1>5, <1>6, <1>7, <1>8 DEF ClientStep

\* An accept command asks the host with no generation pinned.
LEMMA QuietCleared ==
    ASSUME TypeOK, NEW c \in Clients, Quiet(c), ClientStep(c), sess'[c].pc = "cleared"
    PROVE  pin'[c] = 0
  <1>1. CASE LocalCommit(c)
    BY <1>1 DEF LocalCommit, Quiet
  <1>2. CASE OpenHelper(c) \/ CloseHelper(c) \/ Crash(c) \/ Repacking(c)
    BY <1>2, OpenKeeps, EndKeeps
    DEF OpenHelper, CloseHelper, Crash, Repacking, OpenRepack, RepackFails
  <1>3. CASE Fetching(c)
    BY <1>3, GotoKeeps, EndKeeps DEF Fetching, FetchApply, FetchApplyCut, FetchVerify
  <1>4. CASE Saving(c)
    BY <1>4, GotoKeeps, ResolveKeeps DEF Saving, SaveGeneration, SaveRepoID, MarkApplied
  <1>5. CASE Accepting(c)
    <2>1. CASE AcceptClearPin(c)
      BY <2>1 DEF AcceptClearPin, TypeOK
    <2>2. CASE AcceptBegin(c)
      BY <2>2, AcceptBeginKeeps
    <2>3. CASE AcceptLoad(c) \/ AcceptFails(c) \/ AcceptRestorePin(c) \/ AcceptRestoreRepo(c)
      BY <2>3, AcceptLoadKeeps, AcceptFailsKeeps, GotoKeeps, EndKeeps
      DEF AcceptRestorePin, AcceptRestoreRepo
    <2>4. QED BY <1>5, <2>1, <2>2, <2>3 DEF Accepting
  <1>6. CASE Pushing(c)
    BY <1>6, BeginPushKeeps, ResolveKeeps, PushOKKeeps, RetryKeeps, GotoKeeps, EndKeeps
    DEF Pushing, PushReject, PushCASLost, PushAnswerLost, PushRefused
  <1>7. QED BY <1>1, <1>2, <1>3, <1>4, <1>5, <1>6 DEF ClientStep

\* A step raises an alarm only over pins that are half saved: a fetch that ran to its
\* end holds every tip, and an accept command has cleared the pin.
LEMMA QuietAlarm ==
    ASSUME TypeOK, HostInv, FetchInv, NEW c \in Clients, Quiet(c), ClientStep(c),
           sess'[c].alarm # "none"
    PROVE  sess'[c].pc = "idle" /\ pin'[c] # 0 /\ repoPin'[c] = 0
  <1>1. /\ sess[c].pc # "idle" => sess[c].alarm = "none"
        /\ sess[c].alarm # "none" => pin[c] # 0 /\ repoPin[c] = 0
    BY DEF Quiet
  <1>2. LoadRemoteState(c) # "ok" => pin[c] # 0 /\ repoPin[c] = 0
    BY OnlyHalfSavedRefused DEF Quiet
  <1>3. CASE LocalCommit(c)
    BY <1>1, <1>3 DEF LocalCommit
  <1>4. CASE OpenHelper(c) \/ OpenRepack(c)
    BY <1>2, <1>4, OpenKeeps DEF OpenHelper, OpenRepack, Open, disk
  <1>5. CASE CloseHelper(c) \/ Crash(c) \/ RepackFails(c)
    BY <1>5, EndKeeps DEF CloseHelper, Crash, RepackFails
  <1>6. CASE Fetching(c)
    <2>1. CASE FetchApply(c)
      BY <1>1, <2>1, GotoKeeps DEF FetchApply
    <2>2. CASE FetchApplyCut(c)
      BY <2>2, EndKeeps DEF FetchApplyCut
    <2>3. CASE FetchVerify(c)
      <3>1. Tips(Loaded(c).refs) \subseteq objs[c]
        <4>1. sess[c].cur \in 0..Len(versions)
          BY DEF TypeOK
        <4>2. Loaded(c).refs \in RefMaps
          BY <4>1, ManifestType DEF Loaded, Manifests
        <4>3. Tips(Loaded(c).refs) \subseteq Commits
          BY <4>2, TipsCommits
        <4>4. Needs(Loaded(c)) \subseteq objs[c]
          BY <2>3 DEF FetchInv, FetchVerify
        <4>5. QED BY <4>3, <4>4, ReachAssumption DEF Needs, ReachAll
      <3>2. Goto(c, "pinGen")
        BY <2>3, <3>1 DEF FetchVerify
      <3>3. sess[c].pc # "idle"
        BY <2>3 DEF FetchVerify
      <3>4. QED BY <1>1, <3>2, <3>3, GotoKeeps
    <2>4. QED BY <1>6, <2>1, <2>2, <2>3 DEF Fetching
  <1>7. CASE Saving(c)
    BY <1>1, <1>7, GotoKeeps, ResolveKeeps
    DEF Saving, SaveGeneration, SaveRepoID, MarkApplied
  <1>8. CASE Accepting(c)
    <2>1. CASE AcceptBegin(c)
      BY <2>1, AcceptBeginKeeps
    <2>2. CASE AcceptClearPin(c) \/ AcceptRestorePin(c) \/ AcceptRestoreRepo(c)
      BY <1>1, <2>2, GotoKeeps, EndKeeps
      DEF AcceptClearPin, AcceptRestorePin, AcceptRestoreRepo
    <2>3. CASE AcceptLoad(c)
      BY <1>1, <2>3, AcceptLoadKeeps, EndKeeps DEF AcceptLoad
    <2>4. CASE AcceptFails(c)
      BY <1>1, <1>2, <2>4, AcceptFailsKeeps DEF AcceptFails, Quiet
    <2>5. QED BY <1>8, <2>1, <2>2, <2>3, <2>4 DEF Accepting
  <1>9. CASE Pushing(c)
    <2>1. sess[c].pc # "idle" /\ UNCHANGED disk
      <3>1. UNCHANGED disk
        BY <1>9 DEF Pushing, BeginPush, PushReject, PushOK, PushCASLost, PushAnswerLost,
           PushRefused, RetryAfterCASLost
      <3>2. Offers(c) # {} => sess[c].pc # "idle"
        BY DEF Offers
      <3>3. sess[c].pc # "idle"
        BY <1>9, <3>2 DEF Pushing, BeginPush, PushReject, PushOK, PushCASLost,
           PushAnswerLost, PushRefused, RetryAfterCASLost
      <3>4. QED BY <3>1, <3>3
    <2>2. sess'[c].alarm = "none" \/ (LoadRemoteState(c) # "ok" /\ sess'[c].pc = "idle")
      BY <1>1, <1>9, <2>1, BeginPushKeeps, ResolveKeeps, PushOKKeeps, RetryKeeps,
         GotoKeeps, EndKeeps
      DEF Pushing, PushReject, PushCASLost, PushAnswerLost, PushRefused
    <2>3. QED BY <1>2, <2>1, <2>2 DEF disk
  <1>10. QED BY <1>3, <1>4, <1>5, <1>6, <1>7, <1>8, <1>9 DEF ClientStep, Repacking

\* Every step of anyone keeps every client quiet.
LEMMA StepQuiet ==
    ASSUME Honest, TypeOK, HostInv, FetchInv, AlarmInv, Next
    PROVE  AlarmInv'
  <1> SUFFICES ASSUME NEW d \in Clients PROVE Quiet(d)'
    BY DEF AlarmInv
  <1>1. Quiet(d)
    BY DEF AlarmInv
  <1>2. ASSUME NEW c \in Clients, ClientStep(c) PROVE Quiet(d)'
    <2>1. CASE c = d
      BY <1>1, <1>2, <2>1, QuietPins, QuietCleared, QuietAlarm DEF Quiet
    <2>2. CASE c # d
      BY <1>1, <1>2, <2>2, OthersKeep DEF Quiet
    <2>3. QED BY <2>1, <2>2
  <1>3. QED BY <1>2 DEF Next, Restore, Wipe, Honest

\* The inductive invariant of alarms on an honest host.
LEMMA QuietInvariant ==
    ASSUME Honest PROVE Spec => []AlarmInv
  <1>1. Init => AlarmInv
    BY DEF Init, AlarmInv, Quiet, Idle, NoPins
  <1>2. TypeOK /\ HostInv /\ FetchInv /\ AlarmInv /\ [Next]_vars => AlarmInv'
    <2>1. ASSUME AlarmInv, UNCHANGED vars PROVE AlarmInv'
      BY <2>1 DEF AlarmInv, Quiet, vars, disk
    <2>2. QED BY <2>1, StepQuiet
  <1>3. QED BY <1>1, <1>2, FetchInvariant, PTL DEF Spec

\* On an honest host the only alarm is the refusal of a generation pin whose
\* repository pin a killed session has not saved: no push, squash, repack, retry or
\* accept command of anyone makes a check fail or a fetch come up short (CheckPin,
\* CheckRepoID, fetchBatch).
THEOREM OnlyHalfSavedPinsAlarm ==
    ASSUME Honest PROVE Spec => []AlarmMeansHalfSaved
  <1>1. AlarmInv => AlarmMeansHalfSaved
    BY DEF AlarmInv, Quiet, AlarmMeansHalfSaved, Alarms
  <1>2. QED BY <1>1, QuietInvariant, PTL

-----------------------------------------------------------------------------
(* The two pins *)

\* The repository pin r is that of the pinned version p.
Agree(p, r) == p # 0 => r = Manifest(p).repo

\* Where a session may leave the pins apart, and what will bring them together: a
\* session that saves them is between the two renames, an accept command holds the
\* copies it took and puts them back in order.
Paired(s, p, r) ==
    /\ s.pc \notin {"pinRepo", "clearing", "restoreRepo"} => Agree(p, r)
    /\ s.pc = "pinRepo" => p = s.cur
    /\ s.pc \in {"cleared", "restorePin"} => p = 0
    /\ s.pc \in {"clearing", "cleared", "restorePin", "restoreRepo"} =>
          Agree(s.saved.pin, s.saved.repo)
    /\ s.pc = "restoreRepo" => p = s.saved.pin

\* Every version belongs to some repository.
Founded == \A v \in 1..Len(versions) : Manifest(v).repo # 0

PairInv == Founded /\ \A c \in Clients : Paired(sess[c], pin[c], repoPin[c])

\* A push founds a repository or keeps the one it loaded; a repack loaded one.
LEMMA StepFounded ==
    ASSUME TypeOK, PinInv, Founded, Next
    PROVE  Founded'
  <1>1. CASE UNCHANGED versions
    BY <1>1 DEF Founded, Manifest
  <1>2. ASSUME NEW c \in Clients, NEW offer \in Offers(c), HostTakes(offer.man)
        PROVE  Founded'
    <2>1. PICK n : n = NewVersion
      OBVIOUS
    <2>2. /\ Len(versions') = n /\ versions'[n] = offer.man /\ n \in Nat \ {0}
          /\ n = Len(versions) + 1 /\ Len(versions) \in Nat
      BY <1>2, <2>1, OfferSound, StoreVersion DEF TypeOK, NewVersion
    <2>3. offer.man.repo # 0
      <3>1. CASE sess[c].op # "repack" /\ Loaded(c).repo = 0
        BY <3>1, <2>1, <2>2, OfferSound
      <3>2. CASE sess[c].op = "repack"
        <4>1. sess[c].cur \in 1..Len(versions)
          BY <3>2, OfferFrom DEF TypeOK
        <4>2. Loaded(c).repo # 0
          BY <4>1 DEF Loaded, Founded
        <4>3. QED BY <4>2, OfferSound
      <3>3. CASE Loaded(c).repo # 0
        BY <3>3, OfferSound
      <3>4. QED BY <3>1, <3>2, <3>3
    <2>4. Manifest(n)' = offer.man
      BY <2>2 DEF Manifest
    <2>5. \A v \in 1..Len(versions) : Manifest(v)' = Manifest(v)
      BY StepManifest, <2>2
    <2>6. QED BY <2>2, <2>3, <2>4, <2>5 DEF Founded
  <1>3. QED BY <1>1, <1>2, StepVersions

\* The pins and the session of c agree after a step as they would have before it:
\* versions stay what they are.
LEMMA PairedAfter ==
    ASSUME TypeOK, Next, NEW s, NEW p, NEW r, p \in 0..Len(versions),
           s.saved.pin \in 0..Len(versions), Paired(s, p, r),
           NEW c \in Clients, sess'[c] = s, pin'[c] = p, repoPin'[c] = r
    PROVE  Paired(sess[c], pin[c], repoPin[c])'
  <1>1. Manifest(p)' = Manifest(p) /\ Manifest(s.saved.pin)' = Manifest(s.saved.pin)
    BY StepManifest
  <1>2. QED BY <1>1 DEF Paired, Agree, Manifest

\* A session that is not killed ends, resolves or opens only with agreeing pins.
LEMMA PairedCalm ==
    ASSUME NEW s, NEW t, NEW p, NEW r, Paired(s, p, r),
           s.pc \notin {"pinRepo", "clearing", "restoreRepo"},
           t.pc \notin {"pinRepo", "clearing", "cleared", "restorePin", "restoreRepo"}
    PROVE  Paired(t, p, r)
  BY DEF Paired

\* While no session is killed, every step of a client leaves its pins in agreement,
\* or apart in a way the session will mend.
LEMMA PairedStep ==
    ASSUME TypeOK, Founded, "crash" \notin Faults, NEW c \in Clients, ClientStep(c),
           Paired(sess[c], pin[c], repoPin[c])
    PROVE  Paired(sess'[c], pin'[c], repoPin'[c])
  <1>1. CASE LocalCommit(c)
    BY <1>1 DEF LocalCommit
  <1>2. CASE OpenHelper(c) \/ CloseHelper(c) \/ Repacking(c)
    <2>1. /\ sess[c].pc \in {"idle", "ready", "fetched"} /\ sess'[c].pc \in {"idle", "ready"}
          /\ pin' = pin /\ repoPin' = repoPin
      BY <1>2, OpenKeeps, EndKeeps
      DEF OpenHelper, CloseHelper, Repacking, OpenRepack, RepackFails, Open, disk
    <2>2. QED BY <2>1, PairedCalm
  <1>3. CASE Fetching(c)
    <2>1. /\ sess[c].pc \in {"ready", "fetched"}
          /\ sess'[c].pc \in {"idle", "fetched", "pinGen"}
          /\ pin' = pin /\ repoPin' = repoPin
      BY <1>3, GotoKeeps, EndKeeps
      DEF Fetching, FetchApply, FetchApplyCut, FetchVerify, disk
    <2>2. QED BY <2>1, PairedCalm
  <1>4. CASE Saving(c)
    <2>1. CASE SaveGeneration(c)
      <3>1. /\ sess'[c].pc = "pinRepo" /\ sess'[c].cur = sess[c].cur
            /\ pin'[c] = sess[c].cur
        BY <2>1, GotoKeeps DEF SaveGeneration, TypeOK
      <3>2. QED BY <3>1 DEF Paired
    <2>2. CASE SaveRepoID(c)
      <3>1. /\ sess[c].pc = "pinRepo" /\ sess'[c].pc \in {"idle", "ready", "mark"}
            /\ pin' = pin /\ repoPin'[c] = Manifest(sess[c].cur).repo
        BY <2>2, GotoKeeps, ResolveKeeps DEF SaveRepoID, Loaded, TypeOK
      <3>2. QED BY <3>1 DEF Paired, Agree
    <2>3. CASE MarkApplied(c)
      <3>1. /\ sess[c].pc = "mark" /\ sess'[c].pc \in {"idle", "ready"}
            /\ pin' = pin /\ repoPin' = repoPin
        BY <2>3, ResolveKeeps DEF MarkApplied
      <3>2. QED BY <3>1, PairedCalm
    <2>4. QED BY <1>4, <2>1, <2>2, <2>3 DEF Saving
  <1>5. CASE Pushing(c)
    <2>1. pin' = pin /\ repoPin' = repoPin
      BY <1>5 DEF Pushing, BeginPush, PushReject, PushOK, PushCASLost, PushAnswerLost,
         PushRefused, RetryAfterCASLost, disk
    <2>2. Offers(c) # {} => sess[c].pc \in {"push", "fetched"}
      BY DEF Offers
    <2>3. sess[c].pc \in {"ready", "push", "fetched", "lost"}
      BY <1>5, <2>2 DEF Pushing, BeginPush, PushReject, PushOK, PushCASLost,
         PushAnswerLost, PushRefused, RetryAfterCASLost
    <2>4. sess'[c].pc \in {"idle", "ready", "push", "pinGen", "lost"}
      BY <1>5, BeginPushKeeps, ResolveKeeps, PushOKKeeps, RetryKeeps, GotoKeeps, EndKeeps
      DEF Pushing, PushReject, PushCASLost, PushAnswerLost, PushRefused
    <2>5. QED BY <2>1, <2>3, <2>4, PairedCalm
  <1>6. CASE Accepting(c)
    <2>1. CASE AcceptBegin(c)
      <3>1. sess[c].pc = "idle"
        BY <2>1 DEF AcceptBegin
      <3>2. QED BY <2>1, <3>1, AcceptBeginKeeps DEF Paired, Agree
    <2>2. CASE AcceptClearPin(c)
      <3>1. /\ sess[c].pc = "clearing" /\ sess'[c].pc = "cleared"
            /\ sess'[c].saved = sess[c].saved /\ pin'[c] = 0
        BY <2>2, GotoKeeps DEF AcceptClearPin, TypeOK
      <3>2. QED BY <3>1 DEF Paired, Agree
    <2>3. CASE AcceptLoad(c)
      <3>1. /\ sess[c].pc = "cleared" /\ sess'[c].pc \in {"idle", "pinGen"}
            /\ pin' = pin /\ repoPin' = repoPin
        BY <2>3, AcceptLoadKeeps, EndKeeps DEF AcceptLoad, disk
      <3>2. QED BY <3>1, PairedCalm
    <2>4. CASE AcceptFails(c)
      <3>1. /\ sess[c].pc = "cleared" /\ sess'[c].pc = "restorePin"
            /\ sess'[c].saved = sess[c].saved /\ pin' = pin /\ repoPin' = repoPin
        BY <2>4, AcceptFailsKeeps DEF AcceptFails, disk
      <3>2. QED BY <3>1 DEF Paired
    <2>5. CASE AcceptRestorePin(c)
      <3>1. /\ sess[c].pc = "restorePin" /\ sess'[c].pc = "restoreRepo"
            /\ sess'[c].saved = sess[c].saved /\ repoPin' = repoPin
            /\ pin'[c] = IF sess[c].saved.pin = 0 THEN pin[c] ELSE sess[c].saved.pin
        BY <2>5, GotoKeeps DEF AcceptRestorePin, TypeOK
      <3>2. QED BY <3>1 DEF Paired
    <2>6. CASE AcceptRestoreRepo(c)
      <3>1. /\ sess[c].pc = "restoreRepo" /\ sess'[c].pc = "idle" /\ pin' = pin
            /\ repoPin'[c] = IF sess[c].saved.repo = 0 THEN repoPin[c]
                             ELSE sess[c].saved.repo
        BY <2>6, EndKeeps DEF AcceptRestoreRepo, TypeOK
      <3>2. pin[c] # 0 => sess[c].saved.repo = Manifest(pin[c]).repo
        BY <3>1 DEF Paired, Agree
      <3>3. pin[c] # 0 => Manifest(pin[c]).repo # 0
        BY DEF Founded, TypeOK
      <3>4. QED BY <3>1, <3>2, <3>3 DEF Paired, Agree
    <2>7. QED BY <1>6, <2>1, <2>2, <2>3, <2>4, <2>5, <2>6 DEF Accepting
  <1>7. CASE Crash(c)
    BY <1>7 DEF Crash
  <1>8. QED BY <1>1, <1>2, <1>3, <1>4, <1>5, <1>6, <1>7 DEF ClientStep

\* The pins a client has, or saved, name versions older than the step.
LEMMA PinsNamed ==
    ASSUME TypeOK, TypeOK', NEW c \in Clients, ClientStep(c)
    PROVE  pin'[c] \in 0..Len(versions) /\ sess'[c].saved.pin \in 0..Len(versions)
  <1>1. CASE PushOK(c) \/ PushAnswerLost(c)
    <2>1. pin' = pin
      BY <1>1 DEF PushOK, PushAnswerLost, disk
    <2>2. sess'[c].saved = sess[c].saved \/ sess'[c].saved = NoPins
      BY <1>1, PushOKKeeps, GotoKeeps, EndKeeps DEF PushAnswerLost
    <2>3. QED BY <2>1, <2>2 DEF TypeOK, NoPins
  <1>2. CASE ~PushOK(c) /\ ~PushAnswerLost(c)
    <2>1. versions' = versions
      BY <1>2 DEF ClientStep, Fetching, Saving, Pushing, Repacking, Accepting,
         LocalCommit, OpenHelper, Open, CloseHelper, Crash, FetchApply, FetchApplyCut,
         FetchVerify, SaveGeneration, SaveRepoID, MarkApplied, BeginPush, PushReject,
         PushCASLost, PushRefused, RetryAfterCASLost, OpenRepack, RepackFails,
         AcceptBegin, AcceptClearPin, AcceptLoad, AcceptFails, AcceptRestorePin,
         AcceptRestoreRepo, host
    <2>2. QED BY <2>1 DEF TypeOK
  <1>3. QED BY <1>1, <1>2

\* Every step of anyone leaves every pair of pins in agreement, or to be mended.
LEMMA StepPaired ==
    ASSUME "crash" \notin Faults, TypeOK, TypeOK', PinInv, PairInv, Next
    PROVE  PairInv'
  <1> SUFFICES ASSUME NEW d \in Clients PROVE Paired(sess[d], pin[d], repoPin[d])'
    BY StepFounded DEF PairInv
  <1>1. Founded /\ Paired(sess[d], pin[d], repoPin[d])
    BY DEF PairInv
  <1>2. /\ pin[d] \in 0..Len(versions) /\ sess[d].saved.pin \in 0..Len(versions)
    BY DEF TypeOK
  <1>3. PICK s, p, r : s = sess'[d] /\ p = pin'[d] /\ r = repoPin'[d]
    OBVIOUS
  <1>4. ASSUME NEW c \in Clients, ClientStep(c)
        PROVE  Paired(s, p, r) /\ p \in 0..Len(versions) /\ s.saved.pin \in 0..Len(versions)
    <2>1. CASE c = d
      BY <1>1, <1>3, <1>4, <2>1, PairedStep, PinsNamed
    <2>2. CASE c # d
      BY <1>1, <1>2, <1>3, <1>4, <2>2, OthersKeep
    <2>3. QED BY <2>1, <2>2
  <1>5. CASE Restore \/ Wipe
    <2>1. sess' = sess /\ pin' = pin /\ repoPin' = repoPin
      BY <1>5 DEF Restore, Wipe, disk
    <2>2. QED BY <1>1, <1>2, <1>3, <2>1, PairedAfter
  <1>6. QED BY <1>3, <1>4, <1>5, PairedAfter DEF Next

\* The inductive invariant of the two pins.
LEMMA PairInvariant ==
    ASSUME "crash" \notin Faults PROVE Spec => [](TypeOK /\ PinInv /\ PairInv)
  <1>1. Init => PairInv
    <2>1. ASSUME Init PROVE PairInv
      BY <2>1 DEF Init, PairInv, Founded, Paired, Agree, Idle
    <2>2. QED BY <2>1
  <1>2. TypeOK /\ TypeOK' /\ PinInv /\ PairInv /\ [Next]_vars => PairInv'
    <2>1. ASSUME PairInv, UNCHANGED vars PROVE PairInv'
      BY <2>1 DEF PairInv, Founded, Paired, Agree, Manifest, vars, host, disk
    <2>2. QED BY <2>1, StepPaired
  <1>3. QED BY <1>1, <1>2, PinInvariant, PTL DEF Spec

\* While no session is killed, a client between two sessions remembers with its
\* generation the repository it is of, whatever the host did and however accept
\* commands failed: their restore puts back the pair they took (SavePins,
\* runAcceptOnSession).
THEOREM PinsStayPaired ==
    ASSUME "crash" \notin Faults PROVE Spec => []PinsAgree
  <1>1. PairInv => PinsAgree
    BY DEF PairInv, Paired, Agree, PinsAgree
  <1>2. QED BY <1>1, PairInvariant, PTL

\* Half-saved pins are all that an interruption leaves behind: on an honest host
\* nobody is ever alarmed unless a session was killed.  With crashes the documented
\* claim is false, which the run "interrupted" shows.
THEOREM OnlyKillsAlarm ==
    ASSUME Honest, "crash" \notin Faults PROVE Spec => []InterruptionNeverBlocks
  <1>1. TypeOK /\ PairInv /\ AlarmInv => InterruptionNeverBlocks
    <2> SUFFICES ASSUME TypeOK, PairInv, AlarmInv, NEW c \in Clients,
                        sess[c].alarm # "none"
                 PROVE  FALSE
      BY DEF InterruptionNeverBlocks
    <2>1. sess[c].pc = "idle" /\ pin[c] # 0 /\ repoPin[c] = 0
      BY DEF AlarmInv, Quiet
    <2>2. repoPin[c] = Manifest(pin[c]).repo
      BY <2>1 DEF PairInv, Paired, Agree
    <2>3. QED BY <2>1, <2>2 DEF PairInv, Founded, TypeOK
  <1>2. QED BY <1>1, PairInvariant, QuietInvariant, PTL
=============================================================================
