------------------------- MODULE LocalStore_proofs -------------------------
(***************************************************************************)
(* Theorems about the object store, for every set of remotes and every     *)
(* division of their history into packs: its types; that a fetch loses     *)
(* nothing it indexed before git has set its refs; and that an alarm of an *)
(* honest host means that git has collected objects.                       *)
(***************************************************************************)
EXTENDS LocalStore, TLAPS

FetchPcs == {"idle", "list", "reap", "ready", "apply", "verify", "wire", "unlock", "tamper"}

FetchTypes ==
    [pc : FetchPcs, keeps : SUBSET StorePacks, seen : SUBSET Commits,
     want : SUBSET Commits, todo : Seq(StorePacks), locks : Seq(StorePacks),
     whole : {"unasked", "yes", "no"}]

GcTypes == [pc : {"idle", "sweep"}, listed : SUBSET StorePacks, live : SUBSET Commits]

\* The types StoreTypeOK leaves out.
Typed ==
    /\ files \in [StorePacks -> {"absent", "kept", "plain"}]
    /\ loose \in SUBSET Commits /\ pruned \in SUBSET Commits
    /\ wired \in [Remotes -> SUBSET Commits]
    /\ recorded \in [Remotes -> SUBSET StorePacks]
    /\ fetch \in [Remotes -> FetchTypes]
    /\ gc \in GcTypes
    /\ \A r \in Remotes : wired[r] \subseteq HostRefs[r] /\ fetch[r].want \subseteq HostRefs[r]
    /\ \A r \in Remotes : recorded[r] \subseteq Range(LivePacks[r])

-----------------------------------------------------------------------------
(* The operators of the model *)

\* The packs of a list are those of the set it is drawn from; its first pack and
\* the rest make up the list.
LEMMA RangeSeq ==
    ASSUME NEW S, NEW s \in Seq(S)
    PROVE  /\ Range(s) \subseteq S
           /\ s = <<>> => Range(s) = {}
           /\ s # <<>> => /\ Head(s) \in S /\ Tail(s) \in Seq(S)
                          /\ Range(s) = {Head(s)} \cup Range(Tail(s))
  <1>1. Range(s) \subseteq S
    BY DEF Range
  <1>2. s = <<>> => Range(s) = {}
    BY DEF Range
  <1>3. ASSUME s # <<>>
        PROVE  /\ Head(s) \in S /\ Tail(s) \in Seq(S)
               /\ Range(s) = {Head(s)} \cup Range(Tail(s))
    <2>1. Len(s) \in Nat \ {0} /\ DOMAIN s = 1..Len(s)
      BY <1>3
    <2>2. Head(s) = s[1] /\ Head(s) \in S /\ Tail(s) \in Seq(S)
      BY <1>3
    <2>3. /\ DOMAIN Tail(s) = 1..(Len(s) - 1)
          /\ \A i \in 1..(Len(s) - 1) : Tail(s)[i] = s[i + 1]
      BY <1>3
    <2>4. \A p : p \in Range(s) => p = Head(s) \/ p \in Range(Tail(s))
      <3>1. SUFFICES ASSUME NEW i \in 1..Len(s), i # 1
                     PROVE  s[i] \in Range(Tail(s))
        BY <2>1, <2>2 DEF Range
      <3>2. i - 1 \in 1..(Len(s) - 1) /\ s[i] = Tail(s)[i - 1]
        BY <2>1, <2>3, <3>1
      <3>3. QED BY <2>3, <3>2 DEF Range
    <2>5. \A p : p \in Range(Tail(s)) => p \in Range(s)
      <3>1. SUFFICES ASSUME NEW i \in 1..(Len(s) - 1)
                     PROVE  Tail(s)[i] \in Range(s)
        BY <2>3 DEF Range
      <3>2. i + 1 \in 1..Len(s) /\ Tail(s)[i] = s[i + 1]
        BY <2>1, <2>3
      <3>3. QED BY <2>1, <3>2 DEF Range
    <2>6. Head(s) \in Range(s)
      BY <2>1, <2>2 DEF Range
    <2>7. QED BY <2>2, <2>4, <2>5, <2>6
  <1>4. QED BY <1>1, <1>2, <1>3

\* Appending a pack to a list adds it.
LEMMA RangeAppend ==
    ASSUME NEW S, NEW s \in Seq(S), NEW p \in S
    PROVE  Append(s, p) \in Seq(S) /\ Range(Append(s, p)) = Range(s) \cup {p}
  <1>1. /\ Append(s, p) \in Seq(S) /\ Len(s) \in Nat
        /\ DOMAIN s = 1..Len(s) /\ DOMAIN Append(s, p) = 1..(Len(s) + 1)
        /\ \A i \in 1..Len(s) : Append(s, p)[i] = s[i]
        /\ Append(s, p)[Len(s) + 1] = p
    OBVIOUS
  <1>2. ASSUME NEW q \in Range(Append(s, p)) PROVE q \in Range(s) \cup {p}
    <2>1. PICK i \in 1..(Len(s) + 1) : q = Append(s, p)[i]
      BY <1>1 DEF Range
    <2>2. i = Len(s) + 1 \/ i \in 1..Len(s)
      BY <1>1
    <2>3. QED BY <1>1, <2>1, <2>2 DEF Range
  <1>3. ASSUME NEW q \in Range(s) PROVE q \in Range(Append(s, p))
    <2>1. PICK i \in 1..Len(s) : q = s[i]
      BY <1>1 DEF Range
    <2>2. i \in 1..(Len(s) + 1) /\ q = Append(s, p)[i]
      BY <1>1, <2>1
    <2>3. QED BY <1>1, <2>2 DEF Range
  <1>4. p \in Range(Append(s, p))
    <2>1. Len(s) + 1 \in 1..(Len(s) + 1)
      BY <1>1
    <2>2. QED BY <1>1, <2>1 DEF Range
  <1>5. QED BY <1>1, <1>2, <1>3, <1>4

\* A manifest's packs are packs of the store.
LEMMA LiveType ==
    ASSUME NEW r \in Remotes
    PROVE  LivePacks[r] \in Seq(StorePacks) /\ Range(LivePacks[r]) \subseteq StorePacks
  BY RangeSeq, LivePacksAssumption

\* What a set of commits reaches is commits, and grows with the set.
LEMMA Reaches ==
    /\ \A S \in SUBSET Commits : S \subseteq ReachAll(S) /\ ReachAll(S) \in SUBSET Commits
    /\ \A S, T \in SUBSET Commits : S \subseteq T => ReachAll(S) \subseteq ReachAll(T)
  BY ReachAssumption DEF ReachAll

\* The live commits are commits; they grow with the refs git has set.
LEMMA LiveGrows ==
    ASSUME Typed, Typed', \A r \in Remotes : wired[r] \subseteq wired'[r]
    PROVE  LiveCommits \subseteq LiveCommits'
  <1>1. WiredTips \in SUBSET Commits /\ WiredTips' \in SUBSET Commits
    BY DEF Typed, WiredTips
  <1>2. WiredTips \subseteq WiredTips'
    BY DEF WiredTips
  <1>3. QED BY <1>1, <1>2, Reaches DEF LiveCommits, ReachAll

\* The live commits and the stored ones are commits.
LEMMA SetTypes ==
    ASSUME Typed
    PROVE  LiveCommits \in SUBSET Commits /\ Stored \in SUBSET Commits
  <1>1. WiredTips \in SUBSET Commits
    BY DEF Typed, WiredTips
  <1>2. LiveCommits \in SUBSET Commits
    BY <1>1, Reaches DEF LiveCommits
  <1>3. Stored \in SUBSET Commits
    BY PackCommitsAssumption DEF Typed, Stored
  <1>4. QED BY <1>2, <1>3

\* While no pack disappears the store loses nothing.
LEMMA StoredGrows ==
    ASSUME loose \subseteq loose',
           \A p \in StorePacks : files[p] # "absent" => files'[p] # "absent"
    PROVE  Stored \subseteq Stored'
  BY DEF Stored

\* A pack that is there has its objects in the store.
LEMMA PackStored ==
    ASSUME NEW p \in StorePacks, files[p] # "absent"
    PROVE  PackCommits[p] \subseteq Stored
  BY DEF Stored

-----------------------------------------------------------------------------
(* Types *)

\* The session of r, when it changes, becomes a session; the others stay.
LEMMA FetchTyped ==
    ASSUME Typed, NEW r \in Remotes, NEW f \in FetchTypes,
           f.want \subseteq HostRefs[r],
           fetch' = [fetch EXCEPT ![r] = f]
    PROVE  /\ fetch' \in [Remotes -> FetchTypes]
           /\ fetch'[r] = f /\ \A q \in Remotes \ {r} : fetch'[q] = fetch[q]
           /\ \A q \in Remotes : fetch'[q].want \subseteq HostRefs[q]
  BY DEF Typed

\* Every step of a session keeps the types.
LEMMA SessionTyped ==
    ASSUME Typed, NEW r \in Remotes, SessionStep(r) \/ KillFetch(r)
    PROVE  Typed'
  <1> DEFINE old == fetch[r]
  <1>1. /\ old \in FetchTypes /\ NoFetch \in FetchTypes
        /\ fetch \in [Remotes -> FetchTypes]
        /\ NoFetch.want \subseteq HostRefs[r] /\ old.want \subseteq HostRefs[r]
    <2>1. NoFetch \in FetchTypes /\ NoFetch.want = {}
      BY DEF NoFetch, FetchTypes, FetchPcs
    <2>2. QED BY <2>1 DEF Typed
  <1>2. LiveCommits \in SUBSET Commits /\ Stored \in SUBSET Commits
    BY SetTypes
  <1>3. CASE ListKeeps(r)
    <2> DEFINE ours == {p \in StorePacks : files[p] = "kept"}
               f == [old EXCEPT !.keeps = ours, !.pc = IF ours = {} THEN "ready" ELSE "list"]
    <2>1. f \in FetchTypes /\ f.want = old.want
      BY <1>1 DEF FetchTypes, FetchPcs
    <2>2. fetch' = [fetch EXCEPT ![r] = f]
      BY <1>1, <1>3 DEF ListKeeps, FetchTypes
    <2> HIDE DEF f
    <2>3. QED BY <1>1, <1>3, <2>1, <2>2, FetchTyped DEF ListKeeps, Typed
  <1>4. CASE ReachableObjects(r)
    <2> DEFINE f == IF RefsIntact THEN [old EXCEPT !.pc = "reap", !.seen = LiveCommits]
                    ELSE [NoFetch EXCEPT !.pc = "ready"]
    <2>1. f \in FetchTypes /\ f.want \in {old.want, {}}
      BY <1>1, <1>2 DEF FetchTypes, FetchPcs, NoFetch
    <2>2. fetch' = [fetch EXCEPT ![r] = f]
      BY <1>1, <1>4 DEF ReachableObjects
    <2> HIDE DEF f
    <2>3. QED BY <1>1, <1>4, <2>1, <2>2, FetchTyped DEF ReachableObjects, Typed
  <1>5. ASSUME NEW p \in StorePacks, ReapKeep(r, p) PROVE Typed'
    <2> DEFINE f == IF old.keeps = {p} THEN [NoFetch EXCEPT !.pc = "ready"]
                    ELSE [old EXCEPT !.keeps = old.keeps \ {p}]
    <2>1. f \in FetchTypes /\ f.want \in {old.want, {}}
      BY <1>1 DEF FetchTypes, FetchPcs, NoFetch
    <2>2. fetch' = [fetch EXCEPT ![r] = f]
      BY <1>1, <1>5 DEF ReapKeep
    <2>3. files' \in [StorePacks -> {"absent", "kept", "plain"}]
      BY <1>5 DEF ReapKeep, Typed
    <2> HIDE DEF f
    <2>4. QED BY <1>1, <1>5, <2>1, <2>2, <2>3, FetchTyped DEF ReapKeep, Typed
  <1>6. CASE BeginFetch(r)
    <2>1. PICK want \in (SUBSET HostRefs[r]) \ {{}} :
              fetch' = [fetch EXCEPT ![r].want = want,
                        ![r].pc = IF ReachAll(want) \subseteq Stored THEN "wire" ELSE "apply",
                        ![r].todo = IF ReachAll(want) \subseteq Stored THEN <<>> ELSE LivePacks[r]]
      BY <1>6 DEF BeginFetch
    <2> DEFINE f == [old EXCEPT !.want = want,
                        !.pc = IF ReachAll(want) \subseteq Stored THEN "wire" ELSE "apply",
                        !.todo = IF ReachAll(want) \subseteq Stored THEN <<>> ELSE LivePacks[r]]
    <2>2. want \in SUBSET Commits /\ want \subseteq HostRefs[r]
      BY HostRefsAssumption
    <2>3. <<>> \in Seq(StorePacks) /\ LivePacks[r] \in Seq(StorePacks)
      BY LiveType
    <2>4. f \in FetchTypes /\ f.want = want
      BY <1>1, <2>2, <2>3 DEF FetchTypes, FetchPcs
    <2>5. fetch' = [fetch EXCEPT ![r] = f]
      BY <1>1, <2>1 DEF FetchTypes
    <2> HIDE DEF f
    <2>6. QED BY <1>6, <2>2, <2>4, <2>5, FetchTyped DEF BeginFetch, Typed
  <1>7. CASE ApplyPack(r)
    <2> DEFINE p == Head(old.todo)  rest == Tail(old.todo)
    <2>1. p \in StorePacks /\ rest \in Seq(StorePacks) /\ old.locks \in Seq(StorePacks)
      <3>1. old.todo \in Seq(StorePacks) /\ old.todo # <<>>
        BY <1>1, <1>7 DEF ApplyPack, FetchTypes
      <3>2. QED BY <1>1, <3>1, RangeSeq DEF FetchTypes
    <2>2. Append(old.locks, p) \in Seq(StorePacks)
      BY <2>1, RangeAppend
    <2>3. \E f \in FetchTypes : f.want = old.want /\ fetch' = [fetch EXCEPT ![r] = f]
      <3>1. CASE fetch' = [fetch EXCEPT ![r].todo = rest]
        <4> DEFINE f == [old EXCEPT !.todo = rest]
        <4>1. f \in FetchTypes /\ f.want = old.want
          BY <1>1, <2>1 DEF FetchTypes
        <4>2. fetch' = [fetch EXCEPT ![r] = f]
          BY <3>1
        <4>3. QED BY <4>1, <4>2
      <3>2. CASE fetch' = [fetch EXCEPT ![r].todo = rest, ![r].whole = "yes"]
        <4> DEFINE f == [old EXCEPT !.todo = rest, !.whole = "yes"]
        <4>1. f \in FetchTypes /\ f.want = old.want
          BY <1>1, <2>1 DEF FetchTypes
        <4>2. fetch' = [fetch EXCEPT ![r] = f]
          BY <1>1, <3>2 DEF FetchTypes
        <4>3. QED BY <4>1, <4>2
      <3>3. CASE IndexPack(r, p)
        <4> DEFINE f == [old EXCEPT !.todo = rest, !.whole = "no",
                            !.locks = IF files[p] = "kept" THEN @ ELSE Append(@, p)]
        <4>1. f \in FetchTypes /\ f.want = old.want
          BY <1>1, <2>1, <2>2 DEF FetchTypes
        <4>2. fetch' = [fetch EXCEPT ![r] = f]
          BY <1>1, <3>3 DEF FetchTypes, IndexPack
        <4>3. QED BY <4>1, <4>2
      <3>4. QED BY <1>7, <3>1, <3>2, <3>3 DEF ApplyPack
    <2>4. PICK f \in FetchTypes : f.want = old.want /\ fetch' = [fetch EXCEPT ![r] = f]
      BY <2>3
    <2>5. /\ fetch' \in [Remotes -> FetchTypes]
          /\ \A q \in Remotes : fetch'[q].want \subseteq HostRefs[q]
      BY <1>1, <2>4, FetchTyped
    <2>6. files' \in [StorePacks -> {"absent", "kept", "plain"}]
      <3>1. files' = files \/ files' = [files EXCEPT ![p] = "kept"]
        BY <1>7 DEF ApplyPack, IndexPack
      <3>2. QED BY <2>1, <3>1 DEF Typed
    <2>7. UNCHANGED <<loose, wired, recorded, gc, pruned>>
      BY <1>7 DEF ApplyPack
    <2>8. QED BY <2>5, <2>6, <2>7 DEF Typed
  <1>8. CASE RecordApplied(r)
    <2> DEFINE f == [old EXCEPT !.pc = "verify", !.whole = "unasked"]
    <2>1. f \in FetchTypes /\ f.want = old.want
      BY <1>1 DEF FetchTypes, FetchPcs
    <2>2. fetch' = [fetch EXCEPT ![r] = f]
      BY <1>1, <1>8 DEF RecordApplied, FetchTypes
    <2>3. /\ recorded' \in [Remotes -> SUBSET StorePacks]
          /\ \A q \in Remotes : recorded'[q] \subseteq Range(LivePacks[q])
      BY <1>8, LiveType DEF RecordApplied, Typed
    <2> HIDE DEF f
    <2>4. QED BY <1>1, <1>8, <2>1, <2>2, <2>3, FetchTyped DEF RecordApplied, Typed
  <1>9. CASE VerifyObjects(r)
    <2> DEFINE f == IF old.want \subseteq Stored THEN [old EXCEPT !.pc = "wire"]
                    ELSE [NoFetch EXCEPT !.pc = "tamper"]
    <2>1. f \in FetchTypes /\ f.want \in {old.want, {}}
      BY <1>1 DEF FetchTypes, FetchPcs, NoFetch
    <2>2. fetch' = [fetch EXCEPT ![r] = f]
      BY <1>1, <1>9 DEF VerifyObjects
    <2> HIDE DEF f
    <2>3. QED BY <1>1, <1>9, <2>1, <2>2, FetchTyped DEF VerifyObjects, Typed
  <1>10. CASE WireRefs(r)
    <2> DEFINE f == [old EXCEPT !.pc = "unlock", !.want = {}]
    <2>1. f \in FetchTypes /\ f.want = {}
      BY <1>1 DEF FetchTypes, FetchPcs
    <2>2. fetch' = [fetch EXCEPT ![r] = f]
      BY <1>1, <1>10 DEF WireRefs, FetchTypes
    <2>3. /\ wired' \in [Remotes -> SUBSET Commits]
          /\ \A q \in Remotes : wired'[q] \subseteq HostRefs[q]
      <3>1. old.want \in SUBSET Commits
        BY <1>1 DEF FetchTypes
      <3>2. wired' = wired \/ wired' = [wired EXCEPT ![r] = @ \cup old.want]
        BY <1>10 DEF WireRefs
      <3>3. QED BY <1>1, <3>1, <3>2 DEF Typed
    <2> HIDE DEF f
    <2>4. QED BY <1>1, <1>10, <2>1, <2>2, <2>3, FetchTyped DEF WireRefs, Typed
  <1>11. CASE Unlock(r)
    <2>1. files' \in [StorePacks -> {"absent", "kept", "plain"}]
      BY <1>11 DEF Unlock, Typed
    <2>2. fetch' = [fetch EXCEPT ![r] = NoFetch]
      BY <1>11 DEF Unlock
    <2>3. QED BY <1>1, <1>11, <2>1, <2>2, FetchTyped DEF Unlock, Typed
  <1>12. CASE CloseSession(r) \/ KillFetch(r)
    <2>1. /\ fetch' = [fetch EXCEPT ![r] = NoFetch]
          /\ UNCHANGED <<files, loose, wired, recorded, gc, pruned>>
      BY <1>12 DEF CloseSession, KillFetch
    <2>2. QED BY <1>1, <2>1, FetchTyped DEF Typed
  <1>13. QED
    BY <1>3, <1>4, <1>5, <1>6, <1>7, <1>8, <1>9, <1>10, <1>11, <1>12 DEF SessionStep

\* The garbage collection keeps the types.
LEMMA GcTyped ==
    ASSUME Typed, GcScan \/ GcSweep
    PROVE  Typed'
  <1>1. CASE GcScan
    <2>1. gc' \in GcTypes
      BY <1>1, SetTypes DEF GcScan, GcTypes
    <2>2. QED BY <1>1, <2>1 DEF GcScan, Typed
  <1>2. CASE GcSweep
    <2> DEFINE held == loose \cup UNION {PackCommits[p] : p \in gc.listed}
    <2>1. held \in SUBSET Commits
      BY PackCommitsAssumption DEF Typed, GcTypes
    <2>2. loose' \in SUBSET Commits /\ pruned' \in SUBSET Commits
      BY <1>2, <2>1 DEF GcSweep, Typed
    <2>3. gc' \in GcTypes
      BY <1>2 DEF GcSweep, GcTypes, NoGc
    <2>4. files' \in [StorePacks -> {"absent", "kept", "plain"}]
      BY <1>2 DEF GcSweep, Typed
    <2>5. UNCHANGED <<wired, recorded, fetch>>
      BY <1>2 DEF GcSweep
    <2>6. QED BY <2>2, <2>3, <2>4, <2>5 DEF Typed
  <1>3. QED BY <1>1, <1>2

\* A repository starts with an empty store.
LEMMA InitTyped == StoreInit => Typed
  <1>1. NoFetch \in FetchTypes /\ NoFetch.want = {} /\ NoGc \in GcTypes
    BY DEF NoFetch, FetchTypes, FetchPcs, NoGc, GcTypes
  <1>2. QED BY <1>1 DEF StoreInit, Typed

\* Every step keeps the types.
LEMMA StepTyped == Typed /\ [StoreNext]_storeVars => Typed'
  <1>1. Typed /\ UNCHANGED storeVars => Typed'
    BY DEF Typed, storeVars
  <1>2. QED BY <1>1, SessionTyped, GcTyped DEF StoreNext

\* The types hold of every behaviour.
LEMMA StoreTyped == StoreSpec => []Typed
  BY InitTyped, StepTyped, PTL DEF StoreSpec

\* Every session, keep and record of a repository is about packs and commits there
\* are (keeps.go, state.go), however its fetches and git gc interleave.
THEOREM StoreTypes == StoreSpec => []StoreTypeOK
  <1>1. Typed => StoreTypeOK
    BY DEF Typed, StoreTypeOK
  <1>2. QED BY <1>1, StoreTyped, PTL

-----------------------------------------------------------------------------
(* AlarmMeansPruned *)

\* The objects that were in the store at some time.
Known == Stored \cup pruned

\* The whole history of r's refs was in the store at some time.
Reached(r) == ReachAll(HostRefs[r]) \subseteq Known

\* A session records its packs, answers "whole" and goes on to verify only when
\* all of its remote's history was there once; the packs it has passed over and
\* the ones it has indexed account for that history.
PrunedPart(r) ==
    /\ recorded[r] # {} => Reached(r)
    /\ fetch[r].pc = "verify" => Reached(r)
    /\ fetch[r].whole = "yes" => Reached(r)
    /\ fetch[r].pc = "apply" =>
          \A p \in Range(LivePacks[r]) \ Range(fetch[r].todo) :
              Reached(r) \/ PackCommits[p] \subseteq Known
    /\ fetch[r].pc = "tamper" => ReachAll(HostRefs[r]) \cap pruned # {}
    /\ fetch[r].pc # "apply" => fetch[r].whole = "unasked"

PrunedInv == Typed /\ \A r \in Remotes : PrunedPart(r)

\* A session step loses no object and collects none.
LEMMA SessionKeepsObjects ==
    ASSUME Typed, NEW r \in Remotes, SessionStep(r) \/ KillFetch(r)
    PROVE  /\ loose' = loose /\ pruned' = pruned /\ gc' = gc
           /\ \A p \in StorePacks : files[p] # "absent" => files'[p] # "absent"
           /\ \A q \in Remotes : wired[q] \subseteq wired'[q]
  <1> USE DEF Typed
  <1>1. CASE ListKeeps(r) \/ ReachableObjects(r) \/ BeginFetch(r) \/ VerifyObjects(r)
             \/ CloseSession(r) \/ KillFetch(r) \/ RecordApplied(r)
    BY <1>1 DEF ListKeeps, ReachableObjects, BeginFetch, VerifyObjects, CloseSession,
                KillFetch, RecordApplied
  <1>2. ASSUME NEW p \in StorePacks, ReapKeep(r, p)
        PROVE  /\ UNCHANGED <<loose, pruned, gc, wired>>
               /\ \A x \in StorePacks : files[x] # "absent" => files'[x] # "absent"
    BY <1>2 DEF ReapKeep
  <1>3. CASE ApplyPack(r)
    <2>1. files' = files \/ files' = [files EXCEPT ![Head(fetch[r].todo)] = "kept"]
      BY <1>3 DEF ApplyPack, IndexPack
    <2>2. UNCHANGED <<loose, pruned, gc, wired>>
      BY <1>3 DEF ApplyPack
    <2>3. QED BY <2>1, <2>2
  <1>4. CASE WireRefs(r)
    BY <1>4 DEF WireRefs
  <1>5. CASE Unlock(r)
    BY <1>5 DEF Unlock
  <1>6. QED BY <1>1, <1>2, <1>3, <1>4, <1>5 DEF SessionStep

\* Only the session that steps changes, and only its record.
LEMMA OtherSessions ==
    ASSUME Typed, NEW r \in Remotes, SessionStep(r) \/ KillFetch(r),
           NEW q \in Remotes, q # r
    PROVE  fetch'[q] = fetch[q] /\ recorded'[q] = recorded[q]
  BY DEF Typed, SessionStep, ListKeeps, ReachableObjects, ReapKeep, BeginFetch, ApplyPack,
         IndexPack, RecordApplied, VerifyObjects, WireRefs, Unlock, CloseSession, KillFetch

\* Knowing more does not disturb a session that stands still.
LEMMA PrunedFrame ==
    ASSUME NEW r \in Remotes, PrunedPart(r), Known \subseteq Known', pruned \subseteq pruned',
           fetch'[r] = fetch[r], recorded'[r] = recorded[r]
    PROVE  PrunedPart(r)'
  BY DEF PrunedPart, Reached

\* A session that has passed all packs of its manifest knows the whole history.
LEMMA AllPassed ==
    ASSUME Typed, NEW r \in Remotes, PrunedPart(r), fetch[r].pc = "apply",
           fetch[r].todo = <<>>
    PROVE  Reached(r)
  <1>1. \A p \in Range(LivePacks[r]) : Reached(r) \/ PackCommits[p] \subseteq Known
    <2>1. Range(fetch[r].todo) = {}
      BY DEF Range
    <2>2. QED BY <2>1 DEF PrunedPart
  <1>2. QED BY <1>1, CompleteAssumption DEF Reached

\* The memoized answer of a session is "whole" only when the history was there.
LEMMA WholeReached ==
    ASSUME NEW r \in Remotes, PrunedPart(r), Whole(r)
    PROVE  Reached(r)
  BY DEF PrunedPart, Whole, Reached, Known

\* Every step of the session of r keeps its part of the invariant.
LEMMA SessionPruned ==
    ASSUME Typed, NEW r \in Remotes, PrunedPart(r), SessionStep(r) \/ KillFetch(r),
           Known \subseteq Known', pruned' = pruned, Stored \subseteq Stored'
    PROVE  PrunedPart(r)'
  <1> DEFINE old == fetch[r]
  <1>1. /\ old \in FetchTypes /\ fetch \in [Remotes -> FetchTypes]
        /\ NoFetch.whole = "unasked" /\ NoFetch.pc = "idle"
    BY DEF Typed, NoFetch
  <1>2. Reached(r) => Reached(r)'
    BY DEF Reached
  <1>3. \* a step to another state than "apply", "verify" and "tamper"
        ASSUME recorded'[r] = recorded[r], fetch'[r].whole = "unasked",
               fetch'[r].pc \notin {"apply", "verify", "tamper"}
        PROVE  PrunedPart(r)'
    BY <1>2, <1>3 DEF PrunedPart
  <1>4. CASE ListKeeps(r) \/ ReachableObjects(r) \/ CloseSession(r) \/ KillFetch(r)
             \/ Unlock(r) \/ WireRefs(r) \/ \E p \in StorePacks : ReapKeep(r, p)
    <2>1. recorded' = recorded
      BY <1>4 DEF ListKeeps, ReachableObjects, CloseSession, KillFetch, Unlock, WireRefs,
                  ReapKeep
    <2>2. CASE ListKeeps(r)
      <3>1. old.whole = "unasked"
        BY <2>2 DEF PrunedPart, ListKeeps
      <3>2. fetch'[r].whole = old.whole /\ fetch'[r].pc \in {"ready", "list"}
        BY <1>1, <2>2 DEF ListKeeps, FetchTypes
      <3>3. QED BY <1>3, <2>1, <3>1, <3>2
    <2>3. CASE ReachableObjects(r)
      <3>1. old.whole = "unasked"
        BY <2>3 DEF PrunedPart, ReachableObjects
      <3>2. fetch'[r] \in {[old EXCEPT !.pc = "reap", !.seen = LiveCommits],
                           [NoFetch EXCEPT !.pc = "ready"]}
        BY <1>1, <2>3 DEF ReachableObjects
      <3>3. fetch'[r].whole = "unasked" /\ fetch'[r].pc \in {"reap", "ready"}
        BY <1>1, <3>1, <3>2 DEF FetchTypes, NoFetch
      <3>4. QED BY <1>3, <2>1, <3>3
    <2>4. ASSUME NEW p \in StorePacks, ReapKeep(r, p) PROVE PrunedPart(r)'
      <3>1. old.whole = "unasked" /\ old.pc = "reap"
        BY <2>4 DEF PrunedPart, ReapKeep
      <3>2. fetch'[r] \in {[NoFetch EXCEPT !.pc = "ready"],
                           [old EXCEPT !.keeps = old.keeps \ {p}]}
        BY <1>1, <2>4 DEF ReapKeep
      <3>3. fetch'[r].whole = "unasked" /\ fetch'[r].pc \in {"reap", "ready"}
        BY <1>1, <3>1, <3>2 DEF FetchTypes, NoFetch
      <3>4. QED BY <1>3, <2>1, <3>3
    <2>5. CASE CloseSession(r) \/ KillFetch(r) \/ Unlock(r)
      <3>1. fetch'[r] = NoFetch
        BY <1>1, <2>5 DEF CloseSession, KillFetch, Unlock
      <3>2. QED BY <1>1, <1>3, <2>1, <3>1
    <2>6. CASE WireRefs(r)
      <3>1. old.whole = "unasked"
        BY <2>6 DEF PrunedPart, WireRefs
      <3>2. fetch'[r].whole = old.whole /\ fetch'[r].pc = "unlock"
        BY <1>1, <2>6 DEF WireRefs, FetchTypes
      <3>3. QED BY <1>3, <2>1, <3>1, <3>2
    <2>7. QED BY <1>4, <2>2, <2>3, <2>4, <2>5, <2>6
  <1>5. CASE BeginFetch(r)
    <2>1. old.whole = "unasked" /\ recorded' = recorded
      BY <1>5 DEF BeginFetch, PrunedPart
    <2>2. /\ fetch'[r].whole = old.whole
          /\ \/ fetch'[r].pc = "wire"
             \/ fetch'[r].pc = "apply" /\ fetch'[r].todo = LivePacks[r]
      <3>1. PICK want \in (SUBSET HostRefs[r]) \ {{}} :
                fetch' = [fetch EXCEPT ![r].want = want,
                          ![r].pc = IF ReachAll(want) \subseteq Stored THEN "wire" ELSE "apply",
                          ![r].todo = IF ReachAll(want) \subseteq Stored THEN <<>> ELSE LivePacks[r]]
        BY <1>5 DEF BeginFetch
      <3>2. CASE ReachAll(want) \subseteq Stored
        BY <1>1, <3>1, <3>2 DEF FetchTypes
      <3>3. CASE ~(ReachAll(want) \subseteq Stored)
        BY <1>1, <3>1, <3>3 DEF FetchTypes
      <3>4. QED BY <3>2, <3>3
    <2>3. CASE fetch'[r].pc = "wire"
      BY <1>3, <2>1, <2>2, <2>3
    <2>4. CASE fetch'[r].pc = "apply" /\ fetch'[r].todo = LivePacks[r]
      BY <1>2, <2>1, <2>2, <2>4 DEF PrunedPart
    <2>5. QED BY <2>2, <2>3, <2>4
  <1>6. CASE ApplyPack(r)
    <2> DEFINE p == Head(old.todo)  rest == Tail(old.todo)
    <2>1. /\ old.pc = "apply" /\ recorded' = recorded
          /\ old.todo \in Seq(StorePacks) /\ old.todo # <<>>
      BY <1>1, <1>6 DEF ApplyPack, FetchTypes
    <2>2. p \in StorePacks /\ Range(old.todo) = {p} \cup Range(rest)
      BY <2>1, RangeSeq
    <2>3. /\ fetch'[r].pc = "apply" /\ fetch'[r].todo = rest
          /\ \/ fetch'[r].whole = old.whole /\ p \in recorded[r]
             \/ fetch'[r].whole = "yes" /\ Whole(r)
             \/ fetch'[r].whole = "no" /\ files' = [files EXCEPT ![p] = "kept"]
      <3>1. CASE p \in recorded[r] /\ fetch' = [fetch EXCEPT ![r].todo = rest]
        BY <1>1, <2>1, <3>1 DEF FetchTypes
      <3>2. CASE /\ p \notin recorded[r] /\ Whole(r)
                 /\ fetch' = [fetch EXCEPT ![r].todo = rest, ![r].whole = "yes"]
        BY <1>1, <2>1, <3>2 DEF FetchTypes
      <3>3. CASE IndexPack(r, p)
        BY <1>1, <2>1, <3>3 DEF FetchTypes, IndexPack
      <3>4. QED BY <1>6, <3>1, <3>2, <3>3 DEF ApplyPack
    <2>4. Reached(r) \/ PackCommits[p] \subseteq Stored'
      <3>1. CASE p \in recorded[r]
        BY <3>1 DEF PrunedPart
      <3>2. CASE Whole(r)
        BY <3>2, WholeReached
      <3>3. CASE files' = [files EXCEPT ![p] = "kept"]
        <4>1. files'[p] # "absent"
          BY <2>2, <3>3 DEF Typed
        <4>2. QED BY <2>2, <4>1 DEF Stored
      <3>4. QED BY <2>3, <3>1, <3>2, <3>3
    <2>5. fetch'[r].whole = "yes" => Reached(r)
      BY <2>3, WholeReached DEF PrunedPart
    <2>6. \A x \in Range(LivePacks[r]) \ Range(rest) :
              Reached(r)' \/ PackCommits[x] \subseteq Known'
      <3>1. \A x \in Range(LivePacks[r]) \ Range(old.todo) :
                Reached(r) \/ PackCommits[x] \subseteq Known
        BY <2>1 DEF PrunedPart
      <3>2. Reached(r)' \/ PackCommits[p] \subseteq Known'
        BY <1>2, <2>4 DEF Known
      <3>3. QED BY <1>2, <2>2, <3>1, <3>2
    <2>7. QED BY <1>2, <2>1, <2>3, <2>5, <2>6 DEF PrunedPart
  <1>7. CASE RecordApplied(r)
    <2>1. Reached(r)
      BY <1>7, AllPassed DEF RecordApplied
    <2>2. fetch'[r].pc = "verify" /\ fetch'[r].whole = "unasked"
      BY <1>1, <1>7 DEF RecordApplied, FetchTypes
    <2>3. QED BY <1>2, <2>1, <2>2 DEF PrunedPart
  <1>8. CASE VerifyObjects(r)
    <2>1. old.whole = "unasked" /\ recorded' = recorded /\ Reached(r)
      BY <1>8 DEF VerifyObjects, PrunedPart
    <2>2. CASE old.want \subseteq Stored
      <3>1. fetch'[r].pc = "wire" /\ fetch'[r].whole = old.whole
        BY <1>1, <1>8, <2>2 DEF VerifyObjects, FetchTypes
      <3>2. QED BY <1>3, <2>1, <3>1
    <2>3. CASE ~(old.want \subseteq Stored)
      <3>1. fetch'[r].pc = "tamper" /\ fetch'[r].whole = "unasked"
        <4>1. fetch'[r] = [NoFetch EXCEPT !.pc = "tamper"]
          BY <1>1, <1>8, <2>3 DEF VerifyObjects
        <4>2. QED BY <4>1 DEF NoFetch
      <3>2. PICK x \in old.want : x \notin Stored
        BY <2>3
      <3>3. x \in ReachAll(HostRefs[r])
        <4>1. old.want \subseteq HostRefs[r] /\ HostRefs[r] \in SUBSET Commits
          BY HostRefsAssumption DEF Typed
        <4>2. QED BY <3>2, <4>1, Reaches
      <3>4. x \in pruned
        BY <2>1, <3>2, <3>3 DEF Reached, Known
      <3>5. QED BY <1>2, <2>1, <3>1, <3>3, <3>4 DEF PrunedPart
    <2>4. QED BY <2>2, <2>3
  <1>9. QED BY <1>4, <1>5, <1>6, <1>7, <1>8 DEF SessionStep

\* What a collection drops is remembered as pruned, and nothing is pruned that was
\* not in the store.
LEMMA SweepKnown ==
    ASSUME Typed, GcSweep
    PROVE  Known \subseteq Known' /\ pruned \subseteq pruned'
  <1> DEFINE held == loose \cup UNION {PackCommits[p] : p \in gc.listed}
  <1>1. /\ loose' = held \cap gc.live /\ pruned' = pruned \cup (held \ gc.live)
        /\ files' = [p \in StorePacks |-> IF p \in gc.listed THEN "absent" ELSE files[p]]
    BY DEF GcSweep
  <1>2. ASSUME NEW x \in Stored PROVE x \in Known'
    <2>1. CASE x \in held
      BY <1>1, <2>1 DEF Known, Stored
    <2>2. CASE x \notin held
      <3>1. PICK p \in StorePacks : files[p] # "absent" /\ x \in PackCommits[p]
        BY <1>2, <2>2 DEF Stored
      <3>2. p \notin gc.listed
        BY <2>2, <3>1
      <3>3. files'[p] # "absent"
        BY <1>1, <3>1, <3>2
      <3>4. QED BY <3>1, <3>3 DEF Known, Stored
    <2>3. QED BY <2>1, <2>2
  <1>3. pruned \subseteq pruned'
    BY <1>1
  <1>4. QED BY <1>2, <1>3 DEF Known

\* Every step keeps the invariant.
LEMMA StepPruned == PrunedInv /\ [StoreNext]_storeVars => PrunedInv'
  <1> SUFFICES ASSUME PrunedInv, [StoreNext]_storeVars PROVE PrunedInv'
    OBVIOUS
  <1>1. Typed /\ Typed'
    BY StepTyped DEF PrunedInv
  <1>2. ASSUME NEW r \in Remotes, SessionStep(r) \/ KillFetch(r),
               NEW q \in Remotes
        PROVE  PrunedPart(q)'
    <2>1. Stored \subseteq Stored' /\ pruned' = pruned
      BY <1>1, <1>2, SessionKeepsObjects, StoredGrows
    <2>2. Known \subseteq Known'
      BY <2>1 DEF Known
    <2>3. CASE q = r
      BY <1>1, <1>2, <2>1, <2>2, <2>3, SessionPruned DEF PrunedInv
    <2>4. CASE q # r
      BY <1>1, <1>2, <2>1, <2>2, <2>4, OtherSessions, PrunedFrame DEF PrunedInv
    <2>5. QED BY <2>3, <2>4
  <1>3. ASSUME GcScan \/ GcSweep \/ UNCHANGED storeVars, NEW q \in Remotes
        PROVE  PrunedPart(q)'
    <2>1. fetch' = fetch /\ recorded' = recorded
      BY <1>3 DEF GcScan, GcSweep, storeVars
    <2>2. Known \subseteq Known' /\ pruned \subseteq pruned'
      <3>1. CASE GcSweep
        BY <1>1, <3>1, SweepKnown
      <3>2. CASE GcScan \/ UNCHANGED storeVars
        BY <3>2 DEF GcScan, storeVars, Known, Stored
      <3>3. QED BY <1>3, <3>1, <3>2
    <2>3. QED BY <2>1, <2>2, PrunedFrame DEF PrunedInv
  <1>4. QED BY <1>1, <1>2, <1>3 DEF PrunedInv, StoreNext

\* The invariant holds of every behaviour.
LEMMA PrunedInvariant == StoreSpec => []PrunedInv
  <1>1. StoreInit => PrunedInv
    BY InitTyped DEF StoreInit, PrunedInv, PrunedPart, NoFetch
  <1>2. QED BY <1>1, StepPruned, PTL DEF StoreSpec

\* A fetch from an honest host ends with the alarm only when git has collected
\* objects of that remote (fetchBatch, FetchApply, packSkippable): neither another
\* remote's session nor reaping, killing, skipping or recording causes it.
THEOREM OnlyPrunedAlarm == StoreSpec => []AlarmMeansPruned
  <1>1. PrunedInv => AlarmMeansPruned
    BY DEF PrunedInv, PrunedPart, AlarmMeansPruned
  <1>2. QED BY <1>1, PrunedInvariant, PTL

-----------------------------------------------------------------------------
(* KeptUntilWired *)

\* No pack belongs to two remotes.  Two names of one host repository share theirs.
DisjointPacks ==
    \A q, r \in Remotes : q # r => Range(LivePacks[q]) \cap Range(LivePacks[r]) = {}

\* Pack p is safe from the collection that runs and from later ones: it is not on
\* the list and has its keep, or all of it is live; or it may go, and its objects
\* are in the store, live, and known to be so to the collection.
Anchored(p) ==
    \/ files[p] # "absent" /\ p \notin gc.listed
       /\ (files[p] = "kept" \/ PackCommits[p] \subseteq LiveCommits)
    \/ PackCommits[p] \subseteq Stored /\ PackCommits[p] \subseteq LiveCommits
       /\ (gc.pc = "sweep" => PackCommits[p] \subseteq gc.live)

\* A pack of r loses its keep only when all of it is live, which the collection
\* that lists it knows.
ReapedLive(r) ==
    \A p \in Range(LivePacks[r]) :
        /\ files[p] = "plain" => PackCommits[p] \subseteq LiveCommits
        /\ p \in gc.listed => PackCommits[p] \subseteq gc.live

\* The first fetch of r is the only one that indexes packs: until its record is
\* saved the keeps go by reaping alone, and after it no session has new ones.
KeptPart(r) ==
    /\ fetch[r].seen \subseteq LiveCommits
    /\ Range(fetch[r].locks) \cup Range(fetch[r].todo) \subseteq Range(LivePacks[r])
    /\ recorded[r] \in {{}, Range(LivePacks[r])}
    /\ fetch[r].locks # <<>> =>
          \/ fetch[r].pc = "apply" /\ recorded[r] = {}
          \/ fetch[r].pc \in {"verify", "wire", "unlock"} /\ recorded[r] # {}
    /\ recorded[r] = {} => ReapedLive(r)
    /\ fetch[r].pc \in {"apply", "verify", "wire"} =>
          \A p \in Range(fetch[r].locks) : Anchored(p)

\* The collection relies on live commits only, and lists packs there are.
GcPart ==
    /\ gc.live \subseteq LiveCommits
    /\ gc.pc = "idle" => gc.listed = {}
    /\ \A p \in gc.listed : files[p] # "absent"

KeptInv == Typed /\ GcPart /\ \A r \in Remotes : KeptPart(r)

\* How a session step may change a pack that it does not index or unlock: it may
\* reap the keep of a live pack.
AtMostReaped(p) ==
    \/ files'[p] = files[p]
    \/ files[p] = "kept" /\ files'[p] = "plain" /\ PackCommits[p] \subseteq LiveCommits

\* Reaping leaves an anchored pack anchored.
LEMMA AnchorFrame ==
    ASSUME NEW p \in StorePacks, Anchored(p), AtMostReaped(p), gc' = gc,
           Stored \subseteq Stored', LiveCommits \subseteq LiveCommits'
    PROVE  Anchored(p)'
  BY DEF Anchored, AtMostReaped

\* Reaping takes keeps of live packs only.
LEMMA ReapFrame ==
    ASSUME NEW r \in Remotes, ReapedLive(r), gc' = gc, LiveCommits \subseteq LiveCommits',
           \A p \in Range(LivePacks[r]) : AtMostReaped(p)
    PROVE  ReapedLive(r)'
  BY DEF ReapedLive, AtMostReaped

\* A remote whose session stands still keeps its part, if its packs are at most
\* reaped.
LEMMA KeptFrame ==
    ASSUME Typed, NEW r \in Remotes, KeptPart(r), gc' = gc,
           Stored \subseteq Stored', LiveCommits \subseteq LiveCommits',
           \A p \in Range(LivePacks[r]) : AtMostReaped(p),
           fetch'[r] = fetch[r], recorded'[r] = recorded[r]
    PROVE  KeptPart(r)'
  <1>1. recorded[r] = {} => ReapedLive(r)'
    BY ReapFrame DEF KeptPart
  <1>2. fetch[r].pc \in {"apply", "verify", "wire"} =>
            \A p \in Range(fetch[r].locks) : Anchored(p)'
    BY AnchorFrame, LiveType DEF KeptPart
  <1>3. QED BY <1>1, <1>2 DEF KeptPart

\* A session step touches the files of its own packs, and else at most reaps.
LEMMA SessionReaps ==
    ASSUME KeptInv, NEW r \in Remotes, SessionStep(r) \/ KillFetch(r),
           NEW p \in StorePacks,
           (~ApplyPack(r) /\ ~Unlock(r)) \/ p \notin Range(LivePacks[r])
    PROVE  AtMostReaped(p)
  <1>1. files \in [StorePacks -> {"absent", "kept", "plain"}]
    BY DEF KeptInv, Typed
  <1>2. ASSUME NEW x \in StorePacks, ReapKeep(r, x) PROVE AtMostReaped(p)
    <2>1. fetch[r].seen \subseteq LiveCommits
      BY DEF KeptInv, KeptPart
    <2>2. QED BY <1>1, <1>2, <2>1 DEF ReapKeep, KeepIsRedundant, AtMostReaped
  <1>3. CASE ApplyPack(r)
    <2>1. fetch[r].todo \in Seq(StorePacks) /\ fetch[r].todo # <<>>
      BY <1>3 DEF ApplyPack, KeptInv, Typed, FetchTypes
    <2>2. Head(fetch[r].todo) \in Range(LivePacks[r])
      <3>1. Head(fetch[r].todo) \in Range(fetch[r].todo)
        BY <2>1, RangeSeq
      <3>2. Range(fetch[r].todo) \subseteq Range(LivePacks[r])
        BY DEF KeptInv, KeptPart
      <3>3. QED BY <3>1, <3>2
    <2>3. files' = files \/ files' = [files EXCEPT ![Head(fetch[r].todo)] = "kept"]
      BY <1>3 DEF ApplyPack, IndexPack
    <2>4. p \notin Range(LivePacks[r])
      BY <1>3
    <2>5. files'[p] = files[p]
      BY <1>1, <2>2, <2>3, <2>4
    <2>6. QED BY <2>5 DEF AtMostReaped
  <1>4. CASE Unlock(r)
    <2>1. fetch[r].locks \in Seq(StorePacks)
      BY DEF KeptInv, Typed, FetchTypes
    <2>2. fetch[r].locks # <<>> => Head(fetch[r].locks) \in Range(LivePacks[r])
      <3>1. fetch[r].locks # <<>> => Head(fetch[r].locks) \in Range(fetch[r].locks)
        BY <2>1, RangeSeq
      <3>2. Range(fetch[r].locks) \subseteq Range(LivePacks[r])
        BY DEF KeptInv, KeptPart
      <3>3. QED BY <3>1, <3>2
    <2>3. p \notin Range(LivePacks[r])
      BY <1>4
    <2>4. files'[p] = files[p]
      BY <1>1, <1>4, <2>2, <2>3 DEF Unlock
    <2>5. QED BY <2>4 DEF AtMostReaped
  <1>5. CASE files' = files
    BY <1>5 DEF AtMostReaped
  <1>6. QED
    BY <1>2, <1>3, <1>4, <1>5 DEF SessionStep, ListKeeps, ReachableObjects, BeginFetch,
       RecordApplied, VerifyObjects, WireRefs, CloseSession, KillFetch

\* The session of r steps without indexing, unlocking or recording: it gives its
\* keeps up or keeps them on the way to its refs.
LEMMA KeptOwn ==
    ASSUME Typed, NEW r \in Remotes, KeptPart(r), gc' = gc,
           Stored \subseteq Stored', LiveCommits \subseteq LiveCommits',
           \A p \in Range(LivePacks[r]) : AtMostReaped(p),
           recorded'[r] = recorded[r],
           fetch'[r].seen \subseteq LiveCommits',
           Range(fetch'[r].todo) \subseteq Range(LivePacks[r]),
           \/ fetch'[r].locks = <<>>
           \/ /\ fetch'[r].locks = fetch[r].locks
              /\ \/ fetch[r].pc \in {"verify", "wire"} /\ fetch'[r].pc \in {"wire", "unlock"}
                 \/ fetch[r].pc = "apply" /\ fetch'[r].pc = "apply"
    PROVE  KeptPart(r)'
  <1>1. recorded'[r] = {} => ReapedLive(r)'
    BY ReapFrame DEF KeptPart
  <1>2. Range(<<>>) = {}
    BY DEF Range
  <1>3. \A p \in Range(fetch[r].locks) : p \in StorePacks /\ AtMostReaped(p)
    BY LiveType DEF KeptPart
  <1>4. fetch'[r].pc \in {"apply", "verify", "wire"} =>
            \A p \in Range(fetch'[r].locks) : Anchored(p)'
    <2>1. CASE fetch'[r].locks = <<>>
      BY <1>2, <2>1
    <2>2. CASE fetch[r].pc \in {"apply", "verify", "wire"} /\ fetch'[r].locks = fetch[r].locks
      <3>1. \A p \in Range(fetch[r].locks) : Anchored(p)
        BY <2>2 DEF KeptPart
      <3>2. \A p \in Range(fetch[r].locks) : Anchored(p)'
        BY <1>3, <3>1, AnchorFrame
      <3>3. QED BY <2>2, <3>2
    <2>3. QED BY <2>1, <2>2
  <1>5. fetch'[r].locks # <<>> =>
          \/ fetch'[r].pc = "apply" /\ recorded'[r] = {}
          \/ fetch'[r].pc \in {"verify", "wire", "unlock"} /\ recorded'[r] # {}
    BY DEF KeptPart
  <1>6. Range(fetch'[r].locks) \subseteq Range(LivePacks[r])
    BY <1>2 DEF KeptPart
  <1>7. recorded'[r] \in {{}, Range(LivePacks[r])}
    BY DEF KeptPart
  <1>8. QED BY <1>1, <1>4, <1>5, <1>6, <1>7 DEF KeptPart

\* The session takes its next pack.  A pack it indexes gets a keep; if it is on
\* the list of a collection, all of it was live when that began.
LEMMA ApplyKept ==
    ASSUME KeptInv, NEW r \in Remotes, ApplyPack(r),
           Stored \subseteq Stored', LiveCommits \subseteq LiveCommits'
    PROVE  KeptPart(r)'
  <1> DEFINE old == fetch[r]  rest == Tail(old.todo)
  <1>1. /\ old \in FetchTypes /\ fetch \in [Remotes -> FetchTypes]
        /\ files \in [StorePacks -> {"absent", "kept", "plain"}]
        /\ KeptPart(r) /\ Typed /\ GcPart
    BY DEF KeptInv, Typed
  <1>2. /\ old.pc = "apply" /\ old.todo \in Seq(StorePacks) /\ old.todo # <<>>
        /\ old.locks \in Seq(StorePacks)
        /\ recorded' = recorded /\ gc' = gc /\ wired' = wired
    BY <1>1 DEF ApplyPack, FetchTypes
  <1>3. PICK p \in StorePacks : /\ p = Head(old.todo) /\ p \in Range(old.todo)
                               /\ Range(rest) \subseteq Range(old.todo)
    BY <1>2, RangeSeq
  <1>4. Range(old.todo) \subseteq Range(LivePacks[r])
    BY <1>1 DEF KeptPart
  <1>5. old.seen \subseteq LiveCommits'
    BY <1>1 DEF KeptPart
  <1>6. CASE /\ files' = files
             /\ \/ fetch' = [fetch EXCEPT ![r].todo = rest]
                \/ fetch' = [fetch EXCEPT ![r].todo = rest, ![r].whole = "yes"]
    <2>1. /\ fetch'[r].pc = "apply" /\ fetch'[r].locks = old.locks
          /\ fetch'[r].todo = rest /\ fetch'[r].seen = old.seen
      BY <1>1, <1>2, <1>6 DEF FetchTypes
    <2>2. \A x \in Range(LivePacks[r]) : AtMostReaped(x)
      BY <1>6 DEF AtMostReaped
    <2>3. QED BY <1>1, <1>2, <1>3, <1>4, <1>5, <2>1, <2>2, KeptOwn
  <1>7. CASE p \notin recorded[r] /\ IndexPack(r, p)
    <2>1. recorded[r] = {} /\ recorded'[r] = {}
      BY <1>1, <1>2, <1>3, <1>4, <1>7 DEF KeptPart
    <2>2. files' = [files EXCEPT ![p] = "kept"] /\ files'[p] = "kept"
      BY <1>1, <1>3, <1>7 DEF IndexPack
    <2>3. /\ fetch'[r].pc = "apply" /\ fetch'[r].todo = rest /\ fetch'[r].seen = old.seen
          /\ fetch'[r].locks = IF files[p] = "kept" THEN old.locks ELSE Append(old.locks, p)
      BY <1>1, <1>2, <1>7 DEF FetchTypes, IndexPack
    <2>4. Range(fetch'[r].locks) \subseteq Range(old.locks) \cup {p}
      BY <1>2, <1>3, <2>3, RangeAppend
    <2>5. ReapedLive(r)
      BY <1>1, <2>1 DEF KeptPart
    <2>6. ReapedLive(r)'
      BY <1>1, <1>2, <1>3, <2>2, <2>5 DEF ReapedLive
    <2>7. Anchored(p)'
      <3>1. CASE p \in gc.listed
        <4>1. PackCommits[p] \subseteq gc.live /\ PackCommits[p] \subseteq LiveCommits'
          BY <1>1, <1>3, <1>4, <2>5, <3>1 DEF ReapedLive, GcPart
        <4>2. PackCommits[p] \subseteq Stored'
          BY <1>3, <2>2 DEF Stored
        <4>3. QED BY <1>2, <4>1, <4>2 DEF Anchored
      <3>2. CASE p \notin gc.listed
        BY <1>2, <2>2, <3>2 DEF Anchored
      <3>3. QED BY <3>1, <3>2
    <2>8. ASSUME NEW x \in Range(old.locks), x # p PROVE Anchored(x)'
      <3>1. Anchored(x) /\ x \in StorePacks
        BY <1>1, <1>2, <2>8, LiveType DEF KeptPart
      <3>2. AtMostReaped(x)
        BY <1>1, <2>2, <2>8, <3>1 DEF AtMostReaped
      <3>3. QED BY <1>2, <3>1, <3>2, AnchorFrame
    <2>9. \A x \in Range(fetch'[r].locks) : Anchored(x)'
      BY <2>4, <2>7, <2>8
    <2>10. Range(fetch'[r].locks) \subseteq Range(LivePacks[r])
      BY <1>1, <1>3, <1>4, <2>4 DEF KeptPart
    <2>11. Range(fetch'[r].todo) \subseteq Range(LivePacks[r])
      BY <1>3, <1>4, <2>3
    <2>12. QED BY <1>5, <2>1, <2>3, <2>6, <2>9, <2>10, <2>11 DEF KeptPart
  <1>8. QED
    <2>1. \/ files' = files /\ fetch' = [fetch EXCEPT ![r].todo = rest]
          \/ files' = files /\ fetch' = [fetch EXCEPT ![r].todo = rest, ![r].whole = "yes"]
          \/ p \notin recorded[r] /\ IndexPack(r, p)
      BY <1>3 DEF ApplyPack
    <2>2. QED BY <1>6, <1>7, <2>1

\* Saving the record ends the time in which packs are indexed.
LEMMA RecordKept ==
    ASSUME KeptInv, NEW r \in Remotes, RecordApplied(r)
    PROVE  KeptPart(r)'
  <1> DEFINE old == fetch[r]
  <1>1. /\ old \in FetchTypes /\ fetch \in [Remotes -> FetchTypes]
        /\ recorded \in [Remotes -> SUBSET StorePacks] /\ KeptPart(r)
    BY DEF KeptInv, Typed
  <1>2. /\ old.pc = "apply" /\ fetch'[r].pc = "verify" /\ fetch'[r].locks = old.locks
        /\ fetch'[r].todo = old.todo /\ fetch'[r].seen = old.seen
        /\ UNCHANGED <<files, loose, wired, gc>>
    BY <1>1 DEF RecordApplied, FetchTypes
  <1>3. recorded'[r] = Range(LivePacks[r])
    BY <1>1 DEF RecordApplied, KeptPart
  <1>4. LiveCommits' = LiveCommits /\ \A p : Anchored(p)' = Anchored(p)
    BY <1>2 DEF LiveCommits, WiredTips, Anchored, Stored
  <1>5. recorded'[r] = {} => ReapedLive(r)'
    BY <1>3 DEF ReapedLive
  <1>6. old.locks # <<>> => recorded'[r] # {}
    <2>1. old.locks \in Seq(StorePacks)
      BY <1>1 DEF FetchTypes
    <2>2. old.locks # <<>> => Head(old.locks) \in Range(old.locks)
      BY <2>1, RangeSeq
    <2>3. QED BY <1>1, <1>3, <2>2 DEF KeptPart
  <1>7. \A p \in Range(old.locks) : Anchored(p)'
    BY <1>1, <1>2, <1>4 DEF KeptPart
  <1>8. fetch'[r].seen \subseteq LiveCommits'
    BY <1>1, <1>2, <1>4 DEF KeptPart
  <1>9. Range(fetch'[r].locks) \cup Range(fetch'[r].todo) \subseteq Range(LivePacks[r])
    BY <1>1, <1>2 DEF KeptPart
  <1>10. QED BY <1>2, <1>3, <1>5, <1>6, <1>7, <1>8, <1>9 DEF KeptPart

\* git takes one keep of a fetch whose record is saved.
LEMMA UnlockKept ==
    ASSUME KeptInv, NEW r \in Remotes, Unlock(r), LiveCommits \subseteq LiveCommits'
    PROVE  KeptPart(r)'
  <1>1. /\ fetch \in [Remotes -> FetchTypes] /\ KeptPart(r)
        /\ files \in [StorePacks -> {"absent", "kept", "plain"}]
    BY DEF KeptInv, Typed
  <1>2. fetch'[r] = NoFetch /\ UNCHANGED <<recorded, gc>>
    BY <1>1 DEF Unlock
  <1>3. NoFetch.locks = <<>> /\ NoFetch.todo = <<>> /\ NoFetch.seen = {} /\ NoFetch.pc = "idle"
    BY DEF NoFetch
  <1>4. ASSUME recorded[r] = {} PROVE ReapedLive(r)'
    <2>1. fetch[r].locks = <<>>
      BY <1>1, <1>4 DEF KeptPart, Unlock
    <2>2. files' = files
      <3>1. \A p \in StorePacks : files'[p] = files[p]
        BY <2>1 DEF Unlock
      <3>2. files' = [p \in StorePacks |-> files'[p]]
        BY DEF Unlock
      <3>3. files = [p \in StorePacks |-> files[p]]
        BY <1>1
      <3>4. QED BY <3>1, <3>2, <3>3
    <2>3. \A p \in Range(LivePacks[r]) : AtMostReaped(p)
      BY <2>2 DEF AtMostReaped
    <2>4. QED BY <1>1, <1>2, <1>4, <2>3, ReapFrame DEF KeptPart
  <1>5. Range(<<>>) = {}
    BY DEF Range
  <1>6. QED BY <1>1, <1>2, <1>3, <1>4, <1>5 DEF KeptPart

\* Every step of the session of r keeps its part of the invariant.
LEMMA SessionKept ==
    ASSUME KeptInv, NEW r \in Remotes, SessionStep(r) \/ KillFetch(r),
           Stored \subseteq Stored', LiveCommits \subseteq LiveCommits', gc' = gc
    PROVE  KeptPart(r)'
  <1> DEFINE old == fetch[r]
  <1>1. /\ old \in FetchTypes /\ fetch \in [Remotes -> FetchTypes]
        /\ KeptPart(r) /\ Typed
    BY DEF KeptInv, Typed
  <1>2. CASE ApplyPack(r) \/ RecordApplied(r) \/ Unlock(r)
    BY <1>2, ApplyKept, RecordKept, UnlockKept
  <1>3. CASE ~ApplyPack(r) /\ ~RecordApplied(r) /\ ~Unlock(r)
    <2>1. \A p \in Range(LivePacks[r]) : AtMostReaped(p)
      BY <1>3, LiveType, SessionReaps
    <2>2. recorded' = recorded
      BY <1>3 DEF SessionStep, ListKeeps, ReachableObjects, ReapKeep, BeginFetch,
                  VerifyObjects, WireRefs, CloseSession, KillFetch
    <2>3. /\ NoFetch.locks = <<>> /\ NoFetch.todo = <<>> /\ NoFetch.seen = {}
          /\ NoFetch.pc = "idle"
      BY DEF NoFetch
    <2>4. Range(<<>>) = {} /\ Range(old.todo) \subseteq Range(LivePacks[r])
      <3>1. Range(<<>>) = {}
        BY DEF Range
      <3>2. Range(old.todo) \subseteq Range(LivePacks[r])
        BY <1>1 DEF KeptPart
      <3>3. QED BY <3>1, <3>2
    <2>5. old.seen \subseteq LiveCommits'
      BY <1>1 DEF KeptPart
    <2>6. old.pc \notin {"apply", "verify", "wire", "unlock"} => old.locks = <<>>
      BY <1>1 DEF KeptPart
    <2>7. \* a step that gives the keeps up, or has none
          ASSUME fetch'[r].locks = <<>>, fetch'[r].todo \in {<<>>, old.todo, LivePacks[r]},
                 fetch'[r].seen \in {{}, old.seen, LiveCommits}
          PROVE  KeptPart(r)'
      <3>1. Range(fetch'[r].todo) \subseteq Range(LivePacks[r])
        BY <2>4, <2>7
      <3>2. fetch'[r].seen \subseteq LiveCommits'
        BY <2>5, <2>7
      <3>3. QED BY <1>1, <2>1, <2>2, <2>7, <3>1, <3>2, KeptOwn
    <2>8. CASE ListKeeps(r)
      <3>1. old.locks = <<>>
        BY <2>6, <2>8 DEF ListKeeps
      <3>2. /\ fetch'[r].locks = old.locks /\ fetch'[r].todo = old.todo
            /\ fetch'[r].seen = old.seen
        BY <1>1, <2>8 DEF ListKeeps, FetchTypes
      <3>3. QED BY <2>7, <3>1, <3>2
    <2>9. CASE ReachableObjects(r)
      <3>1. old.locks = <<>>
        BY <2>6, <2>9 DEF ReachableObjects
      <3>2. fetch'[r] \in {[old EXCEPT !.pc = "reap", !.seen = LiveCommits],
                           [NoFetch EXCEPT !.pc = "ready"]}
        BY <1>1, <2>9 DEF ReachableObjects
      <3>3. /\ fetch'[r].locks = <<>> /\ fetch'[r].todo \in {old.todo, <<>>}
            /\ fetch'[r].seen \in {LiveCommits, {}}
        BY <1>1, <3>1, <3>2 DEF FetchTypes, NoFetch
      <3>4. QED BY <2>7, <3>3
    <2>10. ASSUME NEW p \in StorePacks, ReapKeep(r, p) PROVE KeptPart(r)'
      <3>1. old.locks = <<>>
        BY <2>6, <2>10 DEF ReapKeep
      <3>2. fetch'[r] \in {[NoFetch EXCEPT !.pc = "ready"],
                           [old EXCEPT !.keeps = old.keeps \ {p}]}
        BY <1>1, <2>10 DEF ReapKeep
      <3>3. /\ fetch'[r].locks = <<>> /\ fetch'[r].todo \in {old.todo, <<>>}
            /\ fetch'[r].seen \in {old.seen, {}}
        BY <1>1, <3>1, <3>2 DEF FetchTypes, NoFetch
      <3>4. QED BY <2>7, <3>3
    <2>11. CASE BeginFetch(r)
      <3>1. old.locks = <<>>
        BY <2>6, <2>11 DEF BeginFetch
      <3>2. PICK want \in (SUBSET HostRefs[r]) \ {{}} :
                fetch' = [fetch EXCEPT ![r].want = want,
                          ![r].pc = IF ReachAll(want) \subseteq Stored THEN "wire" ELSE "apply",
                          ![r].todo = IF ReachAll(want) \subseteq Stored THEN <<>> ELSE LivePacks[r]]
        BY <2>11 DEF BeginFetch
      <3>3. /\ fetch'[r].locks = old.locks /\ fetch'[r].todo \in {<<>>, LivePacks[r]}
            /\ fetch'[r].seen = old.seen
        BY <1>1, <3>2 DEF FetchTypes
      <3>4. QED BY <2>7, <3>1, <3>3
    <2>12. CASE VerifyObjects(r)
      <3>1. CASE old.want \subseteq Stored
        <4>1. /\ fetch'[r].pc = "wire" /\ fetch'[r].locks = old.locks
              /\ fetch'[r].todo = old.todo /\ fetch'[r].seen = old.seen
              /\ old.pc = "verify"
          BY <1>1, <2>12, <3>1 DEF VerifyObjects, FetchTypes
        <4>2. QED BY <1>1, <2>1, <2>2, <2>4, <2>5, <4>1, KeptOwn
      <3>2. CASE ~(old.want \subseteq Stored)
        <4>1. fetch'[r] = [NoFetch EXCEPT !.pc = "tamper"]
          BY <1>1, <2>12, <3>2 DEF VerifyObjects
        <4>2. fetch'[r].locks = <<>> /\ fetch'[r].todo = <<>> /\ fetch'[r].seen = {}
          BY <4>1 DEF NoFetch
        <4>3. QED BY <2>7, <4>2
      <3>3. QED BY <3>1, <3>2
    <2>13. CASE WireRefs(r)
      <3>1. /\ fetch'[r].pc = "unlock" /\ fetch'[r].locks = old.locks
            /\ fetch'[r].todo = old.todo /\ fetch'[r].seen = old.seen
            /\ old.pc = "wire"
        BY <1>1, <2>13 DEF WireRefs, FetchTypes
      <3>2. QED BY <1>1, <2>1, <2>2, <2>4, <2>5, <3>1, KeptOwn
    <2>14. CASE CloseSession(r) \/ KillFetch(r)
      <3>1. fetch'[r] = NoFetch
        BY <1>1, <2>14 DEF CloseSession, KillFetch
      <3>2. QED BY <2>3, <2>7, <3>1
    <2>15. QED BY <1>3, <2>8, <2>9, <2>10, <2>11, <2>12, <2>13, <2>14 DEF SessionStep
  <1>4. QED BY <1>2, <1>3

\* A collection lists what has no keep, which is live unless the remote's record
\* is saved, and knows what is live.
LEMMA ScanKept ==
    ASSUME KeptInv, GcScan
    PROVE  GcPart' /\ \A r \in Remotes : KeptPart(r)'
  <1>1. /\ Typed /\ GcPart /\ gc.pc = "idle" /\ gc.listed = {}
        /\ gc'.pc = "sweep" /\ gc'.live = LiveCommits
        /\ gc'.listed = {p \in StorePacks : files[p] = "plain"}
        /\ files' = files /\ Stored' = Stored /\ LiveCommits' = LiveCommits
        /\ fetch' = fetch /\ recorded' = recorded
    BY DEF KeptInv, GcPart, GcScan, Stored, LiveCommits, WiredTips
  <1>2. GcPart'
    BY <1>1 DEF GcPart
  <1>3. ASSUME NEW p \in StorePacks, Anchored(p) PROVE Anchored(p)'
    <2>1. PackCommits[p] \subseteq Stored \/ files[p] = "absent"
      BY PackStored
    <2>2. files[p] \in {"absent", "kept", "plain"}
      BY <1>1 DEF Typed
    <2>3. QED BY <1>1, <1>3, <2>1, <2>2 DEF Anchored
  <1>4. ASSUME NEW r \in Remotes PROVE KeptPart(r)'
    <2>1. KeptPart(r)
      BY DEF KeptInv
    <2>2. recorded[r] = {} => ReapedLive(r)'
      BY <1>1, <2>1 DEF KeptPart, ReapedLive
    <2>3. fetch[r].pc \in {"apply", "verify", "wire"} =>
              \A p \in Range(fetch[r].locks) : Anchored(p)'
      BY <1>3, <2>1, LiveType DEF KeptPart
    <2>4. QED BY <1>1, <2>1, <2>2, <2>3 DEF KeptPart
  <1>5. QED BY <1>2, <1>4

\* A collection drops only the packs on its list, and of their objects only those
\* it knows not to be live.
LEMMA SweepKept ==
    ASSUME KeptInv, GcSweep
    PROVE  GcPart' /\ \A r \in Remotes : KeptPart(r)'
  <1> DEFINE held == loose \cup UNION {PackCommits[p] : p \in gc.listed}
  <1>1. /\ Typed /\ GcPart /\ gc.pc = "sweep"
        /\ gc' = NoGc /\ NoGc.pc = "idle" /\ NoGc.listed = {} /\ NoGc.live = {}
        /\ loose' = held \cap gc.live
        /\ files' = [p \in StorePacks |-> IF p \in gc.listed THEN "absent" ELSE files[p]]
        /\ fetch' = fetch /\ recorded' = recorded /\ LiveCommits' = LiveCommits
    BY DEF KeptInv, GcPart, GcSweep, NoGc, LiveCommits, WiredTips
  <1>2. GcPart'
    BY <1>1 DEF GcPart
  <1>3. Stored \cap gc.live \subseteq Stored'
    <2>1. ASSUME NEW x \in Stored, x \in gc.live PROVE x \in Stored'
      <3>1. CASE x \in held
        BY <1>1, <2>1, <3>1 DEF Stored
      <3>2. CASE x \notin held
        <4>1. PICK p \in StorePacks : files[p] # "absent" /\ x \in PackCommits[p]
          BY <2>1, <3>2 DEF Stored
        <4>2. p \notin gc.listed
          BY <3>2, <4>1
        <4>3. files'[p] # "absent"
          BY <1>1, <4>1, <4>2
        <4>4. QED BY <4>1, <4>3 DEF Stored
      <3>3. QED BY <3>1, <3>2
    <2>2. QED BY <2>1
  <1>4. ASSUME NEW p \in StorePacks, Anchored(p) PROVE Anchored(p)'
    BY <1>1, <1>3, <1>4 DEF Anchored
  <1>5. ASSUME NEW r \in Remotes PROVE KeptPart(r)'
    <2>1. KeptPart(r)
      BY DEF KeptInv
    <2>2. recorded[r] = {} => ReapedLive(r)'
      BY <1>1, <2>1, LiveType DEF KeptPart, ReapedLive
    <2>3. fetch[r].pc \in {"apply", "verify", "wire"} =>
              \A p \in Range(fetch[r].locks) : Anchored(p)'
      BY <1>4, <2>1, LiveType DEF KeptPart
    <2>4. QED BY <1>1, <2>1, <2>2, <2>3 DEF KeptPart
  <1>6. QED BY <1>2, <1>5

\* Every step keeps the invariant.
LEMMA StepKept ==
    ASSUME DisjointPacks, KeptInv, [StoreNext]_storeVars
    PROVE  KeptInv'
  <1>1. Typed /\ Typed'
    BY StepTyped DEF KeptInv
  <1>2. ASSUME NEW r \in Remotes, SessionStep(r) \/ KillFetch(r)
        PROVE  GcPart' /\ \A q \in Remotes : KeptPart(q)'
    <2>1. /\ Stored \subseteq Stored' /\ LiveCommits \subseteq LiveCommits' /\ gc' = gc
          /\ \A p \in StorePacks : files[p] # "absent" => files'[p] # "absent"
      BY <1>1, <1>2, SessionKeepsObjects, StoredGrows, LiveGrows
    <2>2. GcPart'
      BY <1>1, <2>1 DEF KeptInv, GcPart, Typed, GcTypes
    <2>3. KeptPart(r)'
      BY <1>2, <2>1, SessionKept
    <2>4. ASSUME NEW q \in Remotes, q # r PROVE KeptPart(q)'
      <3>1. \A p \in Range(LivePacks[q]) : AtMostReaped(p)
        <4>1. \A p \in Range(LivePacks[q]) : p \in StorePacks /\ p \notin Range(LivePacks[r])
          BY <2>4, LiveType DEF DisjointPacks
        <4>2. QED BY <1>2, <4>1, SessionReaps
      <3>2. fetch'[q] = fetch[q] /\ recorded'[q] = recorded[q]
        BY <1>1, <1>2, <2>4, OtherSessions
      <3>3. KeptPart(q)
        BY DEF KeptInv
      <3>4. QED BY <1>1, <2>1, <3>1, <3>2, <3>3, KeptFrame
    <2>5. QED BY <2>2, <2>3, <2>4
  <1>3. CASE UNCHANGED storeVars
    <2>1. Stored' = Stored /\ LiveCommits' = LiveCommits
      BY <1>3 DEF storeVars, Stored, LiveCommits, WiredTips
    <2>2. GcPart'
      BY <1>3, <2>1 DEF storeVars, KeptInv, GcPart
    <2>3. ASSUME NEW q \in Remotes PROVE KeptPart(q)'
      <3>1. \A p \in Range(LivePacks[q]) : AtMostReaped(p)
        BY <1>3 DEF storeVars, AtMostReaped
      <3>2. KeptPart(q) /\ fetch'[q] = fetch[q] /\ recorded'[q] = recorded[q] /\ gc' = gc
        BY <1>3 DEF KeptInv, storeVars
      <3>3. QED BY <1>1, <2>1, <3>1, <3>2, KeptFrame
    <2>4. QED BY <1>1, <2>2, <2>3 DEF KeptInv
  <1>4. QED BY <1>1, <1>2, <1>3, ScanKept, SweepKept DEF KeptInv, StoreNext

\* The invariant holds at first.
LEMMA InitKept == StoreInit => KeptInv
  <1> SUFFICES ASSUME StoreInit PROVE KeptInv
    OBVIOUS
  <1>1. Typed
    BY InitTyped
  <1>2. NoFetch.locks = <<>> /\ NoFetch.todo = <<>> /\ NoFetch.seen = {} /\ NoFetch.pc = "idle"
    BY DEF NoFetch
  <1>3. NoGc.listed = {} /\ NoGc.live = {} /\ NoGc.pc = "idle"
    BY DEF NoGc
  <1>4. Range(<<>>) = {}
    BY DEF Range
  <1>5. GcPart
    BY <1>3 DEF StoreInit, GcPart
  <1>6. ASSUME NEW r \in Remotes PROVE KeptPart(r)
    <2>1. ReapedLive(r)
      BY <1>3, LiveType DEF StoreInit, ReapedLive
    <2>2. QED BY <1>2, <1>4, <2>1 DEF StoreInit, KeptPart
  <1>7. QED BY <1>1, <1>5, <1>6 DEF KeptInv

\* keeps.go:8: "a concurrent gc can never prune a not-yet-wired fetch's objects".
\* What a fetch has indexed stays until git has set its refs, whatever other
\* sessions reap and whenever a collection began, provided that no two remotes
\* share a pack.
THEOREM FetchedKept ==
    ASSUME DisjointPacks PROVE StoreSpec => []KeptUntilWired
  <1>1. KeptInv /\ [StoreNext]_storeVars => KeptInv'
    BY StepKept
  <1>2. KeptInv => KeptUntilWired
    <2>1. SUFFICES ASSUME KeptInv, NEW r \in Remotes,
                          fetch[r].pc \in {"apply", "verify", "wire"},
                          NEW p \in Range(fetch[r].locks)
                   PROVE  PackCommits[p] \subseteq Stored
      BY DEF KeptUntilWired
    <2>2. Anchored(p) /\ p \in StorePacks
      BY <2>1, LiveType DEF KeptInv, KeptPart
    <2>3. QED BY <2>2, PackStored DEF Anchored
  <1>3. QED BY <1>1, <1>2, InitKept, PTL DEF StoreSpec

=============================================================================
