---------------------------- MODULE LocalStore ----------------------------
(***************************************************************************)
(* The object store of one repository: packs, their .keep files, and the   *)
(* three parties that change them at the same time.  The sessions of its   *)
(* cloak remotes index packs with a keep and reap old keeps; git sets refs *)
(* to what was fetched and removes one keep per fetch; git's garbage       *)
(* collection drops packs without a keep.  Every remote has a state        *)
(* directory, hence a lock and an applied set, of its own, but there is    *)
(* one store.  CloakSync takes for granted that objects stay.              *)
(***************************************************************************)
EXTENDS Objects, Naturals, Sequences, FiniteSets, SequencesExt

CONSTANTS
    Remotes,     \* the cloak remotes of the repository
    LivePacks,   \* LivePacks[r]: the packs of r's manifest, in order
    PackCommits, \* PackCommits[p]: the objects of pack p
    HostRefs,    \* HostRefs[r]: the tips r's manifest names
    MaxKills     \* bound: how often a session is killed

StorePacks == UNION {Range(LivePacks[r]) : r \in Remotes}

ASSUME LivePacksAssumption ==
    /\ DOMAIN LivePacks = Remotes
    /\ \A r \in Remotes : LivePacks[r] \in Seq(StorePacks)
ASSUME PackCommitsAssumption ==
    PackCommits \in [StorePacks -> (SUBSET Commits) \ {{}}]
ASSUME HostRefsAssumption == HostRefs \in [Remotes -> SUBSET Commits]
ASSUME MaxKillsAssumption == MaxKills \in Nat

\* CloakSync's RemoteComplete: a manifest's packs hold the history of its refs.
ASSUME CompleteAssumption ==
    \A r \in Remotes :
        ReachAll(HostRefs[r]) \subseteq UNION {PackCommits[p] : p \in Range(LivePacks[r])}

VARIABLES
    files,    \* files[p]: pack p is "absent", "kept" (has a .keep) or "plain"
    loose,    \* the objects git has in packs of its own
    wired,    \* wired[r]: the tips of r that git's refs point to
    recorded, \* recorded[r]: the applied set of r
    fetch,    \* fetch[r]: the session of r, see NoFetch
    gc,       \* the garbage collection that runs, see NoGc
    pruned,   \* history: every object that was ever collected
    kills     \* bound: how often a session was killed

storeVars == <<files, loose, wired, recorded, fetch, gc, pruned, kills>>

\* keeps: keeps still to examine; seen: what rev-list found; want: what git asked
\* for; todo: packs still to examine; locks: the keeps to report, as packs;
\* whole: the memoized answer of lazyClosure.
NoFetch == [pc |-> "idle", keeps |-> {}, seen |-> {}, want |-> {}, todo |-> <<>>,
            locks |-> <<>>, whole |-> "unasked"]

NoGc == [pc |-> "idle", listed |-> {}, live |-> {}]

Stored == loose \cup UNION {PackCommits[p] : p \in {q \in StorePacks : files[q] # "absent"}}

WiredTips == UNION {wired[r] : r \in Remotes}
LiveCommits == ReachAll(WiredTips)

\* rev-list --objects --all succeeds.
RefsIntact == LiveCommits \subseteq Stored

-----------------------------------------------------------------------------
(* Opening a session reaps keeps (wireSession, ReapOrphanKeeps) *)

ListKeeps(r) ==
    LET ours == {p \in StorePacks : files[p] = "kept"}
    IN  /\ fetch[r].pc = "idle"
        /\ fetch' = [fetch EXCEPT ![r].keeps = ours,
                                  ![r].pc = IF ours = {} THEN "ready" ELSE "list"]
        /\ UNCHANGED <<files, loose, wired, recorded, gc, pruned, kills>>

\* No keep is touched unless git can enumerate what the refs reach.
ReachableObjects(r) ==
    /\ fetch[r].pc = "list"
    /\ fetch' = [fetch EXCEPT ![r] =
                    IF RefsIntact THEN [@ EXCEPT !.pc = "reap", !.seen = LiveCommits]
                    ELSE [NoFetch EXCEPT !.pc = "ready"]]
    /\ UNCHANGED <<files, loose, wired, recorded, gc, pruned, kills>>

\* Mutants of KeepIsRedundant: one reachable object is enough; nothing is proof.
KeepIsTouched(p, seen) == PackCommits[p] \cap seen # {}
KeepIsSacred(p, seen) == FALSE

\* Every object of the pack is reachable.
KeepIsRedundant(p, seen) == PackCommits[p] \subseteq seen

ReapKeep(r, p) ==
    /\ fetch[r].pc = "reap"
    /\ p \in fetch[r].keeps
    /\ files' = [files EXCEPT ![p] =
                    IF @ = "kept" /\ KeepIsRedundant(p, fetch[r].seen) THEN "plain" ELSE @]
    /\ fetch' = [fetch EXCEPT ![r] =
                    IF @.keeps = {p} THEN [NoFetch EXCEPT !.pc = "ready"]
                    ELSE [@ EXCEPT !.keeps = fetch[r].keeps \ {p}]]
    /\ UNCHANGED <<loose, wired, recorded, gc, pruned, kills>>

-----------------------------------------------------------------------------
(* A fetch *)

\* git asks for tips; when it has all they reach it sets its refs at once.
BeginFetch(r) ==
    /\ fetch[r].pc = "ready"
    /\ \E want \in (SUBSET HostRefs[r]) \ {{}} :
          fetch' = [fetch EXCEPT ![r].want = want,
                        ![r].pc = IF ReachAll(want) \subseteq Stored THEN "wire" ELSE "apply",
                        ![r].todo = IF ReachAll(want) \subseteq Stored THEN <<>> ELSE LivePacks[r]]
    /\ UNCHANGED <<files, loose, wired, recorded, gc, pruned, kills>>

\* The memoized lazyClosure: the store holds the history of every ref.
Whole(r) ==
    CASE fetch[r].whole = "unasked" -> ReachAll(HostRefs[r]) \subseteq Stored
      [] fetch[r].whole = "yes" -> TRUE
      [] OTHER -> FALSE

\* index-pack stores the pack and its keep, and reports the keep only if it has
\* made it.
IndexPack(r, p) ==
    /\ files' = [files EXCEPT ![p] = "kept"]
    /\ fetch' = [fetch EXCEPT ![r].todo = Tail(fetch[r].todo), ![r].whole = "no",
                    ![r].locks = IF files[p] = "kept" THEN @ ELSE Append(@, p)]

\* The next pack of the manifest: recorded ones are passed over, the rest are
\* skipped when the closure is there, or downloaded and indexed.
ApplyPack(r) ==
    /\ fetch[r].pc = "apply" /\ fetch[r].todo # <<>>
    /\ LET p == Head(fetch[r].todo)
           rest == Tail(fetch[r].todo)
       IN  \/ /\ p \in recorded[r]
              /\ fetch' = [fetch EXCEPT ![r].todo = rest]
              /\ UNCHANGED files
           \/ /\ p \notin recorded[r] /\ Whole(r)
              /\ fetch' = [fetch EXCEPT ![r].todo = rest, ![r].whole = "yes"]
              /\ UNCHANGED files
           \/ /\ p \notin recorded[r] /\ ~Whole(r)
              /\ IndexPack(r, p)
    /\ UNCHANGED <<loose, wired, recorded, gc, pruned, kills>>

\* Mutant of RecordApplied: the set may be saved before the last pack is indexed.
RecordEarly(r) ==
    /\ fetch[r].pc = "apply" /\ Len(fetch[r].todo) < 2
    /\ recorded' = [recorded EXCEPT ![r] = @ \cup Range(LivePacks[r])]
    /\ fetch' = [fetch EXCEPT ![r].pc = IF fetch[r].todo = <<>> THEN "verify" ELSE @]
    /\ UNCHANGED <<files, loose, wired, gc, pruned, kills>>

\* Mutant of RecordApplied: one applied set for all remotes.
RecordForAll(r) ==
    /\ fetch[r].pc = "apply" /\ fetch[r].todo = <<>>
    /\ recorded' = [q \in Remotes |-> recorded[q] \cup Range(LivePacks[r])]
    /\ fetch' = [fetch EXCEPT ![r].pc = "verify", ![r].whole = "unasked"]
    /\ UNCHANGED <<files, loose, wired, gc, pruned, kills>>

\* MarkApplied records every pack of the manifest.
RecordApplied(r) ==
    /\ fetch[r].pc = "apply" /\ fetch[r].todo = <<>>
    /\ recorded' = [recorded EXCEPT ![r] = @ \cup Range(LivePacks[r])]
    /\ fetch' = [fetch EXCEPT ![r].pc = "verify", ![r].whole = "unasked"]
    /\ UNCHANGED <<files, loose, wired, gc, pruned, kills>>

\* fetchBatch: every requested object is there, or the session ends with the
\* TAMPER ALARM.  Then the helper reports its locks.
VerifyObjects(r) ==
    /\ fetch[r].pc = "verify"
    /\ fetch' = [fetch EXCEPT ![r] =
                    IF @.want \subseteq Stored THEN [@ EXCEPT !.pc = "wire"]
                    ELSE [NoFetch EXCEPT !.pc = "tamper"]]
    /\ UNCHANGED <<files, loose, wired, recorded, gc, pruned, kills>>

\* git checks connectivity and sets its refs.
WireRefs(r) ==
    /\ fetch[r].pc = "wire"
    /\ wired' = IF ReachAll(fetch[r].want) \subseteq Stored
                THEN [wired EXCEPT ![r] = @ \cup fetch[r].want] ELSE wired
    /\ fetch' = [fetch EXCEPT ![r].pc = "unlock", ![r].want = {}]
    /\ UNCHANGED <<files, loose, recorded, gc, pruned, kills>>

\* git removes the keep of the first lock line, the only one it remembers, and is
\* done with the helper.
Unlock(r) ==
    /\ fetch[r].pc = "unlock"
    /\ files' = [p \in StorePacks |->
                    IF fetch[r].locks # <<>> /\ p = Head(fetch[r].locks)
                       /\ files[p] = "kept"
                    THEN "plain" ELSE files[p]]
    /\ fetch' = [fetch EXCEPT ![r] = NoFetch]
    /\ UNCHANGED <<loose, wired, recorded, gc, pruned, kills>>

\* The session ends; it may have been opened for something else than a fetch.
CloseSession(r) ==
    /\ fetch[r].pc \in {"ready", "tamper"}
    /\ fetch' = [fetch EXCEPT ![r] = NoFetch]
    /\ UNCHANGED <<files, loose, wired, recorded, gc, pruned, kills>>

\* A fetch dies, or fails on a pack: it reports no locks, its keeps stay.  (Death
\* before a fetch is what CloseSession does too.)
KillFetch(r) ==
    /\ kills < MaxKills /\ kills' = kills + 1
    /\ fetch[r].pc \in {"apply", "verify", "wire", "unlock"}
    /\ fetch' = [fetch EXCEPT ![r] = NoFetch]
    /\ UNCHANGED <<files, loose, wired, recorded, gc, pruned>>

-----------------------------------------------------------------------------
(* git gc *)

\* It lists the packs without a keep and walks the refs; it gives up if it cannot.
GcScan ==
    /\ gc.pc = "idle" /\ RefsIntact
    /\ gc' = [pc |-> "sweep", live |-> LiveCommits,
              listed |-> {p \in StorePacks : files[p] = "plain"}]
    /\ UNCHANGED <<files, loose, wired, recorded, fetch, pruned, kills>>

\* What it found reachable moves to a new pack, the listed packs go, whether or
\* not one has a keep again, and with them what nothing reached.
GcSweep ==
    LET held == loose \cup UNION {PackCommits[p] : p \in gc.listed}
    IN  /\ gc.pc = "sweep"
        /\ gc' = NoGc
        /\ loose' = held \cap gc.live
        /\ files' = [p \in StorePacks |-> IF p \in gc.listed THEN "absent" ELSE files[p]]
        /\ pruned' = pruned \cup (held \ gc.live)
        /\ UNCHANGED <<wired, recorded, fetch, kills>>

-----------------------------------------------------------------------------

StoreInit ==
    /\ files = [p \in StorePacks |-> "absent"]
    /\ loose = {}
    /\ wired = [r \in Remotes |-> {}]
    /\ recorded = [r \in Remotes |-> {}]
    /\ fetch = [r \in Remotes |-> NoFetch]
    /\ gc = NoGc
    /\ pruned = {}
    /\ kills = 0

SessionStep(r) ==
    \/ ListKeeps(r) \/ ReachableObjects(r) \/ (\E p \in StorePacks : ReapKeep(r, p))
    \/ BeginFetch(r) \/ ApplyPack(r) \/ RecordApplied(r) \/ VerifyObjects(r)
    \/ WireRefs(r) \/ Unlock(r) \/ CloseSession(r)

StoreNext ==
    \/ \E r \in Remotes : SessionStep(r) \/ KillFetch(r)
    \/ GcScan \/ GcSweep

StoreSpec == StoreInit /\ [][StoreNext]_storeVars

-----------------------------------------------------------------------------
(* Properties *)

\* Every session, keep and record is about packs and commits there are.
StoreTypeOK ==
    /\ files \in [StorePacks -> {"absent", "kept", "plain"}]
    /\ loose \subseteq Commits /\ pruned \subseteq Commits
    /\ \A r \in Remotes : wired[r] \subseteq HostRefs[r]
    /\ \A r \in Remotes : recorded[r] \subseteq Range(LivePacks[r])

\* keeps.go:8: "a concurrent gc can never prune a not-yet-wired fetch's objects".
\* What a fetch has indexed stays in the store until git has set its refs, although
\* sessions of other remotes reap keeps and gc collects meanwhile.
KeptUntilWired ==
    \A r \in Remotes :
        fetch[r].pc \in {"apply", "verify", "wire"} =>
            \A p \in Range(fetch[r].locks) : PackCommits[p] \subseteq Stored

\* The alarm of a fetch is false in this module, whose host serves every pack; it
\* is never false unless gc has collected objects of that remote (fetchBatch,
\* FetchApply, packSkippable).
AlarmMeansPruned ==
    \A r \in Remotes :
        fetch[r].pc = "tamper" => ReachAll(HostRefs[r]) \cap pruned # {}

\* ReapOrphanKeeps (setup.go:276): a keep "that would otherwise pin those packs
\* against gc/repack forever" goes once the refs reach its objects, unless git
\* cannot walk the refs any more.
KeepsReclaimed ==
    []<>(RefsIntact =>
            \A p \in StorePacks : files[p] = "kept" => ~(PackCommits[p] \subseteq LiveCommits))

=============================================================================
