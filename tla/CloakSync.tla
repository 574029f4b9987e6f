----------------------------- MODULE CloakSync -----------------------------
(***************************************************************************)
(* Several clients synchronise encrypted git repositories through one      *)
(* branch of an ordinary git host.  The host stores versions (a backend    *)
(* commit: one encrypted manifest plus the packs it declares live) and     *)
(* moves its branch by compare-and-swap only.  A client runs one session   *)
(* at a time, under the flock of its state directory: it loads and checks  *)
(* the remote state once, then fetches or pushes against the state it      *)
(* loaded, re-loading only after it lost a compare-and-swap.               *)
(*                                                                         *)
(* A session is a sequence of the steps below; another client, or the      *)
(* host, can act between any two of them, and a session can die between    *)
(* any two of them.  Planning a push, building its pack and commit and     *)
(* offering it to the host is one step: before the host decides, planning  *)
(* reads only what the session loaded and the client's own store.          *)
(***************************************************************************)
EXTENDS Manifests, Sequences

CONSTANTS
    Clients,        \* the repositories that share the remote
    PushRetries,    \* cloak.pushRetries: retries after a lost compare-and-swap
    MaxRequests,    \* bound: push, repack and accept requests made in all
    Faults          \* which kinds of trouble the environment may cause

ASSUME PushRetriesAssumption == PushRetries \in Nat
ASSUME MaxRequestsAssumption == MaxRequests \in Nat

(***************************************************************************)
(* "crash"       a session dies, is killed, or gives up on an error        *)
(* "network"     the host's answer to a push is lost or is a refusal that  *)
(*               does not mean the branch moved; an accept command cannot  *)
(*               reach the host                                            *)
(* "restore"     the operator of the host brings back an older version     *)
(* "wipe"        ... or deletes the branch                                 *)
(* "consolidate" not trouble: cloak.geometricFactor > 0                    *)
(* "repack"      not trouble: users run git cloak repack                   *)
(* "accept"      not trouble: users run the accept commands                *)
(***************************************************************************)
ASSUME FaultsAssumption ==
    Faults \subseteq {"crash", "network", "restore", "wipe",
                      "consolidate", "repack", "accept"}

VARIABLES
    \* the host
    versions,   \* every version the host ever stored, in order
    tip,        \* the version its branch points at; 0: there is no branch
    \* each client's repository and state directory
    objs,       \* commits in the local object store
    applied,    \* ids in the applied file
    pin,        \* the version named by the generation file; 0: no file
    repoPin,    \* the repository named by the repoid file; 0: no file
    \* each client's session
    sess,
    \* bound
    requests    \* how many requests users made

host == <<versions, tip>>
disk == <<objs, applied, pin, repoPin>>
vars == <<host, disk, sess, requests>>

NoBatch == [r \in {} |-> "update"]
NoPins == [pin |-> 0, repo |-> 0]

Ops == {"helper", "repack", "accept-rollback", "accept-repo-change"}
Steps == {"idle", "ready", "fetched", "push", "lost", "pinGen", "pinRepo",
          "mark", "clearing", "cleared", "restorePin", "restoreRepo"}
Accepts == {"accept-rollback", "accept-repo-change"}

\* What a user is alarmed with: the ROLLBACK ALARM, and the TAMPER ALARM raised
\* by a pin or by a fetch whose packs did not deliver a requested object.
Alarms == {"rollback", "tamper", "incomplete"}

Sessions ==
    [op : Ops,          \* the command it executes
     pc : Steps,        \* its next step
     cur : Nat,         \* the remote state it loaded; 0: an empty remote
     batch : Batches \cup {NoBatch},    \* the push batch it executes
     attempt : Nat,     \* how many compare-and-swaps this push has lost
     mark : SUBSET PackIds,     \* what to record as applied after the pins
     saved : [pin : Nat, repo : Nat],   \* pins an accept command cleared
     alarm : Alarms \cup {"none"}]      \* the alarm it ended with

\* No session, the last one having ended with alarm r.
Idle(r) == [op |-> "helper", pc |-> "idle", cur |-> 0, batch |-> NoBatch,
            attempt |-> 0, mark |-> {}, saved |-> NoPins, alarm |-> r]

\* The manifest of a version; an empty remote has the empty manifest.
Manifest(v) == IF v = 0 THEN EmptyManifest ELSE versions[v]

\* What the session of c works on.
Loaded(c) == Manifest(sess[c].cur)

End(c, r) == sess' = [sess EXCEPT ![c] = Idle(r)]
Goto(c, s) == sess' = [sess EXCEPT ![c].pc = s]
Request == requests < MaxRequests /\ requests' = requests + 1

-----------------------------------------------------------------------------
(* Validation of what the host serves *)

\* Mutant of CheckPin: the manifest of an equal generation is not compared.
CheckGenerationOnly(c, v) ==
    IF pin[c] = 0 \/ (v # 0 /\ Manifest(v).gen >= Manifest(pin[c]).gen) THEN "ok"
    ELSE "rollback"

\* The generation must not fall behind the pin, and a manifest of the pinned
\* generation must be the pinned one.
CheckPin(c, v) ==
    CASE pin[c] = 0 -> "ok"
      [] pin[c] # 0 /\ v = 0 -> "rollback"
      [] pin[c] # 0 /\ v # 0 ->
            IF v = pin[c] \/ Manifest(v).gen > Manifest(pin[c]).gen THEN "ok"
            ELSE IF Manifest(v).gen = Manifest(pin[c]).gen THEN "tamper"
            ELSE "rollback"

\* The repository must be the pinned one; a generation file without a repoid
\* file is refused.
CheckRepoID(c, v) ==
    CASE v = 0 -> "ok"
      [] v # 0 /\ repoPin[c] = 0 -> IF pin[c] = 0 THEN "ok" ELSE "tamper"
      [] v # 0 /\ repoPin[c] # 0 ->
            IF Manifest(v).repo = repoPin[c] THEN "ok" ELSE "tamper"

\* LoadRemoteState against the branch as it is now: "ok" or an alarm.
LoadRemoteState(c) ==
    IF CheckPin(c, tip) = "ok" THEN CheckRepoID(c, tip) ELSE CheckPin(c, tip)

-----------------------------------------------------------------------------
(* Sessions: opening, fetching *)

\* A user commits on top of a history their repository holds.
LocalCommit(c) ==
    /\ \E x \in Commits :
          /\ \A d \in Clients : x \notin objs[d]
          /\ Reach[x] \ {x} \subseteq objs[c]
          /\ objs' = [objs EXCEPT ![c] = @ \cup {x}]
    /\ UNCHANGED <<host, applied, pin, repoPin, sess, requests>>

\* A session that opens loads the remote state or ends with the alarm.
Open(c, command) ==
    /\ sess[c].pc = "idle"
    /\ IF LoadRemoteState(c) = "ok"
       THEN sess' = [sess EXCEPT ![c] =
                       [Idle("none") EXCEPT !.op = command, !.pc = "ready",
                                            !.cur = tip]]
       ELSE End(c, LoadRemoteState(c))
    /\ UNCHANGED <<host, disk>>

\* git starts the helper.
OpenHelper(c) == Open(c, "helper") /\ UNCHANGED requests

CloseHelper(c) ==
    /\ sess[c].pc = "ready" /\ sess[c].op = "helper"
    /\ End(c, "none")
    /\ UNCHANGED <<host, disk, requests>>

\* FetchApply: download what is missing and record every pack of the loaded
\* manifest as applied.  The helper runs it when git asks for objects, repack
\* at the start of each attempt.
FetchApply(c) ==
    /\ sess[c].pc = "ready" /\ sess[c].cur # 0
    /\ sess[c].op = "helper" => Tips(Loaded(c).refs) # {}
    /\ objs' = [objs EXCEPT ![c] =
                  @ \cup PackObjs(Missing(Loaded(c), objs[c], applied[c]))]
    /\ applied' = [applied EXCEPT ![c] = @ \cup Ids(Loaded(c).packs)]
    /\ Goto(c, "fetched")
    /\ UNCHANGED <<host, pin, repoPin, requests>>

\* FetchApply is cut short: some packs reached the object store, none was
\* recorded as applied.
FetchApplyCut(c) ==
    /\ "crash" \in Faults
    /\ sess[c].pc = "ready" /\ sess[c].cur # 0
    /\ \E got \in SUBSET Missing(Loaded(c), objs[c], applied[c]) :
          objs' = [objs EXCEPT ![c] = @ \cup PackObjs(got)]
    /\ End(c, "none")
    /\ UNCHANGED <<host, applied, pin, repoPin, requests>>

\* Mutant of FetchVerify: the batch is answered without CommitPin.
VerifyUnpinned(c) ==
    /\ sess[c].pc = "fetched" /\ sess[c].op = "helper"
    /\ sess' = [sess EXCEPT ![c] =
                  [Idle("none") EXCEPT !.pc = "ready", !.cur = sess[c].cur]]
    /\ UNCHANGED <<host, disk, requests>>

\* Every object git asked for must be there before the pins move.
FetchVerify(c) ==
    /\ sess[c].pc = "fetched" /\ sess[c].op = "helper"
    /\ \E asked \in (SUBSET Tips(Loaded(c).refs)) \ {{}} :
          IF asked \subseteq objs[c] THEN Goto(c, "pinGen")
          ELSE End(c, "incomplete")
    /\ UNCHANGED <<host, disk, requests>>

-----------------------------------------------------------------------------
(* Saving the pins, for a fetch, a push and an accept command *)

\* The request of c is carried out: the helper waits for the next one, a
\* command ends.
Resolve(c) ==
    IF sess[c].op = "helper"
    THEN sess' = [sess EXCEPT ![c] =
                    [Idle("none") EXCEPT !.pc = "ready", !.cur = sess[c].cur]]
    ELSE End(c, "none")

\* Mutant of SaveGeneration: the pin names the version after the loaded one.
SaveNextGeneration(c) ==
    /\ sess[c].pc = "pinGen"
    /\ pin' = [pin EXCEPT ![c] = sess[c].cur + 1]
    /\ Goto(c, "pinRepo")
    /\ UNCHANGED <<host, objs, applied, repoPin, requests>>

\* SavePins, first rename: the generation file.
SaveGeneration(c) ==
    /\ sess[c].pc = "pinGen"
    /\ pin' = [pin EXCEPT ![c] = sess[c].cur]
    /\ Goto(c, "pinRepo")
    /\ UNCHANGED <<host, objs, applied, repoPin, requests>>

\* SavePins, second rename: the repoid file.
SaveRepoID(c) ==
    /\ sess[c].pc = "pinRepo"
    /\ repoPin' = [repoPin EXCEPT ![c] = Loaded(c).repo]
    /\ IF sess[c].mark = {} THEN Resolve(c) ELSE Goto(c, "mark")
    /\ UNCHANGED <<host, objs, applied, pin, requests>>

\* The packs of an accepted push whose objects are local.
MarkApplied(c) ==
    /\ sess[c].pc = "mark"
    /\ applied' = [applied EXCEPT ![c] = @ \cup sess[c].mark]
    /\ Resolve(c)
    /\ UNCHANGED <<host, objs, pin, repoPin, requests>>

-----------------------------------------------------------------------------
(* Pushing and repacking *)

\* The commits a source of a push may name: those with their whole history.
Complete(c) == {x \in objs[c] : Reach[x] \subseteq objs[c]}

\* git hands the helper a push batch.
BeginPush(c) ==
    /\ sess[c].pc = "ready" /\ sess[c].op = "helper"
    /\ Request
    /\ \E batch \in Batches :
          /\ Updates(batch) # {} => Complete(c) # {}
          /\ sess' = [sess EXCEPT ![c] = [@ EXCEPT !.pc = "push", !.batch = batch]]
    /\ UNCHANGED <<host, disk>>

\* A user runs git cloak repack.
OpenRepack(c) == "repack" \in Faults /\ Request /\ Open(c, "repack")

\* What the sources of the batch resolve to, at this attempt.
Sources(c) == [Updates(sess[c].batch) -> Complete(c)]

\* Mutants: the host does not let a plain push create the branch, and a squash
\* goes out with a plain --force.
NeverCreates(c) == tip \in Loaded(c).chain
PlainForce(c) == TRUE

\* The host moves its branch by compare-and-swap: to a commit that continues
\* the branch (plain push), or from exactly the leased commit (squash).
FastForwardOk(c) == tip = 0 \/ tip \in Loaded(c).chain
LeaseOk(c) == tip = sess[c].cur

NewVersion == Len(versions) + 1

\* A plain push that offers the host the packs new.
PlainOffer(c, src, new) ==
    [man |-> NextPushManifest(Loaded(c), NewVersion,
                NewRefs(sess[c].batch, src, Loaded(c).refs, objs[c]), new),
     mark |-> Ids(new), taken |-> FastForwardOk(c)]

\* The same push, squashed because the victims were consolidated.
SquashOffer(c, offer, new, victims) ==
    [man |-> Consolidated(offer.man, NewVersion, victims),
     mark |-> Ids(new \ victims) \cup
              IF CanMarkConsolidated(victims, new, applied[c])
              THEN {<<NewVersion, 0>>} ELSE {},
     taken |-> LeaseOk(c)]

\* What the push of c may offer the host, and whether the host would take it.
PushOffers(c, src) ==
    LET man == Loaded(c)
        X == PackRevs(Wants(sess[c].batch, src, man.refs, objs[c]), man.refs, objs[c])
        Squashed(new) ==
            {SquashOffer(c, PlainOffer(c, src, new), new, victims) :
                victims \in {V \in SUBSET (man.packs \cup new) :
                               \E p, q \in V : p # q}}
    IN  UNION {{PlainOffer(c, src, new)} \cup
               IF "consolidate" \in Faults /\ sess[c].cur # 0
               THEN Squashed(new) ELSE {} : new \in BuildPacks(NewVersion, X)}

RepackOffer(c) == [man |-> RepackManifest(Loaded(c), NewVersion),
                   mark |-> {<<NewVersion, 0>>}, taken |-> LeaseOk(c)]

\* Some update of the batch is accepted.
Publishes(c, src) == Accepted(sess[c].batch, src, Loaded(c).refs, objs[c]) # {}

\* What the session of c may offer the host now.
Offers(c) ==
    IF sess[c].op = "repack"
    THEN IF sess[c].pc = "fetched" /\ HasObjectClosure(Loaded(c), objs[c])
         THEN {RepackOffer(c)} ELSE {}
    ELSE IF sess[c].pc = "push"
         THEN UNION {PushOffers(c, src) : src \in {s \in Sources(c) : Publishes(c, s)}}
         ELSE {}

\* Every update of the batch is rejected: git is told, nothing else happens.
PushReject(c) ==
    /\ sess[c].pc = "push"
    /\ \E src \in Sources(c) : ~Publishes(c, src)
    /\ Resolve(c)
    /\ UNCHANGED <<host, disk, requests>>

\* The host stores man and moves its branch to it.
HostTakes(man) ==
    /\ versions' = Append(versions, man)
    /\ tip' = NewVersion

\* The compare-and-swap succeeds and the session learns it.
PushOK(c) ==
    /\ \E offer \in Offers(c) :
          /\ offer.taken
          /\ HostTakes(offer.man)
          /\ sess' = [sess EXCEPT ![c] = [@ EXCEPT !.pc = "pinGen",
                                !.cur = NewVersion, !.mark = offer.mark]]
    /\ UNCHANGED <<disk, requests>>

\* The host refuses because its branch moved.
PushCASLost(c) ==
    /\ \E offer \in Offers(c) : ~offer.taken
    /\ Goto(c, "lost")
    /\ UNCHANGED <<host, disk, requests>>

\* The compare-and-swap succeeds and the session takes the answer for a refusal
\* (the connection broke while the status was reported) or for a failure.
PushAnswerLost(c) ==
    /\ "network" \in Faults
    /\ \E offer \in Offers(c) : offer.taken /\ HostTakes(offer.man)
    /\ Goto(c, "lost") \/ End(c, "none")
    /\ UNCHANGED <<disk, requests>>

\* The host refuses although its branch did not move: any rejected status line
\* counts as a lost compare-and-swap.
PushRefused(c) ==
    /\ "network" \in Faults
    /\ Offers(c) # {}
    /\ Goto(c, "lost")
    /\ UNCHANGED <<host, disk, requests>>

\* Mutant of RetryAfterCASLost: plan again on the state that lost.
RetryOnLostState(c) ==
    /\ sess[c].pc = "lost"
    /\ Goto(c, IF sess[c].op = "repack" THEN "ready" ELSE "push")
    /\ UNCHANGED <<host, disk, requests>>

\* After a lost compare-and-swap: load the remote state again, then retry unless
\* the retries are used up.
RetryAfterCASLost(c) ==
    /\ sess[c].pc = "lost"
    /\ IF LoadRemoteState(c) # "ok" THEN End(c, LoadRemoteState(c))
       ELSE IF sess[c].attempt = PushRetries THEN End(c, "none")
       ELSE sess' = [sess EXCEPT ![c] =
                       [@ EXCEPT !.cur = tip, !.attempt = sess[c].attempt + 1,
                           !.pc = IF sess[c].op = "repack" THEN "ready" ELSE "push"]]
    /\ UNCHANGED <<host, disk, requests>>

\* repack has nothing to pack: the remote is empty, or the local repository does
\* not hold all that the refs reach and pack-objects fails.
RepackFails(c) ==
    /\ sess[c].op = "repack"
    /\ \/ sess[c].pc = "ready" /\ sess[c].cur = 0
       \/ sess[c].pc = "fetched" /\ ~HasObjectClosure(Loaded(c), objs[c])
    /\ End(c, "none")
    /\ UNCHANGED <<host, disk, requests>>

-----------------------------------------------------------------------------
(* git cloak accept-rollback, git cloak accept-repo-change *)

\* Take a copy of the pins, then clear the first of them.
AcceptBegin(c) ==
    /\ "accept" \in Faults
    /\ sess[c].pc = "idle"
    /\ Request
    /\ \E command \in Accepts :
          /\ sess' = [sess EXCEPT ![c] =
                        [Idle("none") EXCEPT !.op = command,
                            !.pc = IF command = "accept-rollback" THEN "cleared"
                                   ELSE "clearing",
                            !.saved = [pin |-> pin[c], repo |-> repoPin[c]]]]
          /\ IF command = "accept-rollback"
             THEN pin' = [pin EXCEPT ![c] = 0] /\ UNCHANGED repoPin
             ELSE repoPin' = [repoPin EXCEPT ![c] = 0] /\ UNCHANGED pin
    /\ UNCHANGED <<host, objs, applied>>

\* accept-repo-change clears the generation file second.
AcceptClearPin(c) ==
    /\ sess[c].pc = "clearing"
    /\ pin' = [pin EXCEPT ![c] = 0]
    /\ Goto(c, "cleared")
    /\ UNCHANGED <<host, objs, applied, repoPin, requests>>

\* Load the remote state under the cleared pins: pin it, or end if the remote
\* is empty.
AcceptLoad(c) ==
    /\ sess[c].pc = "cleared"
    /\ LoadRemoteState(c) = "ok"
    /\ IF tip = 0 THEN End(c, "none")
       ELSE sess' = [sess EXCEPT ![c] = [@ EXCEPT !.pc = "pinGen", !.cur = tip]]
    /\ UNCHANGED <<host, disk, requests>>

\* The remote state cannot be loaded, or is refused by the pin that is left.
AcceptFails(c) ==
    /\ sess[c].pc = "cleared"
    /\ \/ LoadRemoteState(c) # "ok" /\ sess' =
             [sess EXCEPT ![c].pc = "restorePin", ![c].alarm = LoadRemoteState(c)]
       \/ "network" \in Faults /\ Goto(c, "restorePin")
    /\ UNCHANGED <<host, disk, requests>>

\* The generation file is put back if there was one, ...
AcceptRestorePin(c) ==
    /\ sess[c].pc = "restorePin"
    /\ pin' = [pin EXCEPT ![c] = IF sess[c].saved.pin = 0 THEN @ ELSE sess[c].saved.pin]
    /\ Goto(c, "restoreRepo")
    /\ UNCHANGED <<host, objs, applied, repoPin, requests>>

\* Mutant of AcceptRestoreRepo: the repoid file is not put back.
RestoreForgetsRepo(c) ==
    /\ sess[c].pc = "restoreRepo"
    /\ End(c, sess[c].alarm)
    /\ UNCHANGED <<host, disk, requests>>

\* ... then the repoid file.
AcceptRestoreRepo(c) ==
    /\ sess[c].pc = "restoreRepo"
    /\ repoPin' = [repoPin EXCEPT ![c] =
                      IF sess[c].saved.repo = 0 THEN @ ELSE sess[c].saved.repo]
    /\ End(c, sess[c].alarm)
    /\ UNCHANGED <<host, objs, applied, pin, requests>>

-----------------------------------------------------------------------------
(* The environment *)

\* The session dies; what it wrote stays.
Crash(c) ==
    /\ "crash" \in Faults
    /\ sess[c].pc # "idle"
    /\ End(c, "none")
    /\ UNCHANGED <<host, disk, requests>>

\* The host goes back to an older version.
Restore ==
    /\ "restore" \in Faults
    /\ \E v \in 1..Len(versions) : v < tip /\ tip' = v
    /\ UNCHANGED <<versions, disk, sess, requests>>

\* The branch is deleted on the host.
Wipe ==
    /\ "wipe" \in Faults
    /\ tip # 0 /\ tip' = 0
    /\ UNCHANGED <<versions, disk, sess, requests>>

-----------------------------------------------------------------------------
Init ==
    /\ versions = <<>>
    /\ tip = 0
    /\ objs = [c \in Clients |-> {}]
    /\ applied = [c \in Clients |-> {}]
    /\ pin = [c \in Clients |-> 0]
    /\ repoPin = [c \in Clients |-> 0]
    /\ sess = [c \in Clients |-> Idle("none")]
    /\ requests = 0

Repacking(c) == OpenRepack(c) \/ RepackFails(c)
Fetching(c) == FetchApply(c) \/ FetchApplyCut(c) \/ FetchVerify(c)
Saving(c) == SaveGeneration(c) \/ SaveRepoID(c) \/ MarkApplied(c)
Pushing(c) == \/ BeginPush(c) \/ PushReject(c) \/ PushOK(c) \/ PushCASLost(c)
              \/ PushAnswerLost(c) \/ PushRefused(c) \/ RetryAfterCASLost(c)
Accepting(c) == \/ AcceptBegin(c) \/ AcceptClearPin(c) \/ AcceptLoad(c)
                \/ AcceptFails(c) \/ AcceptRestorePin(c) \/ AcceptRestoreRepo(c)

ClientStep(c) ==
    \/ LocalCommit(c) \/ OpenHelper(c) \/ CloseHelper(c) \/ Crash(c)
    \/ Fetching(c) \/ Saving(c) \/ Pushing(c) \/ Repacking(c) \/ Accepting(c)

Next == (\E c \in Clients : ClientStep(c)) \/ Restore \/ Wipe

Spec == Init /\ [][Next]_vars

\* What a session does next without being asked for more.
Advance(c) ==
    \/ Saving(c) \/ FetchVerify(c) \/ RepackFails(c)
    \/ PushReject(c) \/ PushOK(c) \/ PushCASLost(c) \/ RetryAfterCASLost(c)
    \/ sess[c].op = "repack" /\ FetchApply(c)

\* The local repository lacks history of the refs the session loaded: git, told
\* of them, asks for objects.  When it lacks nothing git may end with the list.
Lacks(c) == ~(ReachAll(Tips(Loaded(c).refs)) \subseteq objs[c])

\* A running session goes on, git ends every helper it started, users start git
\* fetch again and again, and git does not forever leave missing objects unasked.
FairSpec ==
    /\ Spec
    /\ \A c \in Clients : /\ WF_vars(Advance(c))
                          /\ WF_vars(OpenHelper(c))
                          /\ SF_vars(CloseHelper(c))
                          /\ SF_vars(Lacks(c) /\ FetchApply(c))

-----------------------------------------------------------------------------
(* Type invariant *)

TypeOK ==
    /\ versions \in Seq(Manifests)
    /\ tip \in 0..Len(versions)
    /\ objs \in [Clients -> SUBSET Commits]
    /\ applied \in [Clients -> SUBSET PackIds]
    /\ pin \in [Clients -> 0..Len(versions)]
    /\ repoPin \in [Clients -> Nat]
    /\ sess \in [Clients -> Sessions]
    /\ \A c \in Clients : {sess[c].cur, sess[c].saved.pin} \subseteq 0..Len(versions)
    /\ requests \in Nat

-----------------------------------------------------------------------------
(* Properties of every host *)

\* No version the host ever stored declares a ref whose history its packs do
\* not contain, whichever objects the pushing clients happened to hold and
\* however often packs were merged (buildPackRevs, consolidate, repackPack).
RemoteComplete ==
    \A v \in 1..Len(versions) :
        ReachAll(Tips(versions[v].refs)) \subseteq PackObjs(versions[v].packs)

\* Whatever the host serves and however sessions end, a client that runs no
\* accept command never moves its generation pin except to a newer generation,
\* and replaces the repository it pinned only by one it created itself, on a
\* remote that had become empty (CheckPin, CheckRepoID, SavePins).
PinsAdvance ==
    [][\A c \in Clients :
         sess[c].op \notin Accepts /\ sess'[c].op \notin Accepts =>
            /\ pin'[c] # pin[c] =>
                  pin[c] = 0 \/ Manifest(pin'[c]).gen > Manifest(pin[c]).gen
            /\ repoPin'[c] # repoPin[c] =>
                  \/ repoPin[c] = 0
                  \/ repoPin'[c] = sess[c].cur /\ sess[c].batch # NoBatch]_vars

\* What a fetch, push or repack works on is never behind what the client pinned,
\* at whatever moment the host was asked and whichever client moved on since, and
\* belongs to the pinned repository unless this push has just created another
\* one (loadPopulatedState, retryAfterCASLost).
WorksAheadOfPin ==
    \A c \in Clients :
        sess[c].pc # "idle" /\ sess[c].op \notin Accepts =>
            /\ pin[c] # 0 => \/ sess[c].cur = pin[c]
                             \/ Loaded(c).gen > Manifest(pin[c]).gen
            /\ repoPin[c] # 0 /\ sess[c].cur # 0 =>
                  \/ Loaded(c).repo = repoPin[c]
                  \/ Loaded(c).repo = sess[c].cur /\ sess[c].batch # NoBatch

\* A client between two sessions that remembers a generation remembers the
\* repository it belongs to, after accept commands that failed half-way too
\* (SavePins, runAcceptOnSession's restore).  Sessions must not be killed.
PinsAgree ==
    \A c \in Clients :
        sess[c].pc = "idle" /\ pin[c] # 0 => repoPin[c] = Manifest(pin[c]).repo

-----------------------------------------------------------------------------
(* Properties of an honest host: it keeps what it stored *)

\* Whatever a client skipped or recorded as applied before, the packs it would
\* download now complete the history of every ref the remote has (packSkippable,
\* canMarkConsolidated, MarkApplied).
FetchSufficient ==
    \A c \in Clients :
        ReachAll(Tips(Manifest(tip).refs)) \subseteq
            objs[c] \cup PackObjs(Missing(Manifest(tip), objs[c], applied[c]))

\* The only alarm a user can see is the refusal of pins a crash left half saved
\* (CheckPin, CheckRepoID, fetchBatch).
AlarmMeansHalfSaved ==
    \A c \in Clients :
        sess[c].alarm \in Alarms => pin[c] # 0 /\ repoPin[c] = 0

\* A compare-and-swap is lost only to a newer generation, so every retry has new
\* state to plan against and a push gives up only after others succeeded
\* (backend.push, retryAfterCASLost).
LostToNewer ==
    \A c \in Clients :
        sess[c].pc = "lost" => Manifest(tip).gen > Loaded(c).gen

\* A push is answered, however often it is overtaken (Engine.Push).
PushAnswered ==
    \A c \in Clients : sess[c].pc = "push" ~> sess[c].pc \in {"ready", "idle"}

\* When users stop pushing, everyone who keeps fetching ends up with the whole
\* history of the remote.  The last version need not be pinned: a client that has
\* all it reaches before, as after a repack, is sent no fetch batch (FetchApply).
Converges ==
    <>[](\A c \in Clients : ReachAll(Tips(Manifest(tip).refs)) \subseteq objs[c])

\* A client that finds history missing in the version the branch has ends up with
\* that version pinned, however often its sessions end before git asks for the
\* history, unless the branch moves on first (fetchBatch, CommitPin).
MissedIsPinned ==
    \A c \in Clients : \A v \in 1..MaxRequests :
        sess[c].pc = "ready" /\ sess[c].cur = v /\ tip = v /\ Lacks(c)
            ~> pin[c] = v \/ tip # v

\* The remote is the register its clients are promised: a push changes the refs
\* the remote has when it takes effect, nothing that another client published is
\* undone unseen, and a squash or repack changes no ref (Engine.Push, backend.push).
Register == INSTANCE RefRegister WITH
    refs <- Manifest(tip).refs,
    gen <- Manifest(tip).gen,
    asked <- [c \in Clients |-> sess[c].batch]

RegisterSpec == Register!Spec

-----------------------------------------------------------------------------
(* Statements of the documentation, the tests and the source *)

\* test/integration/scenario_m5_test.go:186: "an interrupted push can never
\* leave state that blocks or corrupts the next one".
InterruptionNeverBlocks == \A c \in Clients : sess[c].alarm = "none"

\* engine/consolidate.go:239: an empty remote is an error ("remote is empty;
\* nothing to repack"), so a repack attempt always has a manifest to work on.
RepackHasManifest ==
    \A c \in Clients :
        sess[c].op = "repack" /\ sess[c].pc = "ready" /\ sess[c].attempt > 0
            => sess[c].cur # 0

\* howto.md:100-105: after restoring the host from a backup, run accept-rollback
\* once; and a TAMPER ALARM means that ciphertext failed verification.
RestoreIsNoTamper == \A c \in Clients : sess[c].alarm # "incomplete"

\* README.md:53: "Host rollback/replay of old state is detected and refused", so
\* what a session works on continues what the client saw last.
RollbackRefused ==
    \A c \in Clients :
        sess[c].pc # "idle" /\ sess[c].cur # 0 /\ pin[c] # 0
            => pin[c] \in Loaded(c).chain
=============================================================================
