----------------------------- MODULE StateDirs -----------------------------
(***************************************************************************)
(* The state directories of one backend URL in one local repository, down  *)
(* to renames and syncs.  A session reaches its directory by path: under   *)
(* the remote's name when the URL is the remote's fetch URL, under a hash  *)
(* of the URL otherwise.  Opening a named directory that is missing adopts *)
(* the hashed one by renaming it, before any lock is taken.  Then the      *)
(* session flocks a file in the directory and works by path again.         *)
(*                                                                         *)
(* CloakSync takes "one session per client" and "a saved file stays saved" *)
(* for granted; this module says where both come from and where they end.  *)
(* The host is honest and reduced to a generation number.  No code syncs   *)
(* the directory that holds the state directories: a power loss may take   *)
(* back the last of the operations on it, which reach the disk in order.   *)
(***************************************************************************)
EXTENDS Naturals, Sequences, FiniteSets

CONSTANTS
    Named,      \* sessions of the configured remote
    Anonymous,  \* sessions that name the same URL themselves
    MaxGen,     \* bound: the generations the host reaches
    MaxTrouble, \* bound: how often trouble happens
    Faults      \* subset of {"kill", "power", "full"}: a session is killed,
                \* the machine loses power, a write finds the disk full

ASSUME ProcsAssumption == Named \cap Anonymous = {}
ASSUME BoundsAssumption == MaxGen \in Nat /\ MaxTrouble \in Nat

Procs == Named \cup Anonymous
Paths == {"named", "hashed"}
Files == {"generation", "repoid", "applied"}

\* What a file holds is a set: its generation, the repository id 1, or the
\* generations whose packs are applied.  {} is a file that does not exist, Torn
\* one whose data never reached the disk.
Contents == SUBSET (0..(MaxGen + 1))
Torn == {0}
Blank == [f \in Files |-> {}]

VARIABLES
    gen,    \* the host's generation; 0: an empty remote
    entry,  \* the directory each path leads to; 0: none
    was,    \* what a power loss may make of entry: all it has been since the last
    dirs,   \* the directories, in the order they were made, see NewDir
    sess,   \* the sessions, see Idle
    trouble \* bound: how often trouble happened

vars == <<gen, entry, was, dirs, sess, trouble>>

\* now: what a reader sees; may: what a power loss may leave, one value of each
\* set; tmp: the files in tmp/; scratch: there is a tmp/.
NewDir(scratch) == [now |-> Blank, may |-> [f \in Files |-> {{}}],
                    tmp |-> Blank, scratch |-> scratch]

NoPins == [generation |-> {}, repoid |-> {}]

Idle == [pc |-> "idle", op |-> "none", lock |-> 0, cur |-> 0, todo |-> <<>>,
         read |-> {}, before |-> NoPins]

-----------------------------------------------------------------------------
(* Opening and locking *)

\* Where the session of p finds its directory (stateIdentity, DirName).
Home(p) == IF p \in Named THEN "named" ELSE "hashed"
Dir(p) == entry[Home(p)]

Goto(p, s) == sess' = [sess EXCEPT ![p].pc = s]
End(p) == sess' = [sess EXCEPT ![p] = Idle]
Trouble(kind) == kind \in Faults /\ trouble < MaxTrouble /\ trouble' = trouble + 1

\* The first stat of adoptURLHashDir: only a missing named directory goes on.
StatRoot(p) ==
    /\ sess[p].pc = "idle"
    /\ Goto(p, IF p \in Named /\ Dir(p) = 0 THEN "stat" ELSE "mkdir")
    /\ UNCHANGED <<gen, entry, was, dirs, trouble>>

\* The second: is there a hashed directory to adopt?
StatHashed(p) ==
    /\ sess[p].pc = "stat"
    /\ Goto(p, IF entry["hashed"] = 0 THEN "mkdir" ELSE "adopt")
    /\ UNCHANGED <<gen, entry, was, dirs, trouble>>

\* A change of the paths, which no sync makes durable.
Lead(e) == entry' = e /\ was' = was \cup {entry}

\* The rename.  It fails when another session was faster; that is tolerated if
\* the named directory exists now.
Adopt(p) ==
    /\ sess[p].pc = "adopt"
    /\ \/ /\ entry["named"] = 0 /\ entry["hashed"] # 0
          /\ Lead([named |-> entry["hashed"], hashed |-> 0])
          /\ Goto(p, "mkdir")
       \/ /\ entry["named"] # 0
          /\ Goto(p, "mkdir")
          /\ UNCHANGED <<entry, was>>
       \/ /\ entry["named"] = 0 /\ entry["hashed"] = 0
          /\ End(p)
          /\ UNCHANGED <<entry, was>>
    /\ UNCHANGED <<gen, dirs, trouble>>

\* A directory appears at the path of p unless one is there.
Ensure(p, scratch) ==
    IF Dir(p) # 0
    THEN /\ dirs' = [dirs EXCEPT ![Dir(p)].scratch = @ \/ scratch]
         /\ UNCHANGED <<entry, was>>
    ELSE /\ dirs' = Append(dirs, NewDir(scratch))
         /\ Lead([entry EXCEPT ![Home(p)] = Len(dirs) + 1])

\* MkdirAll of tmp/.
MakeDir(p) ==
    /\ sess[p].pc = "mkdir"
    /\ Ensure(p, TRUE)
    /\ Goto(p, "open")
    /\ UNCHANGED <<gen, trouble>>

\* Lock opens the lock file of the directory it finds now ...
OpenLock(p) ==
    /\ sess[p].pc = "open"
    /\ IF Dir(p) = 0 THEN End(p)
       ELSE sess' = [sess EXCEPT ![p].lock = Dir(p), ![p].pc = "wait"]
    /\ UNCHANGED <<gen, entry, was, dirs, trouble>>

Holding == {"wire", "load", "ready", "work", "done", "failed"}
HoldsLock(p) == sess[p].pc \in Holding

\* Mutant of TakeLock: a shared lock.
TakeSharedLock(p) ==
    /\ sess[p].pc = "wait"
    /\ Goto(p, "wire")
    /\ UNCHANGED <<gen, entry, was, dirs, trouble>>

\* ... and waits for the lock on that file, wherever its directory moves to.
TakeLock(p) ==
    /\ sess[p].pc = "wait"
    /\ \A q \in Procs : HoldsLock(q) => sess[q].lock # sess[p].lock
    /\ Goto(p, "wire")
    /\ UNCHANGED <<gen, entry, was, dirs, trouble>>

\* backend.Open: git init makes the missing directories of its path.
OpenBackend(p) ==
    /\ sess[p].pc = "wire"
    /\ Ensure(p, FALSE)
    /\ Goto(p, "load")
    /\ UNCHANGED <<gen, trouble>>

-----------------------------------------------------------------------------
(* Working under the lock *)

File(p, f) == IF Dir(p) = 0 THEN {} ELSE dirs[Dir(p)].now[f]

PinsFound(p) == [f \in {"generation", "repoid"} |-> File(p, f)]

\* A generation file without a repoid file: CheckRepoID refuses to go on.
HalfSaved(now) == now["generation"] # {} /\ now["repoid"] = {}

\* CheckPin and CheckRepoID: the pins can be read and agree with the host.
Refuses(now) ==
    \/ now["generation"] = Torn
    \/ gen # 0 /\ (HalfSaved(now) \/ now["repoid"] = Torn)
    \/ \E g \in now["generation"] : g > gen

\* LoadRemoteState: the mirror must be there, and nothing to refuse.
Load(p) ==
    /\ sess[p].pc = "load"
    /\ IF Dir(p) = 0 \/ Refuses(dirs[Dir(p)].now)
       THEN End(p)
       ELSE sess' = [sess EXCEPT ![p].pc = "ready", ![p].cur = gen]
    /\ UNCHANGED <<gen, entry, was, dirs, trouble>>

\* Mutants of SavePins: without the directory sync, and one file after the other.
SavePinsUnsynced == << <<"stage", "generation">>, <<"stage", "repoid">>,
                       <<"rename", "generation">>, <<"rename", "repoid">> >>
SavePinsInTurn == << <<"stage", "generation">>, <<"rename", "generation">>,
                     <<"stage", "repoid">>, <<"rename", "repoid">>,
                     <<"sync", "generation">> >>

SavePins == << <<"stage", "generation">>, <<"stage", "repoid">>,
               <<"rename", "generation">>, <<"rename", "repoid">>,
               <<"sync", "generation">> >>

MarkApplied == << <<"read", "applied">>, <<"stage", "applied">>,
                  <<"rename", "applied">>, <<"sync", "applied">> >>

\* fetchBatch: packs applied now are recorded as applied, then the pins move.
Fetch(p) ==
    /\ sess[p].pc = "ready" /\ sess[p].cur # 0
    /\ sess' = [sess EXCEPT ![p].pc = "work", ![p].op = "fetch",
                            ![p].before = PinsFound(p), ![p].todo =
                    (IF 1..sess[p].cur \subseteq File(p, "applied") THEN <<>>
                     ELSE MarkApplied) \o SavePins]
    /\ UNCHANGED <<gen, entry, was, dirs, trouble>>

\* Push: the host takes the next generation, then persistPushed.
Push(p) ==
    /\ sess[p].pc = "ready" /\ Dir(p) # 0
    /\ sess[p].cur = gen /\ gen < MaxGen
    /\ gen' = gen + 1
    /\ sess' = [sess EXCEPT ![p].pc = "work", ![p].op = "push",
                            ![p].before = PinsFound(p), ![p].cur = gen + 1,
                            ![p].todo = SavePins \o MarkApplied]
    /\ UNCHANGED <<entry, was, dirs, trouble>>

\* The push loses the compare-and-swap and loads again, or finds no mirror.
PushFails(p) ==
    /\ sess[p].pc = "ready"
    /\ \/ Dir(p) = 0 /\ Goto(p, "failed")
       \/ Dir(p) # 0 /\ sess[p].cur # gen /\ Goto(p, "load")
    /\ UNCHANGED <<gen, entry, was, dirs, trouble>>

\* What the session of p writes to file f.
Content(p, f) ==
    CASE f = "generation" -> {sess[p].cur}
      [] f = "repoid" -> {1}
      [] f = "applied" -> sess[p].read \cup
            IF sess[p].op = "fetch" THEN 1..sess[p].cur ELSE {sess[p].cur}

Does(p, kind) == sess[p].pc = "work" /\ Head(sess[p].todo)[1] = kind
Target(p) == Head(sess[p].todo)[2]

\* Mutant of Advance: the end of the batch is missed.
AdvanceOn(p) == sess' = [sess EXCEPT ![p].todo = Tail(@), ![p].read = {}]

\* The next file step of p is done, and what it read is used up.
Advance(p) ==
    sess' = IF Len(sess[p].todo) > 1
            THEN [sess EXCEPT ![p].todo = Tail(@), ![p].read = {}]
            ELSE [sess EXCEPT ![p] = [Idle EXCEPT !.pc = "done", !.lock = sess[p].lock,
                                                  !.cur = sess[p].cur]]

\* The read of a read-modify-write; a missing file is an empty record.
ReadFile(p) ==
    /\ Does(p, "read")
    /\ sess' = [sess EXCEPT ![p].read = File(p, Target(p)), ![p].todo = Tail(@)]
    /\ UNCHANGED <<gen, entry, was, dirs, trouble>>

\* writeFileSync of a file in tmp/.
StageFile(p) ==
    /\ Does(p, "stage")
    /\ IF Dir(p) # 0 /\ dirs[Dir(p)].scratch
       THEN /\ dirs' = [dirs EXCEPT ![Dir(p)].tmp[Target(p)] = Content(p, Target(p))]
            /\ Advance(p)
       ELSE Goto(p, "failed") /\ UNCHANGED dirs
    /\ UNCHANGED <<gen, entry, was, trouble>>

\* The disk is full: the file in tmp/ is truncated, the session reports an error.
DiskFull(p) ==
    /\ Trouble("full")
    /\ Does(p, "stage")
    /\ Dir(p) # 0 /\ dirs[Dir(p)].scratch
    /\ dirs' = [dirs EXCEPT ![Dir(p)].tmp[Target(p)] = Torn]
    /\ Goto(p, "failed")
    /\ UNCHANGED <<gen, entry, was>>

\* The rename into place, seen at once and durable only after a sync.
RenameFile(p) ==
    /\ Does(p, "rename")
    /\ LET d == Dir(p)
           f == Target(p)
       IN  IF d # 0 /\ dirs[d].tmp[f] # {}
           THEN /\ dirs' = [dirs EXCEPT ![d].now[f] = dirs[d].tmp[f],
                                        ![d].may[f] = @ \cup {dirs[d].tmp[f]},
                                        ![d].tmp[f] = {}]
                /\ Advance(p)
           ELSE Goto(p, "failed") /\ UNCHANGED dirs
    /\ UNCHANGED <<gen, entry, was, trouble>>

\* syncDir: every entry of the directory is durable.
SyncDir(p) ==
    /\ Does(p, "sync")
    /\ IF Dir(p) = 0 THEN Goto(p, "failed") /\ UNCHANGED dirs
       ELSE /\ dirs' = [dirs EXCEPT ![Dir(p)].may =
                          [f \in Files |-> {dirs[Dir(p)].now[f]}]]
            /\ Advance(p)
    /\ UNCHANGED <<gen, entry, was, trouble>>

\* git has the helper's answer and sends another batch.
NextBatch(p) ==
    /\ sess[p].pc = "done" /\ Dir(p) # 0
    /\ Goto(p, "ready")
    /\ UNCHANGED <<gen, entry, was, dirs, trouble>>

\* Session.Close.
Close(p) ==
    /\ sess[p].pc \in {"ready", "done", "failed"}
    /\ End(p)
    /\ UNCHANGED <<gen, entry, was, dirs, trouble>>

-----------------------------------------------------------------------------
(* Trouble *)

\* A session is killed and the kernel releases its lock.  (Before it had one it
\* changed nothing that the next session does not find or make in the same way, and
\* between two batches it might as well close.)
Kill(p) ==
    /\ Trouble("kill")
    /\ sess[p].pc \in {"wire", "load", "work"}
    /\ End(p)
    /\ UNCHANGED <<gen, entry, was, dirs>>

\* How many directories had been made when the paths were e: none is ever removed.
Made(e) == IF e["named"] > e["hashed"] THEN e["named"] ELSE e["hashed"]

\* The machine loses power: files fall back to what the disk has, and so do the
\* paths.  Files in tmp/ are dropped, since they are truncated before they are used.
PowerLoss ==
    LET Unsynced == {u \in (1..Len(dirs)) \X Files :
                        dirs[u[1]].may[u[2]] # {dirs[u[1]].now[u[2]]}}
        Outcomes == UNION {dirs[u[1]].may[u[2]] : u \in Unsynced}
        Left(d, f, pick) == IF <<d, f>> \in Unsynced THEN pick[<<d, f>>]
                            ELSE dirs[d].now[f]
    IN  /\ Trouble("power")
        /\ entry' \in was \cup {entry} /\ was' = {}
        /\ \E pick \in [Unsynced -> Outcomes] :
              /\ \A u \in Unsynced : pick[u] \in dirs[u[1]].may[u[2]]
              /\ dirs' = [d \in 1..Made(entry') |->
                            [dirs[d] EXCEPT
                                !.now = [f \in Files |-> Left(d, f, pick)],
                                !.may = [f \in Files |-> {Left(d, f, pick)}],
                                !.tmp = Blank]]
        /\ sess' = [p \in Procs |-> Idle]
        /\ UNCHANGED gen

-----------------------------------------------------------------------------

Init ==
    /\ gen = 0
    /\ entry = [n \in Paths |-> 0]
    /\ was = {}
    /\ dirs = <<>>
    /\ sess = [p \in Procs |-> Idle]
    /\ trouble = 0

Next ==
    \/ \E p \in Procs :
          \/ StatRoot(p) \/ StatHashed(p) \/ Adopt(p) \/ MakeDir(p)
          \/ OpenLock(p) \/ TakeLock(p) \/ OpenBackend(p) \/ Load(p)
          \/ Fetch(p) \/ Push(p) \/ PushFails(p)
          \/ ReadFile(p) \/ StageFile(p) \/ DiskFull(p) \/ RenameFile(p) \/ SyncDir(p)
          \/ NextBatch(p) \/ Close(p) \/ Kill(p)
    \/ PowerLoss

Spec == Init /\ [][Next]_vars

-----------------------------------------------------------------------------
(* Properties *)

TypeOK ==
    /\ gen \in 0..MaxGen
    /\ entry \in [Paths -> 0..Len(dirs)]
    /\ was \subseteq [Paths -> 0..Len(dirs)]
    /\ \A d \in 1..Len(dirs) :
          /\ dirs[d].scratch \in BOOLEAN
          /\ \A f \in Files :
                /\ dirs[d].now[f] \in dirs[d].may[f]
                /\ dirs[d].may[f] \subseteq Contents
                /\ dirs[d].tmp[f] \in Contents
    /\ \A p \in Procs :
          /\ sess[p].lock \in 0..Len(dirs)
          /\ sess[p].cur \in 0..MaxGen
          /\ sess[p].pc = "work" => sess[p].todo # <<>>

\* state.go:126: "Lock takes an exclusive flock serializing helper and CLI invocations
\* for this remote".  That holds of the remote: however many sessions name the URL, a
\* session of the remote under its lock has its directory to itself, although the
\* directory may be renamed while one session runs and another opens it under its new
\* name.  It is not claimed of two sessions that name the URL: when the directory of one
\* is adopted, the other makes and locks the next one, and the first works by path in it
\* too (Open, Lock).
RemoteSerialized ==
    \A p \in Named, q \in Procs :
        p # q /\ HoldsLock(p) /\ HoldsLock(q) /\ Dir(p) = Dir(q) => Dir(p) = 0

\* Who is not disturbed: the sessions of the remote, and a session that names the URL
\* when no other one does.
Orderly == {p \in Procs : p \in Anonymous => Anonymous = {p}}

\* When git or the user has been answered by such a session, no power loss can take
\* back the pins and the applied record in its directory, or what an earlier, killed
\* session left unsynced under them.  The directory itself may go: nothing syncs what
\* holds it (writeStateFile, SavePins).
AnsweredIsDurable ==
    \A p \in Orderly :
        sess[p].pc = "done" =>
            LET dir == dirs[sess[p].lock]
            IN  /\ dir.may["generation"] = {{sess[p].cur}}
                /\ dir.may["repoid"] = {{1}}
                /\ \A v \in dir.may["applied"] : sess[p].cur \in v

\* Such a session that reports an error leaves both pins as they were or has saved
\* both, wherever the disk filled up (SavePins).  It says nothing of a session whose
\* directory was adopted while it ran: the run adopted shows that one leaving half.
FailedSaveKeepsPair ==
    \A p \in Orderly :
        sess[p].pc = "failed" /\ Dir(p) = sess[p].lock =>
            PinsFound(p) \in
                {sess[p].before, [generation |-> {sess[p].cur}, repoid |-> {1}]}

\* state.go:406, the TAMPER ALARM's own explanation: "an interrupted state save
\* or a manual deletion".  In a run without trouble nothing is interrupted, so
\* outside a session's two renames no pins are half saved.
HalfSavedMeansInterrupted ==
    \A d \in 1..Len(dirs) :
        HalfSaved(dirs[d].now) =>
            \E p \in Procs : sess[p].pc = "work" /\ sess[p].lock = d

=============================================================================
