------------------------------- MODULE Keys -------------------------------
(***************************************************************************)
(* The master keys of one repository that several machines share.  A       *)
(* machine keeps keys in files, its configuration names one of them, and   *)
(* every session encrypts and decrypts with that one.  keygen, key import  *)
(* and key delete change the files; rekey encrypts the remote under        *)
(* another key and then the configuration of its own machine follows.      *)
(*                                                                         *)
(* The host is honest and reduced to the key of its manifest and the keys  *)
(* of its packs.  A machine runs one command at a time.  Key files are     *)
(* synced, the directories that list them never are: a power loss may undo *)
(* that a file was created or removed.                                     *)
(***************************************************************************)
EXTENDS Naturals

CONSTANTS
    Machines,    \* the machines that share the repository
    KeyIds,      \* the keys that are ever generated
    KeyPaths,    \* the key references of a machine
    DefaultRef,  \* the reference a new configuration names
    Absent,      \* a key file that does not exist
    Partial,     \* a key file that does not hold all of a key
    NoKey,       \* the key of an empty remote
    MaxVersions, \* bound: the versions the host stores
    MaxSetups,   \* bound: how many commands store a key or configure one
    MaxMishaps,  \* bound: how often something goes wrong
    Mishaps      \* subset of {"delete", "kill", "power", "full", "lost"}: a key is
                 \* deleted, a command dies, a machine loses power, the disk is
                 \* full, an answer is lost

ASSUME KeysAssumption ==
    /\ Absent \notin KeyIds /\ Partial \notin KeyIds /\ NoKey \notin KeyIds
    /\ Absent # Partial
    /\ DefaultRef \in KeyPaths
    /\ MaxVersions \in Nat /\ MaxSetups \in Nat /\ MaxMishaps \in Nat

VARIABLES
    keyFile, \* keyFile[m][p]: what a reader of p finds on m
    keyOld,  \* keyOld[m][p]: what a power loss may bring back in its place,
             \* since no directory was synced
    keySynced, \* keySynced[m][p]: the data of the file are on disk
    keyRef,  \* keyRef[m]: cloak.keyRef
    host,    \* the remote, see EmptyHost
    cmd,     \* cmd[m]: the command that runs on m, see NoCommand
    saved,   \* history: <<m, p, k>> when m's user was told that k is stored in
             \* p, until p is deleted or created again
    setups,  \* bound: how many commands stored or configured a key
    mishaps  \* bound: how often something went wrong

keyVars == <<keyFile, keyOld, keySynced, keyRef, host, cmd, saved, setups, mishaps>>

Contents == KeyIds \cup {Absent, Partial}

\* ver: how many versions were stored; key: the manifest's; packs: the packs'.
EmptyHost == [ver |-> 0, key |-> NoKey, packs |-> {}]

\* key: the key to store, or the session's; path: where to store it, or rekey's
\* new reference; new: rekey's new key; base: the version loaded.
NoCommand == [pc |-> "idle", op |-> "none", key |-> NoKey, path |-> DefaultRef,
              new |-> NoKey, base |-> 0]

Mishap(kind) == kind \in Mishaps /\ mishaps < MaxMishaps /\ mishaps' = mishaps + 1

SetsUp == setups < MaxSetups /\ setups' = setups + 1

Start(m, c) == cmd[m].pc = "idle" /\ cmd' = [cmd EXCEPT ![m] = c]
Finish(m) == cmd' = [cmd EXCEPT ![m] = NoCommand]
At(m, s) == cmd[m].pc = s
Step(m, s) == cmd' = [cmd EXCEPT ![m].pc = s]

\* Mutant of Loads: the checksum of the key file is not verified.
LoadsAny(m, p) == keyFile[m][p] # Absent

\* Load: a file that does not parse is no key.
Loads(m, p) == keyFile[m][p] \in KeyIds

-----------------------------------------------------------------------------
(* Storing keys *)

InUse == UNION {{keyFile[m][p]} \cup keyOld[m][p] : m \in Machines, p \in KeyPaths}
            \cup {cmd[m].key : m \in Machines} \cup {host.key}

\* keygen: a fresh key, unless one can be loaded from the path.
Keygen(m) ==
    /\ SetsUp
    /\ \E p \in KeyPaths, k \in KeyIds \ InUse :
          /\ ~Loads(m, p)
          /\ Start(m, [NoCommand EXCEPT !.pc = "create", !.op = "keygen",
                                        !.key = k, !.path = p])
    /\ UNCHANGED <<keyFile, keyOld, keySynced, keyRef, host, saved, mishaps>>

\* key export on one machine, key import on another.
KeyImport(m) ==
    /\ SetsUp
    /\ \E p, q \in KeyPaths, n \in Machines :
          /\ Loads(n, q)
          /\ Start(m, [NoCommand EXCEPT !.pc = "create", !.op = "import",
                                        !.key = keyFile[n][q], !.path = p])
    /\ UNCHANGED <<keyFile, keyOld, keySynced, keyRef, host, saved, mishaps>>

\* What a power loss may leave of the file at p.
Left(m, p) == {keyFile[m][p]} \cup keyOld[m][p]
                \cup IF keySynced[m][p] THEN {} ELSE {Partial}

\* The entry of p becomes one for x, in a directory that is not synced.
Replace(m, p, x, synced) ==
    /\ keyFile' = [keyFile EXCEPT ![m][p] = x]
    /\ keyOld' = [keyOld EXCEPT ![m][p] = Left(m, p)]
    /\ keySynced' = [keySynced EXCEPT ![m][p] = synced]

\* The promises that are not about the file at p of m.
SavedElsewhere(m, p) == {s \in saved : s[1] # m \/ s[2] # p}

\* saveFile refuses any file that is there, readable or not.
CreateKeyFile(m) ==
    /\ At(m, "create")
    /\ IF keyFile[m][cmd[m].path] = Absent
       THEN /\ Replace(m, cmd[m].path, Partial, FALSE)
            /\ saved' = SavedElsewhere(m, cmd[m].path)
            /\ Step(m, "write")
       ELSE Finish(m) /\ UNCHANGED <<keyFile, keyOld, keySynced, saved>>
    /\ UNCHANGED <<keyRef, host, setups, mishaps>>

WriteKeyFile(m) ==
    /\ At(m, "write")
    /\ keyFile' = [keyFile EXCEPT ![m][cmd[m].path] = cmd[m].key]
    /\ Step(m, "sync")
    /\ UNCHANGED <<keyOld, keySynced, keyRef, host, saved, setups, mishaps>>

\* A failed write leaves what it wrote.
KeyWriteFails(m) ==
    /\ Mishap("full")
    /\ At(m, "write")
    /\ Finish(m)
    /\ UNCHANGED <<keyFile, keyOld, keySynced, keyRef, host, saved, setups>>

\* Mutant of SyncKeyFile: success is reported without the sync.
SkipKeySync(m) ==
    /\ At(m, "sync")
    /\ saved' = saved \cup {<<m, cmd[m].path, cmd[m].key>>}
    /\ Finish(m)
    /\ UNCHANGED <<keyFile, keyOld, keySynced, keyRef, host, setups, mishaps>>

\* The sync of the file, not of its directory, after which the user is told.
SyncKeyFile(m) ==
    /\ At(m, "sync")
    /\ keySynced' = [keySynced EXCEPT ![m][cmd[m].path] = TRUE]
    /\ saved' = saved \cup {<<m, cmd[m].path, cmd[m].key>>}
    /\ Finish(m)
    /\ UNCHANGED <<keyFile, keyOld, keyRef, host, setups, mishaps>>

\* key delete, confirmed; nothing makes the removal durable.
KeyDelete(m) ==
    /\ Mishap("delete")
    /\ cmd[m].pc = "idle"
    /\ \E p \in KeyPaths :
          /\ keyFile[m][p] # Absent
          /\ Replace(m, p, Absent, TRUE)
          /\ saved' = SavedElsewhere(m, p)
    /\ UNCHANGED <<keyRef, host, cmd, setups>>

\* git config cloak.keyRef
SetKeyRef(m) ==
    /\ SetsUp
    /\ cmd[m].pc = "idle"
    /\ \E p \in KeyPaths : keyRef' = [keyRef EXCEPT ![m] = p]
    /\ UNCHANGED <<keyFile, keyOld, keySynced, host, cmd, saved, mishaps>>

-----------------------------------------------------------------------------
(* Sessions *)

\* The manifest, if there is one, decrypts under k.
Opens(k) == host.ver = 0 \/ host.key = k

\* A push, fetch or repack opens a session; under a wrong key it ends with the
\* TAMPER ALARM.
OpenPush(m) ==
    /\ Loads(m, keyRef[m]) /\ Opens(keyFile[m][keyRef[m]])
    /\ Start(m, [NoCommand EXCEPT !.pc = "offer", !.op = "push", !.base = host.ver,
                                  !.key = keyFile[m][keyRef[m]]])
    /\ UNCHANGED <<keyFile, keyOld, keySynced, keyRef, host, saved, setups, mishaps>>

\* rekey loads the new key, opens a session, and refuses an empty remote and the
\* key the remote has.
OpenRekey(m) ==
    /\ host.ver # 0
    /\ Loads(m, keyRef[m]) /\ Opens(keyFile[m][keyRef[m]])
    /\ \E p \in KeyPaths :
          /\ Loads(m, p) /\ keyFile[m][p] # keyFile[m][keyRef[m]]
          /\ Start(m, [pc |-> "offer", op |-> "rekey", base |-> host.ver, path |-> p,
                       key |-> keyFile[m][keyRef[m]], new |-> keyFile[m][p]])
    /\ UNCHANGED <<keyFile, keyOld, keySynced, keyRef, host, saved, setups, mishaps>>

\* Mutant of Current: the lease is not checked.
AlwaysCurrent(m) == TRUE

\* The host still has the version the session loaded.
Current(m) == cmd[m].base = host.ver

\* Mutant of NewHost: a rekey keeps the packs there are.
NewHostBeside(m, merge) ==
    [ver |-> host.ver + 1,
     key |-> IF cmd[m].op = "rekey" THEN cmd[m].new ELSE cmd[m].key,
     packs |-> host.packs \cup {IF cmd[m].op = "rekey" THEN cmd[m].new ELSE cmd[m].key}]

\* What the session of m stores: a push adds a pack or merges all there are, a
\* rekey makes a single pack under the new key.
NewHost(m, merge) ==
    IF cmd[m].op = "rekey"
    THEN [ver |-> host.ver + 1, key |-> cmd[m].new, packs |-> {cmd[m].new}]
    ELSE [ver |-> host.ver + 1, key |-> cmd[m].key,
          packs |-> {cmd[m].key} \cup IF merge THEN {} ELSE host.packs]

\* The host takes the offer and says so, or the answer is lost or read as a lost
\* race.
HostTakesOffer(m) ==
    /\ At(m, "offer") /\ Current(m) /\ host.ver < MaxVersions
    /\ \E merge \in BOOLEAN : host' = NewHost(m, merge)
    /\ \/ /\ IF cmd[m].op = "rekey" THEN Step(m, "config") ELSE Finish(m)
          /\ UNCHANGED mishaps
       \/ Mishap("lost") /\ Finish(m)
       \/ Mishap("lost") /\ Step(m, "reload")
    /\ UNCHANGED <<keyFile, keyOld, keySynced, keyRef, saved, setups>>

LoseOffer(m) ==
    /\ At(m, "offer") /\ ~Current(m)
    /\ Step(m, "reload")
    /\ UNCHANGED <<keyFile, keyOld, keySynced, keyRef, host, saved, setups, mishaps>>

\* After a lost race the session loads again, with the key it was opened with.
ReloadState(m) ==
    /\ At(m, "reload")
    /\ IF Opens(cmd[m].key)
       THEN cmd' = [cmd EXCEPT ![m].pc = "offer", ![m].base = host.ver]
       ELSE Finish(m)
    /\ UNCHANGED <<keyFile, keyOld, keySynced, keyRef, host, saved, setups, mishaps>>

\* runRekey writes the configuration last; it may fail to.
UpdateKeyRef(m) ==
    /\ At(m, "config")
    /\ \/ keyRef' = [keyRef EXCEPT ![m] = cmd[m].path] /\ UNCHANGED mishaps
       \/ Mishap("full") /\ UNCHANGED keyRef
    /\ Finish(m)
    /\ UNCHANGED <<keyFile, keyOld, keySynced, host, saved, setups>>

-----------------------------------------------------------------------------
(* Mishaps *)

\* A command dies; files stay as they are.
KillCommand(m) ==
    /\ Mishap("kill")
    /\ cmd[m].pc # "idle"
    /\ Finish(m)
    /\ UNCHANGED <<keyFile, keyOld, keySynced, keyRef, host, saved, setups>>

\* Each file is as it is, as it was, or torn.
LosePower(m) ==
    /\ Mishap("power")
    /\ \E left \in [KeyPaths -> Contents] :
          /\ \A p \in KeyPaths : left[p] \in Left(m, p)
          /\ keyFile' = [keyFile EXCEPT ![m] = left]
    /\ keyOld' = [keyOld EXCEPT ![m] = [p \in KeyPaths |-> {}]]
    /\ keySynced' = [keySynced EXCEPT ![m] = [p \in KeyPaths |-> TRUE]]
    /\ Finish(m)
    /\ UNCHANGED <<keyRef, host, saved, setups>>

-----------------------------------------------------------------------------

KeysInit ==
    /\ keyFile = [m \in Machines |-> [p \in KeyPaths |-> Absent]]
    /\ keyOld = [m \in Machines |-> [p \in KeyPaths |-> {}]]
    /\ keySynced = [m \in Machines |-> [p \in KeyPaths |-> TRUE]]
    /\ keyRef = [m \in Machines |-> DefaultRef]
    /\ host = EmptyHost
    /\ cmd = [m \in Machines |-> NoCommand]
    /\ saved = {}
    /\ setups = 0 /\ mishaps = 0

KeysNext ==
    \E m \in Machines :
        \/ Keygen(m) \/ KeyImport(m) \/ KeyDelete(m) \/ SetKeyRef(m)
        \/ CreateKeyFile(m) \/ WriteKeyFile(m) \/ KeyWriteFails(m) \/ SyncKeyFile(m)
        \/ OpenPush(m) \/ OpenRekey(m)
        \/ HostTakesOffer(m) \/ LoseOffer(m) \/ ReloadState(m) \/ UpdateKeyRef(m)
        \/ KillCommand(m) \/ LosePower(m)

KeysSpec == KeysInit /\ [][KeysNext]_keyVars

-----------------------------------------------------------------------------
(* Properties *)

KeysTypeOK ==
    /\ keyFile \in [Machines -> [KeyPaths -> Contents]]
    /\ keyOld \in [Machines -> [KeyPaths -> SUBSET Contents]]
    /\ keySynced \in [Machines -> [KeyPaths -> BOOLEAN]]
    /\ keyRef \in [Machines -> KeyPaths]
    /\ host \in [ver : Nat, key : KeyIds \cup {NoKey}, packs : SUBSET KeyIds]
    /\ cmd \in [Machines ->
          [pc : {"idle", "create", "write", "sync", "offer", "reload", "config"},
           op : {"none", "keygen", "import", "push", "rekey"},
           key : KeyIds \cup {NoKey}, path : KeyPaths,
           new : KeyIds \cup {NoKey}, base : Nat]]
    /\ saved \subseteq Machines \X KeyPaths \X KeyIds
    /\ setups \in Nat /\ mishaps \in Nat

\* keystore.go:294: the key file is "the single most critical artifact".  A key the
\* user is told is stored is whole in its file then, and no command that comes after, on whatever path, kill or full disk,
\* overwrites, tears or removes it unless the user deletes it; a power loss, which may
\* tear what was not synced, either leaves it or takes the creation of its file back
\* as a whole, since saveFile syncs the file and not its directory (saveFile, Delete).
StoredKeyWhole ==
    [][\A s \in saved' :
          \/ keyFile'[s[1]][s[2]] = s[3]
          \/ s \in saved /\ keyFile[s[1]][s[2]] # s[3]
          \/ LosePower(s[1]) /\ keyFile'[s[1]][s[2]] \in keyOld[s[1]][s[2]]]_keyVars

\* howto.md:89: after a rekey "the old key no longer decrypts anything".  Whatever
\* pushes and rekeys race, the manifest and every pack it lists are under one key,
\* so whoever can read the manifest can read the packs (FullRepack, repackOnce,
\* loadPopulatedState).
UniformKey == host.packs \subseteq {host.key}

\* The key of a remote changes only by a rekey that was opened under the key it
\* replaces: no push brings an old key back, and no rekey undoes another one it has
\* not seen (PushLease, retryRepackAfterCASLost).
KeyChangesOnlyByRekey ==
    [][host'.key # host.key =>
          \/ host.key = NoKey
          \/ \E m \in Machines : /\ cmd[m].op = "rekey"
                                 /\ cmd[m].key = host.key /\ cmd[m].new = host'.key]_keyVars

=============================================================================
