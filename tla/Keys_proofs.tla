----------------------------- MODULE Keys_proofs -----------------------------
(***************************************************************************)
(* Theorems about Keys, for all sets of machines, keys and paths, every    *)
(* bound and every choice of Mishaps.                                      *)
(***************************************************************************)
EXTENDS Keys, TLAPS

-----------------------------------------------------------------------------
(* Type correctness *)

Commands ==
    [pc : {"idle", "create", "write", "sync", "offer", "reload", "config"},
     op : {"none", "keygen", "import", "push", "rekey"},
     key : KeyIds \cup {NoKey}, path : KeyPaths,
     new : KeyIds \cup {NoKey}, base : Nat]

\* What a command in progress works with: a key, and for rekey a new one.
CommandKeys ==
    \A m \in Machines :
        /\ cmd[m].pc # "idle" => cmd[m].key \in KeyIds
        /\ cmd[m].op = "rekey" => cmd[m].new \in KeyIds

TypeInv == KeysTypeOK /\ CommandKeys

\* Having no command is among the commands.
LEMMA NoCommandType == NoCommand \in Commands
  BY KeysAssumption DEF NoCommand, Commands

\* At first no machine runs a command.
LEMMA TypeInit == KeysInit => TypeInv
  BY KeysAssumption
  DEF KeysInit, TypeInv, KeysTypeOK, CommandKeys, EmptyHost, NoCommand, Contents

\* A command that starts or takes a step is a command again.
LEMMA FinishType ==
    ASSUME TypeInv, NEW m \in Machines, Finish(m)
    PROVE  cmd' \in [Machines -> Commands] /\ CommandKeys'
  BY NoCommandType DEF TypeInv, KeysTypeOK, CommandKeys, Finish, NoCommand, Commands

\* A command that takes a step keeps its keys.
LEMMA StepType ==
    ASSUME TypeInv, NEW m \in Machines, cmd[m].pc # "idle",
           NEW s \in {"write", "sync", "offer", "reload", "config"}, Step(m, s)
    PROVE  cmd' \in [Machines -> Commands] /\ CommandKeys'
  <1>1. cmd \in [Machines -> Commands]
    BY DEF TypeInv, KeysTypeOK, Commands
  <1>2. [cmd[m] EXCEPT !.pc = s] \in Commands
    BY <1>1 DEF Commands
  <1>3. cmd' = [cmd EXCEPT ![m] = [cmd[m] EXCEPT !.pc = s]]
    BY <1>1 DEF Step
  <1>4. cmd' \in [Machines -> Commands]
    BY <1>1, <1>2, <1>3
  <1>5. ASSUME NEW n \in Machines
        PROVE  /\ cmd'[n].pc # "idle" => cmd'[n].key \in KeyIds
               /\ cmd'[n].op = "rekey" => cmd'[n].new \in KeyIds
    BY <1>1, <1>2, <1>3 DEF Commands, TypeInv, CommandKeys
  <1>6. QED BY <1>4, <1>5 DEF CommandKeys

\* A session that has loaded again is a command.
LEMMA OfferType ==
    ASSUME NEW c \in Commands, NEW v \in Nat
    PROVE  [c EXCEPT !.pc = "offer", !.base = v] \in Commands
  BY DEF Commands

\* A command that starts with keys of its kind is one.
LEMMA StartType ==
    ASSUME TypeInv, NEW m \in Machines, NEW c \in Commands, Start(m, c),
           c.key \in KeyIds, c.op = "rekey" => c.new \in KeyIds
    PROVE  cmd' \in [Machines -> Commands] /\ CommandKeys'
  BY DEF TypeInv, KeysTypeOK, CommandKeys, Start, Commands

\* What a reader finds, what may come back and what is promised.
FilesOK ==
    /\ keyFile \in [Machines -> [KeyPaths -> Contents]]
    /\ keyOld \in [Machines -> [KeyPaths -> SUBSET Contents]]
    /\ keySynced \in [Machines -> [KeyPaths -> BOOLEAN]]
    /\ saved \subseteq Machines \X KeyPaths \X KeyIds

\* A reader finds a key, a part of one or nothing.
LEMMA FileType ==
    ASSUME KeysTypeOK, NEW m \in Machines, NEW p \in KeyPaths, NEW x \in Contents
    PROVE  [keyFile EXCEPT ![m][p] = x] \in [Machines -> [KeyPaths -> Contents]]
  BY DEF KeysTypeOK

\* A power loss leaves what a file can hold.
LEMMA LeftType ==
    ASSUME KeysTypeOK, NEW m \in Machines, NEW p \in KeyPaths
    PROVE  Left(m, p) \subseteq Contents
  <1>1. keyFile[m][p] \in Contents /\ keyOld[m][p] \subseteq Contents
    BY DEF KeysTypeOK
  <1>2. QED BY <1>1 DEF Left, Contents

\* A replaced file is a file, and forgets the promises about the one before it.
LEMMA ReplaceType ==
    ASSUME KeysTypeOK, NEW m \in Machines, NEW p \in KeyPaths, NEW x \in Contents,
           NEW synced \in BOOLEAN, Replace(m, p, x, synced),
           saved' = SavedElsewhere(m, p)
    PROVE  FilesOK'
  <1>1. keyFile' \in [Machines -> [KeyPaths -> Contents]]
    BY FileType DEF Replace
  <1>2. keyOld' \in [Machines -> [KeyPaths -> SUBSET Contents]]
    BY LeftType DEF Replace, KeysTypeOK
  <1>3. keySynced' \in [Machines -> [KeyPaths -> BOOLEAN]]
    BY DEF Replace, KeysTypeOK
  <1>4. saved' \subseteq Machines \X KeyPaths \X KeyIds
    BY DEF SavedElsewhere, KeysTypeOK
  <1>5. QED BY <1>1, <1>2, <1>3, <1>4 DEF FilesOK

\* What a session stores is a host.
LEMMA NewHostType ==
    ASSUME TypeInv, NEW m \in Machines, cmd[m].pc # "idle", NEW merge \in BOOLEAN
    PROVE  NewHost(m, merge) \in
              [ver : Nat, key : KeyIds \cup {NoKey}, packs : SUBSET KeyIds]
  BY DEF TypeInv, KeysTypeOK, CommandKeys, NewHost

\* Every step keeps the types and the keys of commands.
LEMMA TypeStep == TypeInv /\ [KeysNext]_keyVars => TypeInv'
  <1> SUFFICES ASSUME TypeInv, [KeysNext]_keyVars PROVE TypeInv'
    OBVIOUS
  <1> USE DEF Mishap, SetsUp
  <1>0. /\ KeysTypeOK /\ CommandKeys
        /\ cmd \in [Machines -> Commands]
    BY DEF TypeInv, KeysTypeOK, Commands
  <1>1. CASE UNCHANGED keyVars
    BY <1>1 DEF TypeInv, KeysTypeOK, CommandKeys, keyVars
  <1>2. ASSUME NEW m \in Machines, Keygen(m) PROVE TypeInv'
    <2>1. PICK p \in KeyPaths, k \in KeyIds \ InUse :
              Start(m, [NoCommand EXCEPT !.pc = "create", !.op = "keygen",
                                         !.key = k, !.path = p])
      BY <1>2 DEF Keygen
    <2>2. cmd' \in [Machines -> Commands] /\ CommandKeys'
      BY <2>1, StartType DEF NoCommand, Commands
    <2>3. QED BY <1>0, <1>2, <2>2 DEF TypeInv, KeysTypeOK, Commands, Keygen
  <1>3. ASSUME NEW m \in Machines, KeyImport(m) PROVE TypeInv'
    <2>1. PICK p, q \in KeyPaths, n \in Machines :
              /\ keyFile[n][q] \in KeyIds
              /\ Start(m, [NoCommand EXCEPT !.pc = "create", !.op = "import",
                                            !.key = keyFile[n][q], !.path = p])
      BY <1>3 DEF KeyImport, Loads
    <2>2. cmd' \in [Machines -> Commands] /\ CommandKeys'
      BY <2>1, StartType DEF NoCommand, Commands
    <2>3. QED BY <1>0, <1>3, <2>2 DEF TypeInv, KeysTypeOK, Commands, KeyImport
  <1>4. ASSUME NEW m \in Machines, KeyDelete(m) PROVE TypeInv'
    <2>1. PICK p \in KeyPaths : Replace(m, p, Absent, TRUE) /\ saved' = SavedElsewhere(m, p)
      BY <1>4 DEF KeyDelete
    <2>2. FilesOK'
      BY <1>0, <2>1, ReplaceType DEF Contents
    <2>3. QED BY <1>0, <1>4, <2>2 DEF TypeInv, KeysTypeOK, CommandKeys, KeyDelete, FilesOK
  <1>5. ASSUME NEW m \in Machines, SetKeyRef(m) PROVE TypeInv'
    BY <1>0, <1>5 DEF TypeInv, KeysTypeOK, CommandKeys, SetKeyRef
  <1>6. ASSUME NEW m \in Machines, CreateKeyFile(m) PROVE TypeInv'
    <2>1. cmd' \in [Machines -> Commands] /\ CommandKeys'
      BY <1>0, <1>6, StepType, FinishType DEF CreateKeyFile, At
    <2>2. cmd[m].path \in KeyPaths /\ Partial \in Contents
      BY <1>0 DEF Commands, Contents
    <2>3. FilesOK'
      <3>1. CASE keyFile[m][cmd[m].path] = Absent
        <4>1. /\ Replace(m, cmd[m].path, Partial, FALSE)
              /\ saved' = SavedElsewhere(m, cmd[m].path)
          BY <1>6, <3>1 DEF CreateKeyFile
        <4>2. QED BY <1>0, <2>2, <4>1, ReplaceType
      <3>2. CASE keyFile[m][cmd[m].path] # Absent
        BY <1>0, <1>6, <3>2 DEF CreateKeyFile, FilesOK, KeysTypeOK
      <3>3. QED BY <3>1, <3>2
    <2>4. QED BY <1>0, <1>6, <2>1, <2>3 DEF TypeInv, KeysTypeOK, Commands, CreateKeyFile, FilesOK
  <1>7. ASSUME NEW m \in Machines, WriteKeyFile(m) PROVE TypeInv'
    <2>1. cmd' \in [Machines -> Commands] /\ CommandKeys'
      BY <1>0, <1>7, StepType DEF WriteKeyFile, At
    <2>2. cmd[m].path \in KeyPaths /\ cmd[m].key \in KeyIds
      BY <1>0, <1>7 DEF WriteKeyFile, At, Commands, CommandKeys
    <2>3. keyFile' \in [Machines -> [KeyPaths -> Contents]]
      BY <1>0, <1>7, <2>2, FileType DEF WriteKeyFile, Contents
    <2>4. QED BY <1>0, <1>7, <2>1, <2>3 DEF TypeInv, KeysTypeOK, Commands, WriteKeyFile
  <1>8. ASSUME NEW m \in Machines, KeyWriteFails(m) PROVE TypeInv'
    <2>1. cmd' \in [Machines -> Commands] /\ CommandKeys'
      BY <1>8, FinishType DEF KeyWriteFails
    <2>2. QED BY <1>0, <1>8, <2>1 DEF TypeInv, KeysTypeOK, Commands, KeyWriteFails
  <1>9. ASSUME NEW m \in Machines, SyncKeyFile(m) PROVE TypeInv'
    <2>1. cmd' \in [Machines -> Commands] /\ CommandKeys'
      BY <1>9, FinishType DEF SyncKeyFile
    <2>2. cmd[m].path \in KeyPaths /\ cmd[m].key \in KeyIds
      BY <1>0, <1>9 DEF SyncKeyFile, At, Commands, CommandKeys
    <2>3. keySynced' \in [Machines -> [KeyPaths -> BOOLEAN]]
      BY <1>0, <1>9, <2>2 DEF SyncKeyFile, KeysTypeOK
    <2>4. saved' \subseteq Machines \X KeyPaths \X KeyIds
      BY <1>0, <1>9, <2>2 DEF SyncKeyFile, KeysTypeOK
    <2>5. QED
      BY <1>0, <1>9, <2>1, <2>3, <2>4 DEF TypeInv, KeysTypeOK, Commands, SyncKeyFile
  <1>10. ASSUME NEW m \in Machines, OpenPush(m) PROVE TypeInv'
    <2> DEFINE c == [NoCommand EXCEPT !.pc = "offer", !.op = "push", !.base = host.ver,
                                      !.key = keyFile[m][keyRef[m]]]
    <2>1. c \in Commands /\ c.key \in KeyIds /\ c.op # "rekey" /\ Start(m, c)
      BY <1>0, <1>10, NoCommandType DEF OpenPush, Loads, Commands, NoCommand, KeysTypeOK
    <2>2. cmd' \in [Machines -> Commands] /\ CommandKeys'
      BY <2>1, StartType
    <2>3. QED BY <1>0, <1>10, <2>2 DEF TypeInv, KeysTypeOK, Commands, OpenPush
  <1>11. ASSUME NEW m \in Machines, OpenRekey(m) PROVE TypeInv'
    <2>1. PICK p \in KeyPaths :
              /\ keyFile[m][p] \in KeyIds /\ keyFile[m][keyRef[m]] \in KeyIds
              /\ Start(m, [pc |-> "offer", op |-> "rekey", base |-> host.ver, path |-> p,
                           key |-> keyFile[m][keyRef[m]], new |-> keyFile[m][p]])
      BY <1>11 DEF OpenRekey, Loads
    <2>2. cmd' \in [Machines -> Commands] /\ CommandKeys'
      BY <1>0, <2>1, StartType DEF Commands, KeysTypeOK
    <2>3. QED BY <1>0, <1>11, <2>2 DEF TypeInv, KeysTypeOK, Commands, OpenRekey
  <1>12. ASSUME NEW m \in Machines, HostTakesOffer(m) PROVE TypeInv'
    <2>1. cmd' \in [Machines -> Commands] /\ CommandKeys'
      BY <1>12, StepType, FinishType DEF HostTakesOffer, At
    <2>2. PICK merge \in BOOLEAN : host' = NewHost(m, merge)
      BY <1>12 DEF HostTakesOffer
    <2>3. host' \in [ver : Nat, key : KeyIds \cup {NoKey}, packs : SUBSET KeyIds]
      BY <1>12, <2>2, NewHostType DEF HostTakesOffer, At
    <2>4. QED
      BY <1>0, <1>12, <2>1, <2>3 DEF TypeInv, KeysTypeOK, Commands, HostTakesOffer
  <1>13. ASSUME NEW m \in Machines, LoseOffer(m) PROVE TypeInv'
    <2>1. cmd' \in [Machines -> Commands] /\ CommandKeys'
      BY <1>13, StepType DEF LoseOffer, At
    <2>2. QED BY <1>0, <1>13, <2>1 DEF TypeInv, KeysTypeOK, Commands, LoseOffer
  <1>14. ASSUME NEW m \in Machines, ReloadState(m) PROVE TypeInv'
    <2>1. CASE Finish(m)
      BY <1>0, <1>14, <2>1, FinishType DEF TypeInv, KeysTypeOK, Commands, ReloadState
    <2>2. CASE cmd' = [cmd EXCEPT ![m].pc = "offer", ![m].base = host.ver]
      <3>1. [cmd[m] EXCEPT !.pc = "offer", !.base = host.ver] \in Commands
        <4>1. cmd[m] \in Commands /\ host.ver \in Nat
          BY <1>0 DEF KeysTypeOK
        <4>2. QED BY <4>1, OfferType
      <3>2. cmd' = [cmd EXCEPT ![m] = [cmd[m] EXCEPT !.pc = "offer", !.base = host.ver]]
        BY <1>0, <2>2 DEF Commands
      <3>3. cmd' \in [Machines -> Commands]
        BY <1>0, <3>1, <3>2
      <3>4. ASSUME NEW n \in Machines
            PROVE  /\ cmd'[n].pc # "idle" => cmd'[n].key \in KeyIds
                   /\ cmd'[n].op = "rekey" => cmd'[n].new \in KeyIds
        BY <1>0, <1>14, <3>2 DEF Commands, CommandKeys, ReloadState, At
      <3>5. QED
        BY <1>0, <1>14, <3>3, <3>4 DEF TypeInv, KeysTypeOK, CommandKeys, Commands, ReloadState
    <2>3. QED BY <1>14, <2>1, <2>2 DEF ReloadState
  <1>15. ASSUME NEW m \in Machines, UpdateKeyRef(m) PROVE TypeInv'
    <2>1. cmd' \in [Machines -> Commands] /\ CommandKeys'
      BY <1>15, FinishType DEF UpdateKeyRef
    <2>2. keyRef' \in [Machines -> KeyPaths]
      BY <1>0, <1>15 DEF UpdateKeyRef, KeysTypeOK, Commands
    <2>3. mishaps' \in Nat
      BY <1>0, <1>15 DEF UpdateKeyRef, KeysTypeOK
    <2>4. QED
      BY <1>0, <1>15, <2>1, <2>2, <2>3 DEF TypeInv, KeysTypeOK, Commands, UpdateKeyRef
  <1>16. ASSUME NEW m \in Machines, KillCommand(m) PROVE TypeInv'
    <2>1. cmd' \in [Machines -> Commands] /\ CommandKeys'
      BY <1>16, FinishType DEF KillCommand
    <2>2. QED BY <1>0, <1>16, <2>1 DEF TypeInv, KeysTypeOK, Commands, KillCommand
  <1>17. ASSUME NEW m \in Machines, LosePower(m) PROVE TypeInv'
    <2>1. cmd' \in [Machines -> Commands] /\ CommandKeys'
      BY <1>17, FinishType DEF LosePower
    <2>2. PICK left \in [KeyPaths -> Contents] : keyFile' = [keyFile EXCEPT ![m] = left]
      BY <1>17 DEF LosePower
    <2>3. keyFile' \in [Machines -> [KeyPaths -> Contents]]
      BY <1>0, <2>2 DEF KeysTypeOK
    <2>4. keyOld' \in [Machines -> [KeyPaths -> SUBSET Contents]]
      <3>1. [p \in KeyPaths |-> {}] \in [KeyPaths -> SUBSET Contents]
        OBVIOUS
      <3>2. QED BY <1>0, <1>17, <3>1 DEF KeysTypeOK, LosePower
    <2>5. keySynced' \in [Machines -> [KeyPaths -> BOOLEAN]]
      <3>1. [p \in KeyPaths |-> TRUE] \in [KeyPaths -> BOOLEAN]
        OBVIOUS
      <3>2. QED BY <1>0, <1>17, <3>1 DEF KeysTypeOK, LosePower
    <2>6. QED
      BY <1>0, <1>17, <2>1, <2>3, <2>4, <2>5 DEF TypeInv, KeysTypeOK, Commands, LosePower
  <1>18. QED
    BY <1>1, <1>2, <1>3, <1>4, <1>5, <1>6, <1>7, <1>8, <1>9, <1>10, <1>11, <1>12, <1>13,
       <1>14, <1>15, <1>16, <1>17 DEF KeysNext

\* Files hold keys, commands carry them, and what is recorded about them is about
\* machines and keys there are.
THEOREM KeysTypeCorrect == KeysSpec => []KeysTypeOK
  <1>1. TypeInv => KeysTypeOK
    BY DEF TypeInv
  <1>2. QED BY <1>1, TypeInit, TypeStep, PTL DEF KeysSpec

-----------------------------------------------------------------------------
(* What is stored stays whole *)

\* A key file being written is no key yet, one being synced is the command's, and
\* nobody was told anything of either.
StoringKey ==
    \A m \in Machines :
        /\ cmd[m].pc = "sync" => keyFile[m][cmd[m].path] = cmd[m].key
        /\ cmd[m].pc \in {"write", "sync"} => saved \subseteq SavedElsewhere(m, cmd[m].path)

\* A stored key that is in its file is on disk.
StoredSynced == \A s \in saved : keyFile[s[1]][s[2]] = s[3] => keySynced[s[1]][s[2]]

StoreInv == StoringKey /\ StoredSynced

\* What a step without a power loss does to the promises: each is kept, or was broken
\* before.
KeptWhole ==
    \A s \in saved' :
        \/ keyFile'[s[1]][s[2]] = s[3]
        \/ s \in saved /\ keyFile[s[1]][s[2]] # s[3]

\* A step that leaves key files and the promises about them alone, and starts no
\* write or sync.
LEMMA NoStoring ==
    ASSUME StoreInv, NEW m \in Machines,
           UNCHANGED <<keyFile, keyOld, keySynced, saved>>,
           cmd'[m].pc \notin {"write", "sync"},
           \A n \in Machines \ {m} : cmd'[n] = cmd[n]
    PROVE  StoreInv' /\ KeptWhole
  <1>1. StoringKey'
    BY DEF StoreInv, StoringKey, SavedElsewhere
  <1>2. StoredSynced' /\ KeptWhole
    BY DEF StoreInv, StoredSynced, KeptWhole
  <1>3. QED BY <1>1, <1>2 DEF StoreInv

\* Finishing and stepping change the command of one machine.
LEMMA OneCommand ==
    ASSUME TypeInv, NEW m \in Machines
    PROVE  /\ Finish(m) => /\ cmd'[m] = NoCommand
                           /\ \A n \in Machines \ {m} : cmd'[n] = cmd[n]
           /\ \A s : Step(m, s) => /\ cmd'[m] = [cmd[m] EXCEPT !.pc = s]
                                   /\ \A n \in Machines \ {m} : cmd'[n] = cmd[n]
  BY DEF TypeInv, KeysTypeOK, Finish, Step

\* A step of m that replaces a file leaves the other files and promises alone.
LEMMA ReplaceKeeps ==
    ASSUME TypeInv, StoreInv, NEW m \in Machines, NEW p \in KeyPaths, NEW x,
           NEW synced, Replace(m, p, x, synced), saved' = SavedElsewhere(m, p)
    PROVE  /\ StoredSynced' /\ KeptWhole
           /\ \A n \in Machines \ {m} : keyFile'[n] = keyFile[n]
           /\ saved' \subseteq saved
  <1>1. /\ keyFile' = [keyFile EXCEPT ![m][p] = x]
        /\ keySynced' = [keySynced EXCEPT ![m][p] = synced]
        /\ keyFile \in [Machines -> [KeyPaths -> Contents]]
        /\ keySynced \in [Machines -> [KeyPaths -> BOOLEAN]]
    BY DEF Replace, TypeInv, KeysTypeOK
  <1>2. saved' \subseteq saved
    BY DEF SavedElsewhere
  <1>3. ASSUME NEW s \in saved'
        PROVE  /\ s[1] \in Machines /\ s[2] \in KeyPaths
               /\ keyFile'[s[1]][s[2]] = keyFile[s[1]][s[2]]
               /\ keySynced'[s[1]][s[2]] = keySynced[s[1]][s[2]]
    <2>1. s[1] \in Machines /\ s[2] \in KeyPaths /\ (s[1] # m \/ s[2] # p)
      BY <1>3 DEF SavedElsewhere, TypeInv, KeysTypeOK
    <2>2. QED BY <1>1, <2>1
  <1>4. StoredSynced' /\ KeptWhole
    BY <1>2, <1>3 DEF StoreInv, StoredSynced, KeptWhole
  <1>5. \A n \in Machines \ {m} : keyFile'[n] = keyFile[n]
    BY <1>1
  <1>6. QED BY <1>2, <1>4, <1>5

\* At first no key was reported stored.
LEMMA StoreInit == KeysInit => StoreInv
  BY DEF KeysInit, StoreInv, StoringKey, StoredSynced, NoCommand

\* A step that is no power loss keeps stored keys whole.
LEMMA StoreStep ==
    ASSUME TypeInv, StoreInv, [KeysNext]_keyVars
    PROVE  StoreInv' /\ (KeptWhole \/ \E m \in Machines : LosePower(m))
  <1> USE DEF Mishap, SetsUp
  <1>0. /\ cmd \in [Machines -> Commands]
        /\ keyFile \in [Machines -> [KeyPaths -> Contents]]
        /\ keySynced \in [Machines -> [KeyPaths -> BOOLEAN]]
        /\ \A s \in saved : s[1] \in Machines /\ s[2] \in KeyPaths /\ s[3] \in KeyIds
    BY DEF TypeInv, KeysTypeOK, Commands
  <1>1. CASE UNCHANGED keyVars
    <2>1. StoringKey'
      BY <1>1 DEF StoreInv, StoringKey, SavedElsewhere, keyVars
    <2>2. StoredSynced' /\ KeptWhole
      BY <1>1 DEF StoreInv, StoredSynced, KeptWhole, keyVars
    <2>3. QED BY <2>1, <2>2 DEF StoreInv
  <1>2. ASSUME NEW m \in Machines, Keygen(m) PROVE StoreInv' /\ KeptWhole
    <2>1. cmd'[m].pc = "create" /\ \A n \in Machines \ {m} : cmd'[n] = cmd[n]
      BY <1>0, <1>2 DEF Keygen, Start, NoCommand
    <2>2. QED BY <1>2, <2>1, NoStoring DEF Keygen
  <1>3. ASSUME NEW m \in Machines, KeyImport(m) PROVE StoreInv' /\ KeptWhole
    <2>1. cmd'[m].pc = "create" /\ \A n \in Machines \ {m} : cmd'[n] = cmd[n]
      BY <1>0, <1>3 DEF KeyImport, Start, NoCommand
    <2>2. QED BY <1>3, <2>1, NoStoring DEF KeyImport
  <1>4. ASSUME NEW m \in Machines, KeyDelete(m) PROVE StoreInv' /\ KeptWhole
    <2>1. PICK p \in KeyPaths : Replace(m, p, Absent, TRUE) /\ saved' = SavedElsewhere(m, p)
      BY <1>4 DEF KeyDelete
    <2>2. /\ StoredSynced' /\ KeptWhole
          /\ \A n \in Machines \ {m} : keyFile'[n] = keyFile[n]
          /\ saved' \subseteq saved
      BY <2>1, ReplaceKeeps
    <2>3. cmd' = cmd /\ cmd[m].pc = "idle"
      BY <1>4 DEF KeyDelete
    <2>4. StoringKey'
      BY <2>2, <2>3 DEF StoreInv, StoringKey, SavedElsewhere
    <2>5. QED BY <2>2, <2>4 DEF StoreInv
  <1>5. ASSUME NEW m \in Machines, SetKeyRef(m) PROVE StoreInv' /\ KeptWhole
    BY <1>5, NoStoring DEF SetKeyRef
  <1>6. ASSUME NEW m \in Machines, CreateKeyFile(m) PROVE StoreInv' /\ KeptWhole
    <2> DEFINE path == cmd[m].path
    <2>1. CASE keyFile[m][path] # Absent
      <3>1. cmd'[m].pc = "idle" /\ \A n \in Machines \ {m} : cmd'[n] = cmd[n]
        BY <1>6, <2>1, OneCommand DEF CreateKeyFile, NoCommand
      <3>2. QED BY <1>6, <2>1, <3>1, NoStoring DEF CreateKeyFile
    <2>2. CASE keyFile[m][path] = Absent
      <3>1. /\ path \in KeyPaths
            /\ Replace(m, path, Partial, FALSE)
            /\ saved' = SavedElsewhere(m, path)
            /\ Step(m, "write")
        BY <1>0, <1>6, <2>2 DEF CreateKeyFile, Commands
      <3>2. /\ cmd'[m] = [cmd[m] EXCEPT !.pc = "write"]
            /\ \A n \in Machines \ {m} : cmd'[n] = cmd[n]
        BY <3>1, OneCommand
      <3>3. cmd'[m].pc = "write" /\ cmd'[m].path = path
        BY <1>0, <3>2 DEF Commands
      <3>4. /\ StoredSynced' /\ KeptWhole
            /\ \A n \in Machines \ {m} : keyFile'[n] = keyFile[n]
            /\ saved' \subseteq saved
        BY <3>1, ReplaceKeeps
      <3>5. StoringKey'
        <4>1. saved' \subseteq SavedElsewhere(m, path)'
          BY <3>1, <3>3 DEF SavedElsewhere
        <4>2. \A n \in Machines \ {m} :
                  /\ cmd'[n] = cmd[n] /\ keyFile'[n] = keyFile[n]
                  /\ saved \subseteq SavedElsewhere(n, cmd[n].path) =>
                        saved' \subseteq SavedElsewhere(n, cmd[n].path)'
          BY <3>2, <3>4 DEF SavedElsewhere
        <4>3. QED BY <3>2, <3>3, <4>1, <4>2 DEF StoreInv, StoringKey
      <3>6. QED BY <3>4, <3>5 DEF StoreInv
    <2>3. QED BY <2>1, <2>2
  <1>7. ASSUME NEW m \in Machines, WriteKeyFile(m) PROVE StoreInv' /\ KeptWhole
    <2> DEFINE path == cmd[m].path
    <2>1. /\ path \in KeyPaths
          /\ keyFile' = [keyFile EXCEPT ![m][path] = cmd[m].key]
          /\ saved \subseteq SavedElsewhere(m, path)
          /\ UNCHANGED <<keySynced, saved>>
          /\ Step(m, "sync")
      BY <1>0, <1>7 DEF WriteKeyFile, Commands, StoreInv, StoringKey, At
    <2>2. /\ cmd'[m] = [cmd[m] EXCEPT !.pc = "sync"]
          /\ \A n \in Machines \ {m} : cmd'[n] = cmd[n]
      BY <2>1, OneCommand
    <2>3. cmd'[m].pc = "sync" /\ cmd'[m].path = path /\ cmd'[m].key = cmd[m].key
      BY <1>0, <2>2 DEF Commands
    <2>4. StoringKey'
      <3>1. keyFile'[m][path] = cmd[m].key
        BY <1>0, <2>1
      <3>2. \A n \in Machines \ {m} : cmd'[n] = cmd[n] /\ keyFile'[n] = keyFile[n]
        BY <1>0, <2>1, <2>2
      <3>3. QED BY <2>1, <2>3, <3>1, <3>2 DEF StoreInv, StoringKey, SavedElsewhere
    <2>5. ASSUME NEW s \in saved PROVE keyFile'[s[1]][s[2]] = keyFile[s[1]][s[2]]
      <3>1. s[1] # m \/ s[2] # path
        BY <2>1 DEF SavedElsewhere
      <3>2. QED BY <1>0, <2>1, <3>1
    <2>6. StoredSynced' /\ KeptWhole
      BY <2>1, <2>5 DEF StoreInv, StoredSynced, KeptWhole
    <2>7. QED BY <2>4, <2>6 DEF StoreInv
  <1>8. ASSUME NEW m \in Machines, KeyWriteFails(m) PROVE StoreInv' /\ KeptWhole
    <2>1. cmd'[m].pc = "idle" /\ \A n \in Machines \ {m} : cmd'[n] = cmd[n]
      BY <1>8, OneCommand DEF KeyWriteFails, NoCommand
    <2>2. QED BY <1>8, <2>1, NoStoring DEF KeyWriteFails
  <1>9. ASSUME NEW m \in Machines, SyncKeyFile(m) PROVE StoreInv' /\ KeptWhole
    <2> DEFINE path == cmd[m].path
    <2>1. /\ path \in KeyPaths
          /\ keyFile[m][path] = cmd[m].key
          /\ keySynced' = [keySynced EXCEPT ![m][path] = TRUE]
          /\ keyFile' = keyFile
          /\ saved' = saved \cup {<<m, path, cmd[m].key>>}
          /\ Finish(m)
      BY <1>0, <1>9 DEF SyncKeyFile, Commands, StoreInv, StoringKey, At
    <2>2. cmd'[m].pc = "idle" /\ \A n \in Machines \ {m} : cmd'[n] = cmd[n]
      BY <2>1, OneCommand DEF NoCommand
    <2>3. StoringKey'
      BY <2>1, <2>2 DEF StoreInv, StoringKey, SavedElsewhere
    <2>4. ASSUME NEW s \in saved' PROVE keyFile'[s[1]][s[2]] = s[3] => keySynced'[s[1]][s[2]]
      <3>1. CASE s \in saved
        BY <1>0, <2>1, <3>1 DEF StoreInv, StoredSynced
      <3>2. CASE s = <<m, path, cmd[m].key>>
        BY <1>0, <2>1, <3>2
      <3>3. QED BY <2>1, <2>4, <3>1, <3>2
    <2>5. KeptWhole
      BY <2>1 DEF KeptWhole
    <2>6. QED BY <2>3, <2>4, <2>5 DEF StoreInv, StoredSynced
  <1>10. ASSUME NEW m \in Machines, OpenPush(m) PROVE StoreInv' /\ KeptWhole
    <2>1. cmd'[m].pc = "offer" /\ \A n \in Machines \ {m} : cmd'[n] = cmd[n]
      BY <1>0, <1>10 DEF OpenPush, Start, NoCommand
    <2>2. QED BY <1>10, <2>1, NoStoring DEF OpenPush
  <1>11. ASSUME NEW m \in Machines, OpenRekey(m) PROVE StoreInv' /\ KeptWhole
    <2>1. cmd'[m].pc = "offer" /\ \A n \in Machines \ {m} : cmd'[n] = cmd[n]
      BY <1>0, <1>11 DEF OpenRekey, Start
    <2>2. QED BY <1>11, <2>1, NoStoring DEF OpenRekey
  <1>12. ASSUME NEW m \in Machines, HostTakesOffer(m) PROVE StoreInv' /\ KeptWhole
    <2>1. /\ cmd'[m].pc \notin {"write", "sync"}
          /\ \A n \in Machines \ {m} : cmd'[n] = cmd[n]
      BY <1>0, <1>12 DEF HostTakesOffer, Step, Finish, NoCommand, Commands
    <2>2. QED BY <1>12, <2>1, NoStoring DEF HostTakesOffer
  <1>13. ASSUME NEW m \in Machines, LoseOffer(m) PROVE StoreInv' /\ KeptWhole
    <2>1. cmd'[m].pc = "reload" /\ \A n \in Machines \ {m} : cmd'[n] = cmd[n]
      BY <1>0, <1>13 DEF LoseOffer, Step, Commands
    <2>2. QED BY <1>13, <2>1, NoStoring DEF LoseOffer
  <1>14. ASSUME NEW m \in Machines, ReloadState(m) PROVE StoreInv' /\ KeptWhole
    <2>1. /\ cmd'[m].pc \notin {"write", "sync"}
          /\ \A n \in Machines \ {m} : cmd'[n] = cmd[n]
      BY <1>0, <1>14 DEF ReloadState, Finish, NoCommand, Commands
    <2>2. QED BY <1>14, <2>1, NoStoring DEF ReloadState
  <1>15. ASSUME NEW m \in Machines, UpdateKeyRef(m) PROVE StoreInv' /\ KeptWhole
    <2>1. cmd'[m].pc = "idle" /\ \A n \in Machines \ {m} : cmd'[n] = cmd[n]
      BY <1>15, OneCommand DEF UpdateKeyRef, NoCommand
    <2>2. QED BY <1>15, <2>1, NoStoring DEF UpdateKeyRef
  <1>16. ASSUME NEW m \in Machines, KillCommand(m) PROVE StoreInv' /\ KeptWhole
    <2>1. cmd'[m].pc = "idle" /\ \A n \in Machines \ {m} : cmd'[n] = cmd[n]
      BY <1>16, OneCommand DEF KillCommand, NoCommand
    <2>2. QED BY <1>16, <2>1, NoStoring DEF KillCommand
  <1>17. ASSUME NEW m \in Machines, LosePower(m) PROVE StoreInv'
    <2>1. /\ \A n \in Machines \ {m} : keyFile'[n] = keyFile[n] /\ keySynced'[n] = keySynced[n]
          /\ keySynced'[m] = [p \in KeyPaths |-> TRUE]
          /\ saved' = saved
          /\ Finish(m)
      BY <1>0, <1>17 DEF LosePower
    <2>2. cmd'[m].pc = "idle" /\ \A n \in Machines \ {m} : cmd'[n] = cmd[n]
      BY <2>1, OneCommand DEF NoCommand
    <2>3. StoringKey'
      BY <2>1, <2>2 DEF StoreInv, StoringKey, SavedElsewhere
    <2>4. StoredSynced'
      BY <1>0, <2>1 DEF StoreInv, StoredSynced
    <2>5. QED BY <2>3, <2>4 DEF StoreInv
  <1>18. QED
    BY <1>1, <1>2, <1>3, <1>4, <1>5, <1>6, <1>7, <1>8, <1>9, <1>10, <1>11, <1>12, <1>13,
       <1>14, <1>15, <1>16, <1>17 DEF KeysNext

\* A power loss leaves the other machines alone, and of a stored key that is on disk
\* the file or what was there before it.
LEMMA PowerLeaves ==
    ASSUME TypeInv, StoreInv, NEW m \in Machines, LosePower(m), NEW s \in saved',
           keyFile[s[1]][s[2]] = s[3]
    PROVE  \/ keyFile'[s[1]][s[2]] = s[3]
           \/ LosePower(s[1]) /\ keyFile'[s[1]][s[2]] \in keyOld[s[1]][s[2]]
  <1>1. PICK left \in [KeyPaths -> Contents] :
            /\ \A p \in KeyPaths : left[p] \in Left(m, p)
            /\ keyFile' = [keyFile EXCEPT ![m] = left]
    BY DEF LosePower
  <1>2. /\ keyFile \in [Machines -> [KeyPaths -> Contents]]
        /\ s \in saved /\ s[1] \in Machines /\ s[2] \in KeyPaths
        /\ keySynced[s[1]][s[2]]
    BY DEF LosePower, TypeInv, KeysTypeOK, StoreInv, StoredSynced
  <1>3. CASE s[1] # m
    BY <1>1, <1>2, <1>3
  <1>4. CASE s[1] = m
    <2>1. keyFile'[m][s[2]] \in Left(m, s[2])
      BY <1>1, <1>2
    <2>2. Left(m, s[2]) = {s[3]} \cup keyOld[m][s[2]]
      BY <1>2, <1>4 DEF Left
    <2>3. QED BY <1>4, <2>1, <2>2
  <1>5. QED BY <1>3, <1>4

\* A key the user was told is stored is whole in its file, and stays so until the user
\* deletes it: kills, full disks and other commands included.  A power loss leaves it
\* too, or takes the whole file back.  A key file is only created where none is, and
\* nobody is told before its data are durable.
THEOREM StoredKeysStayWhole == KeysSpec => StoredKeyWhole
  <1>1. TypeInv /\ StoreInv /\ [KeysNext]_keyVars => StoreInv'
    BY StoreStep
  <1>2. ASSUME TypeInv, StoreInv, [KeysNext]_keyVars, NEW s \in saved'
        PROVE  \/ keyFile'[s[1]][s[2]] = s[3]
               \/ s \in saved /\ keyFile[s[1]][s[2]] # s[3]
               \/ LosePower(s[1]) /\ keyFile'[s[1]][s[2]] \in keyOld[s[1]][s[2]]
    <2>1. CASE KeptWhole
      BY <1>2, <2>1 DEF KeptWhole
    <2>2. ASSUME NEW m \in Machines, LosePower(m)
          PROVE  \/ keyFile'[s[1]][s[2]] = s[3]
                 \/ s \in saved /\ keyFile[s[1]][s[2]] # s[3]
                 \/ LosePower(s[1]) /\ keyFile'[s[1]][s[2]] \in keyOld[s[1]][s[2]]
      <3>1. s \in saved
        BY <1>2, <2>2 DEF LosePower
      <3>2. QED BY <1>2, <2>2, <3>1, PowerLeaves
    <2>3. QED BY <1>2, <2>1, <2>2, StoreStep
  <1>3. TypeInv /\ StoreInv /\ [KeysNext]_keyVars =>
            \A s \in saved' :
                \/ keyFile'[s[1]][s[2]] = s[3]
                \/ s \in saved /\ keyFile[s[1]][s[2]] # s[3]
                \/ LosePower(s[1]) /\ keyFile'[s[1]][s[2]] \in keyOld[s[1]][s[2]]
    BY <1>2
  <1>4. QED
    BY <1>1, <1>3, TypeInit, TypeStep, StoreInit, PTL DEF KeysSpec, StoredKeyWhole

-----------------------------------------------------------------------------
(* One key for the remote *)

\* A session that offers what it built on the current version works under its key:
\* the lease carries the key along with the version.
LeasedKey ==
    \A m \in Machines :
        cmd[m].pc = "offer" =>
            /\ cmd[m].base <= host.ver
            /\ cmd[m].base = host.ver /\ host.ver # 0 => cmd[m].key = host.key

HostInv ==
    /\ host.ver = 0 => host.key = NoKey /\ host.packs = {}
    /\ UniformKey
    /\ LeasedKey

\* At first the host has nothing under any key.
LEMMA HostInit == KeysInit => HostInv
  BY DEF KeysInit, HostInv, UniformKey, LeasedKey, EmptyHost, NoCommand

\* What a session under the host's key, or on an empty host, stores is uniform.
LEMMA NewHostUniform ==
    ASSUME TypeInv, HostInv, NEW m \in Machines, NEW merge \in BOOLEAN,
           At(m, "offer"), Current(m)
    PROVE  /\ NewHost(m, merge).ver = host.ver + 1
           /\ NewHost(m, merge).packs \subseteq {NewHost(m, merge).key}
           /\ host.ver # 0 =>
                \/ NewHost(m, merge).key = host.key
                \/ cmd[m].op = "rekey" /\ cmd[m].key = host.key
                    /\ cmd[m].new = NewHost(m, merge).key
  <1>1. host.ver # 0 => cmd[m].key = host.key
    BY DEF HostInv, LeasedKey, Current, At
  <1>2. host.packs \subseteq {cmd[m].key}
    BY <1>1 DEF HostInv, UniformKey
  <1>3. CASE cmd[m].op = "rekey"
    BY <1>1, <1>3 DEF NewHost
  <1>4. CASE cmd[m].op # "rekey"
    BY <1>1, <1>2, <1>4 DEF NewHost
  <1>5. QED BY <1>3, <1>4

\* A step that leaves the host alone, and starts no offer but on the host's version
\* and under its key.
LEMMA NoOffer ==
    ASSUME TypeInv, HostInv, NEW m \in Machines, host' = host,
           \A n \in Machines \ {m} : cmd'[n] = cmd[n],
           cmd'[m].pc = "offer" =>
              cmd'[m].base = host.ver /\ (host.ver # 0 => cmd'[m].key = host.key)
    PROVE  HostInv'
  <1>1. host.ver \in Nat
    BY DEF TypeInv, KeysTypeOK
  <1>2. LeasedKey'
    BY <1>1 DEF HostInv, LeasedKey
  <1>3. QED BY <1>2 DEF HostInv, UniformKey

\* Every step keeps the host under one key, and the leases on that key.
LEMMA HostStep == TypeInv /\ HostInv /\ [KeysNext]_keyVars => HostInv'
  <1> SUFFICES ASSUME TypeInv, HostInv, [KeysNext]_keyVars PROVE HostInv'
    OBVIOUS
  <1>0. /\ cmd \in [Machines -> Commands]
        /\ host.ver \in Nat
    BY DEF TypeInv, KeysTypeOK, Commands
  <1>1. CASE UNCHANGED keyVars
    BY <1>1 DEF HostInv, UniformKey, LeasedKey, keyVars
  <1>2. ASSUME NEW m \in Machines, Keygen(m) PROVE HostInv'
    <2>1. cmd'[m].pc = "create" /\ \A n \in Machines \ {m} : cmd'[n] = cmd[n]
      BY <1>0, <1>2 DEF Keygen, Start, NoCommand
    <2>2. QED BY <1>2, <2>1, NoOffer DEF Keygen
  <1>3. ASSUME NEW m \in Machines, KeyImport(m) PROVE HostInv'
    <2>1. cmd'[m].pc = "create" /\ \A n \in Machines \ {m} : cmd'[n] = cmd[n]
      BY <1>0, <1>3 DEF KeyImport, Start, NoCommand
    <2>2. QED BY <1>3, <2>1, NoOffer DEF KeyImport
  <1>4. ASSUME NEW m \in Machines, KeyDelete(m) PROVE HostInv'
    BY <1>4, NoOffer DEF KeyDelete
  <1>5. ASSUME NEW m \in Machines, SetKeyRef(m) PROVE HostInv'
    BY <1>5, NoOffer DEF SetKeyRef
  <1>6. ASSUME NEW m \in Machines, CreateKeyFile(m) PROVE HostInv'
    <2>1. Step(m, "write") \/ Finish(m)
      BY <1>6 DEF CreateKeyFile
    <2>2. cmd'[m].pc # "offer" /\ \A n \in Machines \ {m} : cmd'[n] = cmd[n]
      BY <1>0, <2>1 DEF Step, Finish, NoCommand, Commands
    <2>3. QED BY <1>6, <2>2, NoOffer DEF CreateKeyFile
  <1>7. ASSUME NEW m \in Machines, WriteKeyFile(m) PROVE HostInv'
    <2>1. cmd'[m].pc # "offer" /\ \A n \in Machines \ {m} : cmd'[n] = cmd[n]
      BY <1>0, <1>7 DEF WriteKeyFile, Step, Commands
    <2>2. QED BY <1>7, <2>1, NoOffer DEF WriteKeyFile
  <1>8. ASSUME NEW m \in Machines, Finish(m), UNCHANGED host PROVE HostInv'
    <2>1. cmd'[m].pc # "offer" /\ \A n \in Machines \ {m} : cmd'[n] = cmd[n]
      BY <1>0, <1>8 DEF Finish, NoCommand
    <2>2. QED BY <1>8, <2>1, NoOffer
  <1>9. ASSUME NEW m \in Machines,
               \/ KeyWriteFails(m) \/ SyncKeyFile(m) \/ UpdateKeyRef(m)
               \/ KillCommand(m) \/ LosePower(m)
        PROVE  HostInv'
    BY <1>8, <1>9 DEF KeyWriteFails, SyncKeyFile, UpdateKeyRef, KillCommand, LosePower
  <1>10. ASSUME NEW m \in Machines, OpenPush(m) PROVE HostInv'
    <2>1. /\ \A n \in Machines \ {m} : cmd'[n] = cmd[n]
          /\ cmd'[m].base = host.ver /\ Opens(cmd'[m].key)
      BY <1>0, <1>10 DEF OpenPush, Start, NoCommand
    <2>2. QED BY <1>10, <2>1, NoOffer DEF OpenPush, Opens
  <1>11. ASSUME NEW m \in Machines, OpenRekey(m) PROVE HostInv'
    <2>1. /\ \A n \in Machines \ {m} : cmd'[n] = cmd[n]
          /\ cmd'[m].base = host.ver /\ Opens(cmd'[m].key)
      BY <1>0, <1>11 DEF OpenRekey, Start
    <2>2. QED BY <1>11, <2>1, NoOffer DEF OpenRekey, Opens
  <1>12. ASSUME NEW m \in Machines, HostTakesOffer(m) PROVE HostInv'
    <2>1. PICK merge \in BOOLEAN : host' = NewHost(m, merge)
      BY <1>12 DEF HostTakesOffer
    <2>2. host'.ver = host.ver + 1 /\ UniformKey'
      BY <1>12, <2>1, NewHostUniform DEF HostTakesOffer, UniformKey
    <2>3. cmd'[m].pc # "offer" /\ \A n \in Machines \ {m} : cmd'[n] = cmd[n]
      BY <1>0, <1>12 DEF HostTakesOffer, Step, Finish, NoCommand, Commands
    <2>4. \A n \in Machines : cmd'[n].pc = "offer" =>
              cmd'[n].base < host'.ver
      BY <1>0, <2>2, <2>3 DEF HostInv, LeasedKey, Commands
    <2>5. LeasedKey'
      BY <1>0, <2>2, <2>3, <2>4 DEF LeasedKey, Commands
    <2>6. QED BY <1>0, <2>2, <2>5 DEF HostInv
  <1>13. ASSUME NEW m \in Machines, LoseOffer(m) PROVE HostInv'
    <2>1. cmd'[m].pc # "offer" /\ \A n \in Machines \ {m} : cmd'[n] = cmd[n]
      BY <1>0, <1>13 DEF LoseOffer, Step, Commands
    <2>2. QED BY <1>13, <2>1, NoOffer DEF LoseOffer
  <1>14. ASSUME NEW m \in Machines, ReloadState(m) PROVE HostInv'
    <2>1. CASE ~Opens(cmd[m].key)
      BY <1>8, <1>14, <2>1 DEF ReloadState
    <2>2. CASE Opens(cmd[m].key)
      <3>1. /\ \A n \in Machines \ {m} : cmd'[n] = cmd[n]
            /\ cmd'[m].base = host.ver /\ cmd'[m].key = cmd[m].key
        BY <1>0, <1>14, <2>2 DEF ReloadState, Commands
      <3>2. QED BY <1>14, <2>2, <3>1, NoOffer DEF ReloadState, Opens
    <2>3. QED BY <2>1, <2>2
  <1>15. QED
    BY <1>1, <1>2, <1>3, <1>4, <1>5, <1>6, <1>7, <1>9, <1>10, <1>11, <1>12, <1>13, <1>14
    DEF KeysNext

\* Whatever pushes and rekeys race, the manifest and its packs are under one key.
THEOREM RemoteUnderOneKey == KeysSpec => []UniformKey
  <1>1. HostInv => UniformKey
    BY DEF HostInv
  <1>2. QED BY <1>1, TypeInit, TypeStep, HostInit, HostStep, PTL DEF KeysSpec

\* A step that changes the host's key is its first push or a rekey under it.
LEMMA KeyChange ==
    ASSUME TypeInv, HostInv, [KeysNext]_keyVars, host'.key # host.key
    PROVE  \/ host.key = NoKey
           \/ \E m \in Machines : /\ cmd[m].op = "rekey"
                                  /\ cmd[m].key = host.key /\ cmd[m].new = host'.key
  <1>1. PICK m \in Machines : HostTakesOffer(m)
    BY DEF KeysNext, keyVars, Keygen, KeyImport, KeyDelete, SetKeyRef, CreateKeyFile,
           WriteKeyFile, KeyWriteFails, SyncKeyFile, OpenPush, OpenRekey, LoseOffer,
           ReloadState, UpdateKeyRef, KillCommand, LosePower
  <1>2. PICK merge \in BOOLEAN : host' = NewHost(m, merge)
    BY <1>1 DEF HostTakesOffer
  <1>3. CASE host.ver = 0
    BY <1>3 DEF HostInv
  <1>4. CASE host.ver # 0
    BY <1>1, <1>2, <1>4, NewHostUniform DEF HostTakesOffer
  <1>5. QED BY <1>3, <1>4

\* The key of the remote changes only by a rekey opened under the key it replaces.
THEOREM OnlyRekeyChangesKey == KeysSpec => KeyChangesOnlyByRekey
  <1>1. TypeInv /\ HostInv /\ [KeysNext]_keyVars =>
            [host'.key # host.key =>
                \/ host.key = NoKey
                \/ \E m \in Machines :
                      /\ cmd[m].op = "rekey"
                      /\ cmd[m].key = host.key /\ cmd[m].new = host'.key]_keyVars
    BY KeyChange
  <1>2. QED
    BY <1>1, TypeInit, TypeStep, HostInit, HostStep, PTL DEF KeysSpec, KeyChangesOnlyByRekey

=============================================================================
