-------------------------- MODULE StateDirs_proofs --------------------------
(***************************************************************************)
(* Theorems about the state directories, for any number of sessions of the *)
(* remote and of sessions that name its URL, for any number of generations *)
(* and for every trouble: the types, that a session of the remote has its  *)
(* directory to itself, and of every orderly session that an answered save *)
(* is durable and that a failed one leaves a pair of pins.                 *)
(*                                                                         *)
(* Sessions that name the URL are held to their types only when there is   *)
(* more than one: they may work in one directory, but never in one that a  *)
(* session of the remote has locked.                                       *)
(***************************************************************************)
EXTENDS StateDirs, SequenceTheorems, TLAPS

Gens == 1..MaxGen
Pcs == {"idle", "stat", "adopt", "mkdir", "open", "wait", "work"} \cup Holding
Kinds == {"read", "stage", "rename", "sync"}
Steps == Kinds \X Files
PinFiles == {"generation", "repoid"}

DirTypes == [now : [Files -> Contents], may : [Files -> SUBSET Contents],
             tmp : [Files -> Contents], scratch : BOOLEAN]

SessTypes == [pc : Pcs, op : {"none", "fetch", "push"}, lock : Nat, cur : 0..MaxGen,
              todo : Seq(Steps), read : Contents, before : [PinFiles -> Contents]]

PathTypes == [Paths -> 0..Len(dirs)]

\* The file steps of a session from first to last, and the one it is at.
Plan(op) == IF op = "push" THEN SavePins \o MarkApplied ELSE MarkApplied \o SavePins
Step(p) == 10 - Len(sess[p].todo)

\* A session at work has the rest of a plan left.
Planned(p) ==
    /\ sess[p].op \in {"fetch", "push"} /\ sess[p].cur \in Gens
    /\ Step(p) \in 1..9 /\ sess[p].todo = SubSeq(Plan(sess[p].op), Step(p), 9)

\* The types TypeOK leaves out.
Typed ==
    /\ gen \in 0..MaxGen
    /\ entry \in PathTypes /\ was \subseteq PathTypes
    /\ dirs \in Seq(DirTypes)
    /\ \A d \in 1..Len(dirs) : \A f \in Files : dirs[d].now[f] \in dirs[d].may[f]
    /\ sess \in [Procs -> SessTypes]
    /\ \A p \in Procs : sess[p].lock <= Len(dirs) /\ (sess[p].pc = "work" => Planned(p))
    /\ trouble \in Nat

-----------------------------------------------------------------------------
(* The inductive invariant *)

\* A session that has opened its lock file.
Locked(p) == HoldsLock(p) \/ sess[p].pc = "wait"

\* The directory p has locked is adopted by the named remote.  A directory that
\* has appeared at the path of p since then has no tmp/.
Moved(p) ==
    /\ p \in Anonymous /\ entry["named"] = sess[p].lock
    /\ Dir(p) # 0 => ~dirs[Dir(p)].scratch

\* The two paths never lead to one directory.
Apart(e) == e["named"] # 0 => e["named"] # e["hashed"]

\* Where the locks are: an orderly session works in the directory it has locked,
\* unless that is adopted; no two have one lock; files are staged in tmp/ only.
Placed ==
    /\ \A e \in was \cup {entry} : Apart(e)
    /\ \A p \in Procs : Locked(p) => sess[p].lock # 0
    /\ \A p \in Orderly : Locked(p) => Dir(p) = sess[p].lock \/ Moved(p)
    /\ \A p, q \in Procs :
          p # q /\ HoldsLock(p) /\ HoldsLock(q) => sess[p].lock # sess[q].lock
    /\ \A d \in 1..Len(dirs) : ~dirs[d].scratch => dirs[d].tmp = Blank

Pins(dir) == [f \in {"generation", "repoid"} |-> dir.now[f]]

\* How far SavePins is when j - 1 of its steps are done, and what it began with.
PinsReached(dir, s, j) ==
    /\ j <= 3 => Pins(dir) = s.before
    /\ j \in {2, 3} => dir.tmp["generation"] = {s.cur}
    /\ j \in {3, 4} => dir.tmp["repoid"] = {1}
    /\ j >= 4 => dir.now["generation"] = {s.cur}
    /\ j >= 5 => dir.now["repoid"] = {1}

\* The same for MarkApplied.
RecordReached(dir, s, i) ==
    /\ i = 3 => s.cur \in dir.tmp["applied"]
    /\ i >= 4 => s.cur \in dir.now["applied"]

\* Where step k of a plan is in SavePins and in MarkApplied.
PinsAt(op, k) == IF op = "push" THEN k ELSE k - 4
RecordAt(op, k) == IF op = "push" THEN k - 5 ELSE k

Reached(dir, s, k) ==
    PinsReached(dir, s, PinsAt(s.op, k)) /\ RecordReached(dir, s, RecordAt(s.op, k))

\* A session whose directory is adopted gets no further than the next file.
Beginnings(op) == IF op = "push" THEN {1} ELSE {1, 2, 5}

Working(p) ==
    /\ Dir(p) \in {0, sess[p].lock} \/ Step(p) \in Beginnings(sess[p].op)
    /\ Dir(p) = sess[p].lock => Reached(dirs[Dir(p)], sess[p], Step(p))

Both(s) == [generation |-> {s.cur}, repoid |-> {1}]

Durable(dir, s) ==
    /\ dir.may["generation"] = {{s.cur}} /\ dir.may["repoid"] = {{1}}
    /\ \A v \in dir.may["applied"] : s.cur \in v

\* What a session has done to its directory.
Part(p) ==
    /\ sess[p].pc = "work" => Working(p)
    /\ sess[p].pc = "done" => Durable(dirs[sess[p].lock], sess[p])
    /\ sess[p].pc = "failed" /\ Dir(p) = sess[p].lock =>
          Pins(dirs[Dir(p)]) \in {sess[p].before, Both(sess[p])}

DirsInv == Typed /\ Placed /\ \A p \in Orderly : Part(p)

-----------------------------------------------------------------------------
(* The plans *)

\* The steps of the two plans.
LEMMA Plans ==
    /\ \A op \in {"fetch", "push"} : Plan(op) \in Seq(Steps) /\ Len(Plan(op)) = 9
    /\ Plan("push")[1] = <<"stage", "generation">> /\ Plan("push")[2] = <<"stage", "repoid">>
    /\ Plan("push")[3] = <<"rename", "generation">> /\ Plan("push")[4] = <<"rename", "repoid">>
    /\ Plan("push")[5] = <<"sync", "generation">>
    /\ Plan("push")[6] = <<"read", "applied">> /\ Plan("push")[7] = <<"stage", "applied">>
    /\ Plan("push")[8] = <<"rename", "applied">> /\ Plan("push")[9] = <<"sync", "applied">>
    /\ Plan("fetch")[1] = <<"read", "applied">> /\ Plan("fetch")[2] = <<"stage", "applied">>
    /\ Plan("fetch")[3] = <<"rename", "applied">> /\ Plan("fetch")[4] = <<"sync", "applied">>
    /\ Plan("fetch")[5] = <<"stage", "generation">> /\ Plan("fetch")[6] = <<"stage", "repoid">>
    /\ Plan("fetch")[7] = <<"rename", "generation">> /\ Plan("fetch")[8] = <<"rename", "repoid">>
    /\ Plan("fetch")[9] = <<"sync", "generation">>
  <1>1. /\ Len(SavePins) = 5 /\ SavePins \in Seq(Steps)
        /\ SavePins[1] = <<"stage", "generation">> /\ SavePins[2] = <<"stage", "repoid">>
        /\ SavePins[3] = <<"rename", "generation">> /\ SavePins[4] = <<"rename", "repoid">>
        /\ SavePins[5] = <<"sync", "generation">>
    BY DEF SavePins, Kinds, Files, Steps
  <1>2. /\ Len(MarkApplied) = 4 /\ MarkApplied \in Seq(Steps)
        /\ MarkApplied[1] = <<"read", "applied">> /\ MarkApplied[2] = <<"stage", "applied">>
        /\ MarkApplied[3] = <<"rename", "applied">> /\ MarkApplied[4] = <<"sync", "applied">>
    BY DEF MarkApplied, Kinds, Files, Steps
  <1>3. Plan("push") = SavePins \o MarkApplied /\ Plan("fetch") = MarkApplied \o SavePins
    BY DEF Plan
  <1>4. /\ Plan("push") \in Seq(Steps) /\ Len(Plan("push")) = 9
        /\ \A i \in 1..9 : Plan("push")[i] = IF i <= 5 THEN SavePins[i] ELSE MarkApplied[i - 5]
    <2>1. /\ Len(SavePins) = 5 /\ Len(MarkApplied) = 4
          /\ SavePins \in Seq(Steps) /\ MarkApplied \in Seq(Steps)
      BY <1>1, <1>2
    <2>2. /\ SavePins \o MarkApplied \in Seq(Steps)
          /\ Len(SavePins \o MarkApplied) = Len(SavePins) + Len(MarkApplied)
          /\ \A i \in 1..(Len(SavePins) + Len(MarkApplied)) :
                (SavePins \o MarkApplied)[i] = IF i <= Len(SavePins) THEN SavePins[i] ELSE MarkApplied[i - Len(SavePins)]
      BY <2>1, ConcatProperties
    <2>3. Plan("push") \in Seq(Steps) /\ Len(Plan("push")) = 9
      <3>1. Len(SavePins) + Len(MarkApplied) = 9
        BY <2>1
      <3>2. QED BY <1>3, <2>2, <3>1, Zenon
    <2>4. ASSUME NEW i \in 1..9
          PROVE  Plan("push")[i] = IF i <= 5 THEN SavePins[i] ELSE MarkApplied[i - 5]
      <3>1. i \in 1..(Len(SavePins) + Len(MarkApplied))
        BY <2>1
      <3>2. (SavePins \o MarkApplied)[i] = IF i <= Len(SavePins) THEN SavePins[i] ELSE MarkApplied[i - Len(SavePins)]
        BY <2>2, <3>1
      <3>3. QED BY <1>3, <2>1, <3>2
    <2>5. QED BY <2>3, <2>4
  <1>5. /\ Plan("fetch") \in Seq(Steps) /\ Len(Plan("fetch")) = 9
        /\ \A i \in 1..9 : Plan("fetch")[i] = IF i <= 4 THEN MarkApplied[i] ELSE SavePins[i - 4]
    <2>1. /\ Len(SavePins) = 5 /\ Len(MarkApplied) = 4
          /\ SavePins \in Seq(Steps) /\ MarkApplied \in Seq(Steps)
      BY <1>1, <1>2
    <2>2. /\ MarkApplied \o SavePins \in Seq(Steps)
          /\ Len(MarkApplied \o SavePins) = Len(MarkApplied) + Len(SavePins)
          /\ \A i \in 1..(Len(MarkApplied) + Len(SavePins)) :
                (MarkApplied \o SavePins)[i] = IF i <= Len(MarkApplied) THEN MarkApplied[i] ELSE SavePins[i - Len(MarkApplied)]
      BY <2>1, ConcatProperties
    <2>3. Plan("fetch") \in Seq(Steps) /\ Len(Plan("fetch")) = 9
      <3>1. Len(MarkApplied) + Len(SavePins) = 9
        BY <2>1
      <3>2. QED BY <1>3, <2>2, <3>1, Zenon
    <2>4. ASSUME NEW i \in 1..9
          PROVE  Plan("fetch")[i] = IF i <= 4 THEN MarkApplied[i] ELSE SavePins[i - 4]
      <3>1. i \in 1..(Len(MarkApplied) + Len(SavePins))
        BY <2>1
      <3>2. (MarkApplied \o SavePins)[i] = IF i <= Len(MarkApplied) THEN MarkApplied[i] ELSE SavePins[i - Len(MarkApplied)]
        BY <2>2, <3>1
      <3>3. QED BY <1>3, <2>1, <3>2
    <2>5. QED BY <2>3, <2>4
  <1>6. /\ Plan("push")[1] = SavePins[1] /\ Plan("push")[2] = SavePins[2]
        /\ Plan("push")[3] = SavePins[3] /\ Plan("push")[4] = SavePins[4]
        /\ Plan("push")[5] = SavePins[5] /\ Plan("push")[6] = MarkApplied[1]
        /\ Plan("push")[7] = MarkApplied[2] /\ Plan("push")[8] = MarkApplied[3]
        /\ Plan("push")[9] = MarkApplied[4]
    BY <1>4
  <1>7. /\ Plan("fetch")[1] = MarkApplied[1] /\ Plan("fetch")[2] = MarkApplied[2]
        /\ Plan("fetch")[3] = MarkApplied[3] /\ Plan("fetch")[4] = MarkApplied[4]
        /\ Plan("fetch")[5] = SavePins[1] /\ Plan("fetch")[6] = SavePins[2]
        /\ Plan("fetch")[7] = SavePins[3] /\ Plan("fetch")[8] = SavePins[4]
        /\ Plan("fetch")[9] = SavePins[5]
    BY <1>5
  <1>8. QED BY <1>1, <1>2, <1>4, <1>5, <1>6, <1>7

\* What is left of a plan of nine steps.
LEMMA Rest ==
    ASSUME NEW s \in Seq(Steps), Len(s) = 9, NEW k \in 1..9
    PROVE  /\ SubSeq(s, k, 9) \in Seq(Steps) /\ Len(SubSeq(s, k, 9)) = 10 - k
           /\ Head(SubSeq(s, k, 9)) = s[k]
           /\ Tail(SubSeq(s, k, 9)) = SubSeq(s, k + 1, 9)
           /\ SubSeq(s, 1, 9) = s
  <1>1. \A i \in k..9 : s[i] \in Steps
    BY ElementOfSeq
  <1>2. SubSeq(s, k, 9) \in Seq(Steps) /\ Len(SubSeq(s, k, 9)) = 9 - k + 1
    BY <1>1, SubSeqProperties
  <1>3. Head(SubSeq(s, k, 9)) = s[k] /\ Tail(SubSeq(s, k, 9)) = SubSeq(s, k + 1, 9)
    <2>1. k \in 1..Len(s) /\ 9 \in k..Len(s)
      OBVIOUS
    <2>2. QED BY <2>1, HeadTailOfSubSeq
  <1>4. SubSeq(s, 1, 9) = s
    BY SubSeqFull
  <1>5. QED BY <1>2, <1>3, <1>4

\* The step a session is at, and what is left after it.
LEMMA NextStep ==
    ASSUME Typed, NEW p \in Procs, sess[p].pc = "work"
    PROVE  /\ Planned(p) /\ Step(p) \in 1..9
           /\ sess[p].op \in {"fetch", "push"} /\ sess[p].cur \in Gens
           /\ Head(sess[p].todo) = Plan(sess[p].op)[Step(p)]
           /\ Head(sess[p].todo) \in Steps
           /\ Len(sess[p].todo) = 10 - Step(p)
           /\ Tail(sess[p].todo) = SubSeq(Plan(sess[p].op), Step(p) + 1, 9)
           /\ Tail(sess[p].todo) \in Seq(Steps)
           /\ Len(Tail(sess[p].todo)) = 9 - Step(p)
  <1>1. /\ Planned(p) /\ sess[p].op \in {"fetch", "push"} /\ Step(p) \in 1..9
        /\ sess[p].cur \in Gens
        /\ sess[p].todo = SubSeq(Plan(sess[p].op), Step(p), 9)
    BY DEF Typed, Planned
  <1>2. PICK s \in Seq(Steps) : s = Plan(sess[p].op) /\ Len(s) = 9
    BY <1>1, Plans
  <1>3. PICK k \in 1..9 : k = Step(p)
    BY <1>1
  <1>4. /\ SubSeq(s, k, 9) \in Seq(Steps) /\ Len(SubSeq(s, k, 9)) = 10 - k
        /\ Head(SubSeq(s, k, 9)) = s[k]
        /\ Tail(SubSeq(s, k, 9)) = SubSeq(s, k + 1, 9)
    BY <1>2, Rest
  <1>5. PICK t \in Seq(Steps) : t = SubSeq(s, k, 9)
    BY <1>4
  <1>6. /\ Tail(t) \in Seq(Steps) /\ Len(Tail(t)) = Len(t) - 1 /\ Head(t) \in Steps
    <2>1. Len(t) # 0
      BY <1>4, <1>5
    <2>2. t # <<>>
      BY <2>1
    <2>3. QED BY <2>2, HeadTailProperties
  <1>7. /\ sess[p].todo = t /\ Len(t) = 10 - k /\ Head(t) = s[k]
        /\ Tail(t) = SubSeq(s, k + 1, 9)
    BY <1>1, <1>2, <1>3, <1>4, <1>5
  <1>8. Len(Tail(t)) = 9 - k
    BY <1>6, <1>7
  <1>9. /\ Head(t) = Plan(sess[p].op)[Step(p)]
        /\ Tail(t) = SubSeq(Plan(sess[p].op), Step(p) + 1, 9)
    BY <1>2, <1>3, <1>7
  <1>10. QED BY <1>1, <1>3, <1>6, <1>7, <1>8, <1>9

-----------------------------------------------------------------------------
(* Frames *)

\* The directory an orderly session has locked is nobody else's to write in.
LEMMA Alone ==
    ASSUME Typed, Placed, NEW p \in Procs, HoldsLock(p), Dir(p) # 0,
           p \in Orderly => Dir(p) = sess[p].lock,
           NEW q \in Orderly, q # p, HoldsLock(q)
    PROVE  sess[q].lock # Dir(p)
  <1>1. q \in Procs /\ sess[q].lock # 0
    BY DEF Orderly, Placed, Locked
  <1>2. CASE p \in Orderly
    BY <1>1, <1>2 DEF Placed
  <1>3. CASE p \notin Orderly
    <2>1. p \in Anonymous /\ q \in Named /\ q \notin Anonymous /\ p \notin Named
      BY <1>1, <1>3, ProcsAssumption DEF Orderly, Procs
    <2>2. Dir(p) = entry["hashed"] /\ Dir(q) = entry["named"]
      BY <2>1 DEF Dir, Home
    <2>3. Dir(q) = sess[q].lock
      BY <2>1 DEF Placed, Locked, Moved
    <2>4. Apart(entry)
      BY DEF Placed
    <2>5. QED BY <1>1, <2>2, <2>3, <2>4 DEF Apart
  <1>4. QED BY <1>2, <1>3

\* What sessions read of a directory is as before.
SameData(d) ==
    dirs'[d].now = dirs[d].now /\ dirs'[d].may = dirs[d].may /\ dirs'[d].tmp = dirs[d].tmp

\* A session that stands still, while nobody works in the directory it has locked.
LEMMA PartFrame ==
    ASSUME NEW q \in Procs, Part(q), sess'[q] = sess[q],
           HoldsLock(q) => Dir(q)' = Dir(q) /\ SameData(sess[q].lock)
    PROVE  Part(q)'
  <1>1. CASE ~HoldsLock(q)
    BY <1>1 DEF Part, HoldsLock, Holding
  <1>2. CASE HoldsLock(q)
    <2> DEFINE d == dirs[sess[q].lock]
    <2>1. Pins(d)' = Pins(d)
      BY <1>2 DEF Pins, SameData
    <2>2. Durable(d, sess[q]) => Durable(d, sess[q])'
      BY <1>2 DEF Durable, SameData
    <2>3. Step(q)' = Step(q) /\ Both(sess[q])' = Both(sess[q])
      BY DEF Step, Both
    <2>4. Reached(d, sess[q], Step(q)) => Reached(d, sess[q], Step(q))'
      BY <1>2, <2>1, <2>3 DEF Reached, PinsReached, RecordReached, SameData
    <2>5. Working(q) => Working(q)'
      BY <1>2, <2>3, <2>4 DEF Working
    <2>6. QED BY <1>2, <2>1, <2>2, <2>3, <2>5 DEF Part
  <1>3. QED BY <1>1, <1>2

\* A step of p that moves no directory and takes no lock.
LEMMA PlacedFrame ==
    ASSUME Typed, Placed, NEW p \in Procs, UNCHANGED <<entry, was>>, Len(dirs') = Len(dirs),
           \A d \in 1..Len(dirs) : /\ dirs'[d].scratch = dirs[d].scratch
                                   /\ ~dirs[d].scratch => dirs'[d].tmp = Blank,
           \A q \in Procs \ {p} : sess'[q] = sess[q],
           Locked(p)' => Locked(p) /\ sess'[p].lock = sess[p].lock,
           HoldsLock(p)' => HoldsLock(p)
    PROVE  Placed'
  <1>1. ASSUME NEW q \in Procs, Locked(q)' PROVE Locked(q) /\ sess'[q].lock = sess[q].lock
    BY <1>1 DEF Locked, HoldsLock
  <1>2. ASSUME NEW q \in Procs, HoldsLock(q)' PROVE HoldsLock(q)
    BY <1>2 DEF HoldsLock
  <1>3. ASSUME NEW q \in Orderly, Locked(q)'
        PROVE  Dir(q)' = sess'[q].lock \/ Moved(q)'
    <2>1. q \in Procs /\ Locked(q) /\ sess'[q].lock = sess[q].lock /\ Dir(q)' = Dir(q)
      BY <1>1, <1>3 DEF Dir, Orderly
    <2>2. Dir(q) \in 0..Len(dirs)
      BY DEF Typed, Dir, Home, Paths, PathTypes
    <2>3. Moved(q) => Moved(q)'
      BY <2>1, <2>2 DEF Moved
    <2>4. QED BY <2>1, <2>3 DEF Placed
  <1>4. ASSUME NEW q \in Procs, NEW r \in Procs, q # r, HoldsLock(q)', HoldsLock(r)'
        PROVE  sess'[q].lock # sess'[r].lock
    BY <1>1, <1>2, <1>4 DEF Placed, Locked
  <1>5. \A d \in 1..Len(dirs') : ~dirs'[d].scratch => dirs'[d].tmp = Blank
    OBVIOUS
  <1>6. \A q \in Procs : Locked(q)' => sess'[q].lock # 0
    BY <1>1 DEF Placed
  <1>7. \A e \in was' \cup {entry'} : Apart(e)
    BY DEF Placed
  <1>8. QED BY <1>3, <1>4, <1>5, <1>6, <1>7 DEF Placed, Apart

\* What p has planned is all a step of p can spoil of the types of the sessions.
LEMMA TypedFrame ==
    ASSUME Typed, NEW p \in Procs, NEW s \in SessTypes, sess' = [sess EXCEPT ![p] = s],
           dirs' \in Seq(DirTypes), Len(dirs) <= Len(dirs'), s.lock <= Len(dirs'),
           \A d \in 1..Len(dirs') : \A f \in Files : dirs'[d].now[f] \in dirs'[d].may[f],
           entry' \in PathTypes', was' \subseteq PathTypes', gen' \in 0..MaxGen, trouble' \in Nat,
           s.pc = "work" => Planned(p)'
    PROVE  Typed'
  <1>1. sess \in [Procs -> SessTypes] /\ Len(dirs) \in Nat /\ Len(dirs') \in Nat
    BY DEF Typed
  <1>2. sess' \in [Procs -> SessTypes] /\ sess'[p] = s /\ \A q \in Procs \ {p} : sess'[q] = sess[q]
    BY <1>1
  <1>3. ASSUME NEW q \in Procs
        PROVE  sess'[q].lock <= Len(dirs') /\ (sess'[q].pc = "work" => Planned(q)')
    <2>1. CASE q = p
      BY <1>2, <2>1
    <2>2. CASE q # p
      <3>1. sess'[q] = sess[q] /\ sess[q].lock <= Len(dirs) /\ sess[q].lock \in Nat
        BY <1>1, <1>2, <2>2 DEF Typed, SessTypes
      <3>2. Planned(q)' <=> Planned(q)
        BY <3>1 DEF Planned, Step
      <3>3. sess[q].pc = "work" => Planned(q)
        BY DEF Typed
      <3>4. QED BY <1>1, <3>1, <3>2, <3>3
    <2>3. QED BY <2>1, <2>2
  <1>4. QED BY <1>2, <1>3 DEF Typed

\* The paths stay what they are while no directory disappears.
LEMMA PathsFrame ==
    ASSUME Typed, dirs' \in Seq(DirTypes), Len(dirs) <= Len(dirs')
    PROVE  PathTypes \subseteq PathTypes'
  <1>1. Len(dirs) \in Nat /\ Len(dirs') \in Nat
    BY DEF Typed
  <1>2. 0..Len(dirs) \subseteq 0..Len(dirs')
    BY <1>1
  <1>3. QED BY <1>2 DEF PathTypes

-----------------------------------------------------------------------------
(* Steps that change a session only *)

\* Sessions are functions of session records.
LEMMA SessType ==
    ASSUME Typed, NEW p \in Procs
    PROVE  /\ sess[p] \in SessTypes /\ sess \in [Procs -> SessTypes]
           /\ Idle \in SessTypes /\ Idle.pc = "idle" /\ Idle.lock = 0
           /\ Dir(p) \in 0..Len(dirs) /\ Len(dirs) \in Nat
           /\ Dir(p) # 0 => dirs[Dir(p)] \in DirTypes
  <1>1. <<>> \in Seq(Steps) /\ NoPins \in [PinFiles -> Contents]
    BY EmptySeq DEF NoPins, PinFiles, Contents
  <1>2. 0 \in Nat /\ 0 \in 0..MaxGen /\ {} \in Contents
    BY BoundsAssumption DEF Contents
  <1>3. Idle \in SessTypes
    BY <1>1, <1>2 DEF Idle, SessTypes, Pcs
  <1>4. Dir(p) \in 0..Len(dirs) /\ Len(dirs) \in Nat
    BY DEF Typed, Dir, Home, Paths, PathTypes
  <1>5. Dir(p) # 0 => dirs[Dir(p)] \in DirTypes
    BY <1>4 DEF Typed
  <1>6. QED BY <1>3, <1>4, <1>5 DEF Typed, Idle

\* A session goes on to x with everything else as before.
LEMMA GotoStep ==
    ASSUME Typed, NEW p \in Procs, NEW x \in Pcs, Goto(p, x)
    PROVE  \E s \in SessTypes :
              /\ sess' = [sess EXCEPT ![p] = s] /\ s.pc = x /\ s.lock = sess[p].lock
              /\ s.cur = sess[p].cur /\ s.before = sess[p].before
  <1> DEFINE s == [sess[p] EXCEPT !.pc = x]
  <1>1. sess[p] \in SessTypes /\ sess \in [Procs -> SessTypes]
    BY SessType
  <1>2. /\ s \in SessTypes /\ s.pc = x /\ s.lock = sess[p].lock
        /\ s.cur = sess[p].cur /\ s.before = sess[p].before
    BY <1>1 DEF SessTypes
  <1>3. sess' = [sess EXCEPT ![p] = s]
    BY <1>1 DEF Goto
  <1>4. QED BY <1>2, <1>3

\* A session that has not saved anything yet.
LEMMA Resting ==
    ASSUME NEW p \in Procs, sess'[p].pc \notin {"work", "done", "failed"}
    PROVE  Part(p)'
  BY DEF Part

\* A session steps and nothing else changes.
LEMMA SessionStep ==
    ASSUME DirsInv, NEW p \in Procs, NEW s \in SessTypes,
           sess' = [sess EXCEPT ![p] = s], s.lock <= Len(dirs),
           UNCHANGED <<entry, was, dirs>>, gen' \in 0..MaxGen, trouble' \in Nat,
           s.pc \in Holding \cup {"wait"} => Locked(p) /\ s.lock = sess[p].lock,
           s.pc \in Holding => HoldsLock(p),
           s.pc = "work" => Planned(p)',
           p \in Orderly => Part(p)'
    PROVE  DirsInv'
  <1>1. Typed /\ Placed /\ \A q \in Orderly : Part(q)
    BY DEF DirsInv
  <1>2. sess \in [Procs -> SessTypes] /\ Len(dirs) \in Nat /\ dirs \in Seq(DirTypes)
    BY <1>1 DEF Typed
  <1>3. sess'[p] = s /\ \A q \in Procs \ {p} : sess'[q] = sess[q]
    BY <1>2
  <1>4. Typed'
    <2>1. PathTypes' = PathTypes
      BY DEF PathTypes
    <2>2. entry' \in PathTypes' /\ was' \subseteq PathTypes'
      BY <1>1, <2>1 DEF Typed
    <2>3. \A d \in 1..Len(dirs') : \A f \in Files : dirs'[d].now[f] \in dirs'[d].may[f]
      BY <1>1 DEF Typed
    <2>4. Len(dirs) <= Len(dirs') /\ s.lock <= Len(dirs') /\ dirs' \in Seq(DirTypes)
      BY <1>2
    <2>5. QED BY <1>1, <2>2, <2>3, <2>4, TypedFrame
  <1>5. Placed'
    <2>1. Locked(p)' => Locked(p) /\ sess'[p].lock = sess[p].lock
      BY <1>3 DEF Locked, HoldsLock
    <2>2. HoldsLock(p)' => HoldsLock(p)
      BY <1>3 DEF HoldsLock
    <2>3. \A d \in 1..Len(dirs) : ~dirs[d].scratch => dirs'[d].tmp = Blank
      BY <1>1 DEF Placed
    <2>4. QED BY <1>1, <1>3, <2>1, <2>2, <2>3, PlacedFrame
  <1>6. ASSUME NEW q \in Orderly, q # p PROVE Part(q)'
    <2>1. q \in Procs
      BY DEF Orderly
    <2>2. Dir(q)' = Dir(q) /\ SameData(sess[q].lock) /\ sess'[q] = sess[q] /\ Part(q)
      BY <1>1, <1>3, <1>6, <2>1 DEF Dir, SameData
    <2>3. QED BY <2>1, <2>2, PartFrame
  <1>7. QED BY <1>4, <1>5, <1>6 DEF DirsInv

\* The steps before a session holds its lock, and those that end it.
LEMMA QuietSteps ==
    ASSUME DirsInv, NEW p \in Procs,
           \/ StatRoot(p) \/ StatHashed(p) \/ Close(p) \/ Kill(p)
           \/ OpenLock(p) /\ Dir(p) = 0
           \/ Adopt(p) /\ UNCHANGED <<entry, was>>
    PROVE  DirsInv'
  <1>1. /\ Typed /\ sess[p] \in SessTypes /\ sess \in [Procs -> SessTypes]
        /\ Idle \in SessTypes /\ Idle.pc = "idle" /\ Idle.lock = 0 /\ Len(dirs) \in Nat
        /\ sess[p].lock <= Len(dirs) /\ trouble \in Nat /\ gen \in 0..MaxGen
    BY SessType DEF DirsInv, Typed
  <1>2. \E s \in SessTypes :
            /\ sess' = [sess EXCEPT ![p] = s] /\ s.lock <= Len(dirs)
            /\ s.pc \in {"idle", "mkdir", "stat", "adopt"}
    <2>1. CASE sess' = [sess EXCEPT ![p] = Idle]
      <3>1. PICK s \in SessTypes : s = Idle
        BY <1>1
      <3>2. s.lock <= Len(dirs) /\ s.pc = "idle"
        BY <1>1, <3>1
      <3>3. QED BY <2>1, <3>1, <3>2
    <2>2. ASSUME NEW x \in {"mkdir", "stat", "adopt"}, sess' = [sess EXCEPT ![p].pc = x]
          PROVE  \E s \in SessTypes :
                    /\ sess' = [sess EXCEPT ![p] = s] /\ s.lock <= Len(dirs)
                    /\ s.pc \in {"idle", "mkdir", "stat", "adopt"}
      <3> DEFINE s == [sess[p] EXCEPT !.pc = x]
      <3>1. s \in SessTypes /\ s.pc = x /\ s.lock = sess[p].lock
        BY <1>1 DEF SessTypes, Pcs
      <3>2. sess' = [sess EXCEPT ![p] = s]
        BY <1>1, <2>2
      <3>3. QED BY <1>1, <3>1, <3>2
    <2>3. QED BY <2>1, <2>2 DEF StatRoot, StatHashed, Close, Kill, OpenLock, Adopt, Goto, End
  <1>3. UNCHANGED <<entry, was, dirs>> /\ gen' = gen /\ trouble' \in Nat
    BY <1>1 DEF StatRoot, StatHashed, Close, Kill, OpenLock, Adopt, Trouble
  <1>4. PICK s \in SessTypes :
            /\ sess' = [sess EXCEPT ![p] = s] /\ s.lock <= Len(dirs)
            /\ s.pc \in {"idle", "mkdir", "stat", "adopt"}
    BY <1>2
  <1>5. sess'[p] = s
    BY <1>1, <1>4
  <1>6. Part(p)'
    BY <1>4, <1>5, Resting
  <1>7. QED BY <1>1, <1>3, <1>4, <1>6, SessionStep DEF Holding

\* Opening the lock file of the directory that is at the path now.
LEMMA OpenStep ==
    ASSUME DirsInv, NEW p \in Procs, OpenLock(p), Dir(p) # 0
    PROVE  DirsInv'
  <1>1. /\ Typed /\ Placed /\ sess[p] \in SessTypes /\ sess \in [Procs -> SessTypes]
        /\ Dir(p) \in 0..Len(dirs) /\ Len(dirs) \in Nat /\ dirs \in Seq(DirTypes)
    BY SessType DEF DirsInv, Typed
  <1> DEFINE s == [sess[p] EXCEPT !.lock = Dir(p), !.pc = "wait"]
  <1>2. sess' = [sess EXCEPT ![p] = s] /\ UNCHANGED <<gen, entry, was, dirs, trouble>>
    BY <1>1 DEF OpenLock
  <1>3. s \in SessTypes /\ s.lock = Dir(p) /\ s.pc = "wait"
    <2>1. Dir(p) \in Nat
      BY <1>1
    <2>2. QED BY <1>1, <2>1 DEF SessTypes, Pcs
  <1> HIDE DEF s
  <1>4. sess'[p] = s /\ \A q \in Procs \ {p} : sess'[q] = sess[q]
    BY <1>1, <1>2
  <1>5. Typed'
    <2>1. PathTypes' = PathTypes
      BY <1>2 DEF PathTypes
    <2>2. /\ entry' \in PathTypes' /\ was' \subseteq PathTypes'
          /\ gen' \in 0..MaxGen /\ trouble' \in Nat
      BY <1>1, <1>2, <2>1 DEF Typed
    <2>3. \A d \in 1..Len(dirs') : \A f \in Files : dirs'[d].now[f] \in dirs'[d].may[f]
      BY <1>1, <1>2 DEF Typed
    <2>4. Len(dirs) <= Len(dirs') /\ s.lock <= Len(dirs') /\ dirs' \in Seq(DirTypes)
      BY <1>1, <1>2, <1>3
    <2>5. QED BY <1>1, <1>2, <1>3, <2>2, <2>3, <2>4, TypedFrame
  <1>6. \A q \in Procs : Dir(q)' = Dir(q)
    BY <1>2 DEF Dir
  <1>7. ~HoldsLock(p)'
    BY <1>3, <1>4 DEF HoldsLock, Holding
  <1>8. Placed'
    <2>1. ASSUME NEW q \in Procs, Locked(q)'
          PROVE  /\ sess'[q].lock # 0
                 /\ q \in Orderly => Dir(q)' = sess'[q].lock \/ Moved(q)'
      <3>1. CASE q = p
        BY <1>3, <1>4, <1>6, <3>1
      <3>2. CASE q # p
        <4>1. sess'[q] = sess[q] /\ Locked(q) /\ Dir(q)' = Dir(q)
          BY <1>4, <1>6, <2>1, <3>2 DEF Locked, HoldsLock
        <4>2. Moved(q) => Moved(q)'
          BY <1>2, <4>1 DEF Moved
        <4>3. QED BY <1>1, <4>1, <4>2 DEF Placed
      <3>3. QED BY <3>1, <3>2
    <2>2. ASSUME NEW q \in Procs, NEW r \in Procs, q # r, HoldsLock(q)', HoldsLock(r)'
          PROVE  sess'[q].lock # sess'[r].lock
      <3>1. q # p /\ r # p
        BY <1>7, <2>2
      <3>2. sess'[q] = sess[q] /\ sess'[r] = sess[r] /\ HoldsLock(q) /\ HoldsLock(r)
        BY <1>4, <2>2, <3>1 DEF HoldsLock
      <3>3. QED BY <1>1, <2>2, <3>2 DEF Placed
    <2>3. Orderly \subseteq Procs
      BY DEF Orderly
    <2>4. QED BY <1>1, <1>2, <2>1, <2>2, <2>3 DEF Placed, Apart
  <1>9. Part(p)'
    BY <1>3, <1>4, Resting
  <1>10. ASSUME NEW q \in Orderly, q # p PROVE Part(q)'
    <2>1. q \in Procs
      BY DEF Orderly
    <2>2. Dir(q)' = Dir(q) /\ SameData(sess[q].lock) /\ sess'[q] = sess[q] /\ Part(q)
      BY <1>2, <1>4, <1>6, <1>10, <2>1 DEF SameData, DirsInv
    <2>3. QED BY <2>1, <2>2, PartFrame
  <1>11. QED BY <1>5, <1>8, <1>9, <1>10 DEF DirsInv

\* The lock is taken when no session has it.
LEMMA TakeStep ==
    ASSUME DirsInv, NEW p \in Procs, TakeLock(p)
    PROVE  DirsInv'
  <1>1. /\ Typed /\ Placed /\ sess[p] \in SessTypes /\ sess \in [Procs -> SessTypes]
        /\ sess[p].lock <= Len(dirs) /\ Len(dirs) \in Nat /\ dirs \in Seq(DirTypes)
    BY SessType DEF DirsInv, Typed
  <1> DEFINE s == [sess[p] EXCEPT !.pc = "wire"]
  <1>2. sess' = [sess EXCEPT ![p] = s] /\ UNCHANGED <<gen, entry, was, dirs, trouble>>
    BY <1>1 DEF TakeLock, Goto
  <1>3. s \in SessTypes /\ s.lock = sess[p].lock /\ s.pc = "wire"
    BY <1>1 DEF SessTypes, Pcs, Holding
  <1> HIDE DEF s
  <1>4. sess'[p] = s /\ \A q \in Procs \ {p} : sess'[q] = sess[q]
    BY <1>1, <1>2
  <1>5. Typed'
    <2>1. PathTypes' = PathTypes
      BY <1>2 DEF PathTypes
    <2>2. /\ entry' \in PathTypes' /\ was' \subseteq PathTypes'
          /\ gen' \in 0..MaxGen /\ trouble' \in Nat
      BY <1>1, <1>2, <2>1 DEF Typed
    <2>3. \A d \in 1..Len(dirs') : \A f \in Files : dirs'[d].now[f] \in dirs'[d].may[f]
      BY <1>1, <1>2 DEF Typed
    <2>4. Len(dirs) <= Len(dirs') /\ s.lock <= Len(dirs') /\ dirs' \in Seq(DirTypes)
      BY <1>1, <1>2, <1>3
    <2>5. QED BY <1>1, <1>2, <1>3, <2>2, <2>3, <2>4, TypedFrame
  <1>6. \A q \in Procs : Dir(q)' = Dir(q) /\ sess'[q].lock = sess[q].lock
    BY <1>2, <1>3, <1>4 DEF Dir
  <1>7. Placed'
    <2>1. ASSUME NEW q \in Procs, Locked(q)'
          PROVE  /\ sess'[q].lock # 0
                 /\ q \in Orderly => Dir(q)' = sess'[q].lock \/ Moved(q)'
      <3>1. Locked(q)
        BY <1>4, <2>1 DEF Locked, HoldsLock, TakeLock
      <3>2. Moved(q) => Moved(q)'
        BY <1>2, <1>6 DEF Moved
      <3>3. QED BY <1>1, <1>6, <3>1, <3>2 DEF Placed
    <2>2. ASSUME NEW q \in Procs, NEW r \in Procs, q # r, HoldsLock(q)', HoldsLock(r)'
          PROVE  sess'[q].lock # sess'[r].lock
      <3>1. \A x \in Procs \ {p} : HoldsLock(x)' => HoldsLock(x) /\ sess[x].lock # sess[p].lock
        BY <1>4 DEF HoldsLock, TakeLock
      <3>2. CASE q = p \/ r = p
        BY <1>6, <2>2, <3>1, <3>2
      <3>3. CASE q # p /\ r # p
        BY <1>1, <1>6, <2>2, <3>1, <3>3 DEF Placed
      <3>4. QED BY <3>2, <3>3
    <2>3. Orderly \subseteq Procs
      BY DEF Orderly
    <2>4. QED BY <1>1, <1>2, <2>1, <2>2, <2>3 DEF Placed, Apart
  <1>8. Part(p)'
    BY <1>3, <1>4, Resting
  <1>9. ASSUME NEW q \in Orderly, q # p PROVE Part(q)'
    <2>1. q \in Procs
      BY DEF Orderly
    <2>2. Dir(q)' = Dir(q) /\ SameData(sess[q].lock) /\ sess'[q] = sess[q] /\ Part(q)
      BY <1>2, <1>4, <1>6, <1>9, <2>1 DEF SameData, DirsInv
    <2>3. QED BY <2>1, <2>2, PartFrame
  <1>10. QED BY <1>5, <1>7, <1>8, <1>9 DEF DirsInv

-----------------------------------------------------------------------------
(* Directories appear and move *)

\* What MakeDir and OpenBackend do: b, there is a tmp/ afterwards; x, what is next.
LEMMA Ensures ==
    ASSUME DirsInv, NEW p \in Procs, MakeDir(p) \/ OpenBackend(p)
    PROVE  \E x \in {"open", "load"}, b \in BOOLEAN :
              /\ Ensure(p, b)
              /\ sess' = [sess EXCEPT ![p] = [sess[p] EXCEPT !.pc = x]]
              /\ UNCHANGED <<gen, trouble>>
              /\ b => x = "open" /\ sess[p].pc = "mkdir"
              /\ ~b => x = "load" /\ sess[p].pc = "wire"
  <1>1. CASE MakeDir(p)
    <2>1. /\ Ensure(p, TRUE) /\ sess[p].pc = "mkdir" /\ UNCHANGED <<gen, trouble>>
          /\ sess' = [sess EXCEPT ![p] = [sess[p] EXCEPT !.pc = "open"]]
      BY <1>1, SessType DEF MakeDir, Goto, DirsInv
    <2>2. "open" \in {"open", "load"} /\ TRUE \in BOOLEAN
      OBVIOUS
    <2>3. QED BY <2>1, <2>2, Zenon
  <1>2. CASE OpenBackend(p)
    <2>1. /\ Ensure(p, FALSE) /\ sess[p].pc = "wire" /\ UNCHANGED <<gen, trouble>>
          /\ sess' = [sess EXCEPT ![p] = [sess[p] EXCEPT !.pc = "load"]]
      BY <1>2, SessType DEF OpenBackend, Goto, DirsInv
    <2>2. "load" \in {"open", "load"} /\ FALSE \in BOOLEAN
      OBVIOUS
    <2>3. QED BY <2>1, <2>2, Zenon
  <1>3. QED BY <1>1, <1>2

\* A session makes sure of its directory, and one is there.
LEMMA FoundStep ==
    ASSUME DirsInv, NEW p \in Procs, MakeDir(p) \/ OpenBackend(p), Dir(p) # 0
    PROVE  DirsInv'
  <1>1. /\ Typed /\ Placed /\ sess[p] \in SessTypes /\ sess \in [Procs -> SessTypes]
        /\ Dir(p) \in 1..Len(dirs) /\ Len(dirs) \in Nat /\ dirs[Dir(p)] \in DirTypes
        /\ dirs \in Seq(DirTypes) /\ sess[p].lock <= Len(dirs)
    BY SessType DEF DirsInv, Typed
  <1>2. PICK x \in {"open", "load"}, b \in BOOLEAN :
            /\ Ensure(p, b)
            /\ sess' = [sess EXCEPT ![p] = [sess[p] EXCEPT !.pc = x]]
            /\ UNCHANGED <<gen, trouble>>
            /\ b => x = "open" /\ sess[p].pc = "mkdir"
            /\ ~b => x = "load" /\ sess[p].pc = "wire"
    BY Ensures
  <1>3. /\ dirs' = [dirs EXCEPT ![Dir(p)].scratch = @ \/ b]
        /\ UNCHANGED <<entry, was>>
    BY <1>2 DEF Ensure
  <1>4. PICK s \in SessTypes : /\ sess' = [sess EXCEPT ![p] = s] /\ s.pc = x
                               /\ s.lock = sess[p].lock
    <2>1. x \in Pcs /\ Goto(p, x)
      BY <1>1, <1>2 DEF Pcs, Holding, Goto
    <2>2. QED BY <1>1, <2>1, GotoStep
  <1>5. sess'[p] = s /\ \A q \in Procs \ {p} : sess'[q] = sess[q]
    BY <1>1, <1>4
  <1>6. /\ dirs' \in Seq(DirTypes) /\ Len(dirs') = Len(dirs)
        /\ \A d \in 1..Len(dirs) : SameData(d)
        /\ \A d \in 1..Len(dirs) : dirs[d].scratch => dirs'[d].scratch
        /\ \A d \in 1..Len(dirs) : d # Dir(p) \/ ~b => dirs'[d].scratch = dirs[d].scratch
    <2>1. PICK n \in 1..Len(dirs) : n = Dir(p)
      BY <1>1
    <2>2. [dirs[n] EXCEPT !.scratch = @ \/ b] \in DirTypes
      BY <1>1, <2>1 DEF DirTypes
    <2>3. dirs' = [dirs EXCEPT ![n] = [dirs[n] EXCEPT !.scratch = @ \/ b]]
      BY <1>1, <1>2, <1>3, <2>1
    <2>4. dirs' \in Seq(DirTypes) /\ Len(dirs') = Len(dirs)
      BY <1>1, <2>2, <2>3
    <2>5. /\ dirs'[n] = [dirs[n] EXCEPT !.scratch = @ \/ b]
          /\ \A d \in 1..Len(dirs) : d # n => dirs'[d] = dirs[d]
      BY <1>1, <2>3
    <2>6. \A d \in 1..Len(dirs) : dirs[d] \in DirTypes
      BY <1>1
    <2>7. ASSUME NEW d \in 1..Len(dirs)
          PROVE  /\ SameData(d)
                 /\ dirs[d].scratch => dirs'[d].scratch
                 /\ d # n \/ ~b => dirs'[d].scratch = dirs[d].scratch
      <3>1. CASE d # n
        BY <2>5, <3>1 DEF SameData
      <3>2. CASE d = n
        <4>1. PICK r \in DirTypes : r = dirs[n]
          BY <2>6
        <4>2. /\ [r EXCEPT !.scratch = @ \/ b].now = r.now
              /\ [r EXCEPT !.scratch = @ \/ b].may = r.may
              /\ [r EXCEPT !.scratch = @ \/ b].tmp = r.tmp
              /\ [r EXCEPT !.scratch = @ \/ b].scratch = (r.scratch \/ b)
              /\ r.scratch \in BOOLEAN
          BY DEF DirTypes
        <4>3. dirs'[d] = [r EXCEPT !.scratch = @ \/ b] /\ dirs[d] = r
          BY <2>5, <3>2, <4>1
        <4>4. SameData(d)
          BY <4>2, <4>3 DEF SameData
        <4>5. dirs'[d].scratch = (r.scratch \/ b) /\ dirs[d].scratch = r.scratch
          BY <4>2, <4>3
        <4>6. b \/ (r.scratch \/ b) = r.scratch
          BY <4>2
        <4>7. QED BY <3>2, <4>4, <4>5, <4>6
      <3>3. QED BY <3>1, <3>2
    <2>8. QED BY <2>1, <2>4, <2>7
  <1>7. Typed'
    <2>1. PathTypes' = PathTypes
      BY <1>6 DEF PathTypes
    <2>2. /\ entry' \in PathTypes' /\ was' \subseteq PathTypes'
          /\ gen' \in 0..MaxGen /\ trouble' \in Nat
      BY <1>1, <1>2, <1>3, <2>1 DEF Typed
    <2>3. \A d \in 1..Len(dirs') : \A f \in Files : dirs'[d].now[f] \in dirs'[d].may[f]
      BY <1>1, <1>6 DEF Typed, SameData
    <2>4. Len(dirs) <= Len(dirs') /\ s.lock <= Len(dirs') /\ dirs' \in Seq(DirTypes)
      BY <1>1, <1>4, <1>6
    <2>5. s.pc # "work"
      BY <1>4
    <2>6. QED BY <1>1, <1>4, <2>2, <2>3, <2>4, <2>5, TypedFrame
  <1>8. \A q \in Procs : Dir(q)' = Dir(q) /\ sess'[q].lock = sess[q].lock
    BY <1>3, <1>4, <1>5 DEF Dir
  <1>9. \A q \in Procs : Locked(q)' => Locked(q) /\ (b => q # p)
    BY <1>2, <1>4, <1>5 DEF Locked, HoldsLock, Holding
  <1>10. ASSUME NEW q \in Orderly, Locked(q)'
         PROVE  Dir(q)' = sess'[q].lock \/ Moved(q)'
    <2>1. q \in Procs /\ Locked(q) /\ (b => q # p)
      BY <1>9, <1>10 DEF Orderly
    <2>2. CASE Moved(q)
      <3>1. b => Dir(q) # Dir(p)
        <4>1. SUFFICES ASSUME b PROVE Dir(q) # Dir(p)
          OBVIOUS
        <4>2. q \in Anonymous /\ q \notin Named /\ Dir(q) = entry["hashed"]
          BY <2>2, ProcsAssumption DEF Moved, Dir, Home
        <4>3. p \in Named /\ Dir(p) = entry["named"]
          BY <2>1, <4>1, <4>2 DEF Orderly, Procs, Dir, Home
        <4>4. Apart(entry)
          BY <1>1 DEF Placed
        <4>5. QED BY <1>1, <4>2, <4>3, <4>4 DEF Apart
      <3>2. Dir(q) # 0 => ~dirs'[Dir(q)].scratch
        <4>1. Dir(q) # 0 => Dir(q) \in 1..Len(dirs)
          BY <1>1, <2>1, SessType
        <4>2. QED BY <1>6, <2>2, <3>1, <4>1 DEF Moved
      <3>3. Moved(q)'
        BY <1>3, <1>8, <2>1, <2>2, <3>2 DEF Moved
      <3>4. QED BY <3>3
    <2>3. QED BY <1>1, <1>8, <2>1, <2>2 DEF Placed
  <1>11. Placed'
    <2>1. \A q \in Procs : HoldsLock(q)' => HoldsLock(q)
      BY <1>2, <1>4, <1>5 DEF HoldsLock, Holding
    <2>2. \A d \in 1..Len(dirs') : ~dirs'[d].scratch => dirs'[d].tmp = Blank
      BY <1>1, <1>6 DEF Placed, SameData
    <2>3. \A q \in Procs : Locked(q)' => sess'[q].lock # 0
      BY <1>1, <1>8, <1>9 DEF Placed
    <2>4. QED BY <1>1, <1>3, <1>8, <1>10, <2>1, <2>2, <2>3 DEF Placed, Apart
  <1>12. Part(p)'
    BY <1>4, <1>5, Resting
  <1>13. ASSUME NEW q \in Orderly, q # p PROVE Part(q)'
    <2>1. q \in Procs
      BY DEF Orderly
    <2>2. HoldsLock(q) => sess[q].lock \in 1..Len(dirs)
      BY <1>1, <2>1 DEF Placed, Locked, Typed, SessTypes
    <2>3. Part(q) /\ sess'[q] = sess[q] /\ (HoldsLock(q) => Dir(q)' = Dir(q) /\ SameData(sess[q].lock))
      BY <1>5, <1>6, <1>8, <1>13, <2>1, <2>2 DEF DirsInv
    <2>4. QED BY <2>1, <2>3, PartFrame
  <1>14. QED BY <1>7, <1>11, <1>12, <1>13 DEF DirsInv

\* It is missing, and a new one appears.
LEMMA MadeStep ==
    ASSUME DirsInv, NEW p \in Procs, MakeDir(p) \/ OpenBackend(p), Dir(p) = 0
    PROVE  DirsInv'
  <1>1. /\ Typed /\ Placed /\ sess[p] \in SessTypes /\ sess \in [Procs -> SessTypes]
        /\ Len(dirs) \in Nat /\ dirs \in Seq(DirTypes) /\ Home(p) \in Paths
        /\ entry \in PathTypes /\ was \subseteq PathTypes /\ sess[p].lock <= Len(dirs)
        /\ sess[p].lock \in Nat
    <2>1. sess[p].lock \in Nat
      BY SessType DEF DirsInv, SessTypes
    <2>2. QED BY <2>1, SessType DEF DirsInv, Typed, Home, Paths
  <1>2. PICK x \in {"open", "load"}, b \in BOOLEAN :
            /\ Ensure(p, b)
            /\ sess' = [sess EXCEPT ![p] = [sess[p] EXCEPT !.pc = x]]
            /\ UNCHANGED <<gen, trouble>>
            /\ b => x = "open" /\ sess[p].pc = "mkdir"
            /\ ~b => x = "load" /\ sess[p].pc = "wire"
    BY Ensures
  <1>3. /\ dirs' = Append(dirs, NewDir(b))
        /\ entry' = [entry EXCEPT ![Home(p)] = Len(dirs) + 1] /\ was' = was \cup {entry}
    BY <1>2 DEF Ensure, Lead
  <1>4. PICK s \in SessTypes : /\ sess' = [sess EXCEPT ![p] = s] /\ s.pc = x
                               /\ s.lock = sess[p].lock
    <2>1. x \in Pcs /\ Goto(p, x)
      BY <1>1, <1>2 DEF Pcs, Holding, Goto
    <2>2. QED BY <1>1, <2>1, GotoStep
  <1>5. sess'[p] = s /\ \A q \in Procs \ {p} : sess'[q] = sess[q]
    BY <1>1, <1>4
  <1>6. /\ NewDir(b) \in DirTypes /\ NewDir(b).tmp = Blank /\ NewDir(b).scratch = b
        /\ \A f \in Files : NewDir(b).now[f] \in NewDir(b).may[f]
    BY DEF NewDir, Blank, DirTypes, Contents
  <1>7. /\ dirs' \in Seq(DirTypes) /\ Len(dirs') = Len(dirs) + 1
        /\ dirs'[Len(dirs) + 1] = NewDir(b)
        /\ \A d \in 1..Len(dirs) : dirs'[d] = dirs[d]
    BY <1>1, <1>3, <1>6
  <1>8. Typed'
    <2>1. PathTypes \subseteq PathTypes'
      BY <1>1, <1>7, PathsFrame
    <2>2. entry' \in PathTypes'
      <3>1. entry \in [Paths -> 0..Len(dirs')] /\ Len(dirs) + 1 \in 0..Len(dirs')
        BY <1>1, <1>7, <2>1 DEF PathTypes
      <3>2. QED BY <1>3, <3>1 DEF PathTypes
    <2>3. was' \subseteq PathTypes' /\ gen' \in 0..MaxGen /\ trouble' \in Nat
      BY <1>1, <1>2, <1>3, <2>1 DEF Typed
    <2>4. \A d \in 1..Len(dirs') : \A f \in Files : dirs'[d].now[f] \in dirs'[d].may[f]
      BY <1>1, <1>6, <1>7 DEF Typed
    <2>5. Len(dirs) <= Len(dirs') /\ s.lock <= Len(dirs')
      BY <1>1, <1>4, <1>7
    <2>6. s.pc # "work"
      BY <1>4
    <2>7. QED BY <1>1, <1>4, <1>7, <2>2, <2>3, <2>4, <2>5, <2>6, TypedFrame
  <1>9. ASSUME NEW q \in Orderly, Locked(q), q # p \/ ~b
        PROVE  \/ Dir(q)' = Dir(q) /\ Dir(q) = sess[q].lock
               \/ q = p /\ Moved(q)'
    <2>1. q \in Procs /\ sess[q].lock # 0 /\ (Dir(q) = sess[q].lock \/ Moved(q))
      BY <1>1, <1>9 DEF Placed, Orderly
    <2>2. CASE Home(q) # Home(p)
      <3>1. Dir(q)' = Dir(q)
        BY <1>1, <1>3, <2>2 DEF Dir, Home, Paths, PathTypes
      <3>2. ~Moved(q)
        BY <2>1, <2>2, ProcsAssumption DEF Moved, Dir, Home
      <3>3. QED BY <2>1, <3>1, <3>2
    <2>3. CASE Home(q) = Home(p)
      <3>1. Dir(q) = 0
        BY <2>3 DEF Dir
      <3>2. Moved(q)
        BY <2>1, <3>1
      <3>3. q \in Anonymous /\ p \in Anonymous /\ Home(p) = "hashed"
        BY <2>3, <3>2, ProcsAssumption DEF Moved, Home, Procs
      <3>4. q = p
        BY <3>3 DEF Orderly
      <3>5. Dir(p)' = Len(dirs) + 1 /\ entry'["named"] = entry["named"] /\ ~b
        BY <1>1, <1>3, <1>9, <3>3, <3>4 DEF Dir, Paths, PathTypes
      <3>6. ~dirs'[Dir(p)'].scratch
        BY <1>6, <1>7, <3>5
      <3>7. sess'[p].lock = sess[p].lock
        BY <1>4, <1>5
      <3>8. Moved(p)'
        BY <3>2, <3>3, <3>4, <3>5, <3>6, <3>7 DEF Moved
      <3>9. QED BY <3>4, <3>8
    <2>4. QED BY <2>2, <2>3
  <1>10. ASSUME NEW q \in Procs, Locked(q)'
         PROVE  Locked(q) /\ (q # p \/ ~b) /\ sess'[q].lock = sess[q].lock
    BY <1>2, <1>4, <1>5, <1>10 DEF Locked, HoldsLock, Holding
  <1>11. Placed'
    <2>1. \A q \in Procs : HoldsLock(q)' => HoldsLock(q) /\ sess'[q].lock = sess[q].lock
      BY <1>2, <1>4, <1>5 DEF HoldsLock, Holding
    <2>2. ASSUME NEW d \in 1..Len(dirs'), ~dirs'[d].scratch PROVE dirs'[d].tmp = Blank
      <3>1. d \in 1..Len(dirs) \/ d = Len(dirs) + 1
        BY <1>1, <1>7
      <3>2. CASE d \in 1..Len(dirs)
        BY <1>1, <1>7, <2>2, <3>2 DEF Placed
      <3>3. CASE d = Len(dirs) + 1
        BY <1>6, <1>7, <3>3
      <3>4. QED BY <3>1, <3>2, <3>3
    <2>3. \A e \in was' \cup {entry'} : Apart(e)
      <3>1. Apart(entry')
        <4>1. entry["named"] \in 0..Len(dirs) /\ entry["hashed"] \in 0..Len(dirs)
          BY <1>1 DEF PathTypes, Paths
        <4>2. Apart(entry)
          BY <1>1 DEF Placed
        <4>3. CASE Home(p) = "named"
          BY <1>1, <1>3, <4>1, <4>3 DEF Apart, Paths, PathTypes
        <4>4. CASE Home(p) = "hashed"
          BY <1>1, <1>3, <4>1, <4>4 DEF Apart, Paths, PathTypes
        <4>5. QED BY <4>3, <4>4 DEF Home
      <3>2. QED BY <1>1, <1>3, <3>1 DEF Placed
    <2>4. ASSUME NEW q \in Orderly, Locked(q)' PROVE Dir(q)' = sess'[q].lock \/ Moved(q)'
      <3>1. q \in Procs
        BY DEF Orderly
      <3>2. QED BY <1>9, <1>10, <2>4, <3>1
    <2>5. \A q \in Procs : Locked(q)' => sess'[q].lock # 0
      BY <1>1, <1>10 DEF Placed
    <2>6. QED BY <1>1, <2>1, <2>2, <2>3, <2>4, <2>5 DEF Placed, Apart
  <1>12. Part(p)'
    BY <1>4, <1>5, Resting
  <1>13. ASSUME NEW q \in Orderly, q # p PROVE Part(q)'
    <2>1. q \in Procs
      BY DEF Orderly
    <2>2. HoldsLock(q) => sess[q].lock \in 1..Len(dirs) /\ Dir(q)' = Dir(q)
      BY <1>1, <1>9, <1>13, <2>1 DEF Placed, Locked, Typed, SessTypes
    <2>3. Part(q) /\ sess'[q] = sess[q] /\ (HoldsLock(q) => Dir(q)' = Dir(q) /\ SameData(sess[q].lock))
      BY <1>5, <1>7, <1>13, <2>1, <2>2 DEF DirsInv, SameData
    <2>4. QED BY <2>1, <2>3, PartFrame
  <1>14. QED BY <1>8, <1>11, <1>12, <1>13 DEF DirsInv

\* The hashed directory becomes the named one, locked or not.
LEMMA AdoptStep ==
    ASSUME DirsInv, NEW p \in Procs, Adopt(p), ~UNCHANGED <<entry, was>>
    PROVE  DirsInv'
  <1>1. /\ Typed /\ Placed /\ sess[p] \in SessTypes /\ sess \in [Procs -> SessTypes]
        /\ entry \in PathTypes /\ was \subseteq PathTypes
        /\ Len(dirs) \in Nat /\ dirs \in Seq(DirTypes) /\ sess[p].lock <= Len(dirs)
    BY SessType DEF DirsInv, Typed
  <1>2. /\ sess[p].pc = "adopt" /\ entry["named"] = 0 /\ entry["hashed"] # 0
        /\ entry' = [named |-> entry["hashed"], hashed |-> 0] /\ was' = was \cup {entry}
        /\ sess' = [sess EXCEPT ![p].pc = "mkdir"]
        /\ UNCHANGED <<gen, dirs, trouble>>
    BY DEF Adopt, Goto, Lead
  <1>3. PICK s \in SessTypes : /\ sess' = [sess EXCEPT ![p] = s] /\ s.pc = "mkdir"
                               /\ s.lock = sess[p].lock
    <2>1. "mkdir" \in Pcs /\ Goto(p, "mkdir")
      BY <1>1, <1>2 DEF Pcs, Goto
    <2>2. QED BY <1>1, <2>1, GotoStep
  <1>4. sess'[p] = s /\ \A q \in Procs \ {p} : sess'[q] = sess[q]
    BY <1>1, <1>3
  <1>5. Typed'
    <2>1. PathTypes' = PathTypes
      BY <1>2 DEF PathTypes
    <2>2. entry' \in PathTypes'
      BY <1>1, <1>2, <2>1 DEF PathTypes, Paths
    <2>3. was' \subseteq PathTypes' /\ gen' \in 0..MaxGen /\ trouble' \in Nat
      BY <1>1, <1>2, <2>1 DEF Typed
    <2>4. \A d \in 1..Len(dirs') : \A f \in Files : dirs'[d].now[f] \in dirs'[d].may[f]
      BY <1>1, <1>2 DEF Typed
    <2>5. Len(dirs) <= Len(dirs') /\ s.lock <= Len(dirs') /\ dirs' \in Seq(DirTypes)
      BY <1>1, <1>2, <1>3
    <2>6. s.pc # "work"
      BY <1>3
    <2>7. QED BY <1>1, <1>3, <2>2, <2>3, <2>4, <2>5, <2>6, TypedFrame
  <1>6. ASSUME NEW q \in Orderly, Locked(q), q # p
        PROVE  Moved(q)' /\ sess[q].lock # 0 /\ Dir(q)' = 0
    <2>1. q \in Procs /\ sess[q].lock # 0 /\ (Dir(q) = sess[q].lock \/ Moved(q))
      BY <1>1, <1>6 DEF Placed, Orderly
    <2>2. Dir(q) = sess[q].lock
      BY <1>2, <2>1 DEF Moved
    <2>3. Home(q) = "hashed" /\ q \in Anonymous
      BY <1>2, <2>1, <2>2 DEF Dir, Home, Procs
    <2>4. Dir(q)' = 0 /\ entry'["named"] = sess'[q].lock
      BY <1>2, <1>4, <1>6, <2>1, <2>2, <2>3 DEF Dir
    <2>5. QED BY <2>1, <2>3, <2>4 DEF Moved
  <1>7. Placed'
    <2>1. \A q \in Procs : Locked(q)' => Locked(q) /\ q # p
      BY <1>3, <1>4 DEF Locked, HoldsLock, Holding
    <2>2. \A q \in Procs : HoldsLock(q)' => HoldsLock(q) /\ q # p
      BY <1>3, <1>4 DEF HoldsLock, Holding
    <2>3. \A q \in Procs : sess'[q].lock = sess[q].lock
      BY <1>3, <1>4
    <2>4. \A e \in was' \cup {entry'} : Apart(e)
      <3>1. Apart(entry')
        BY <1>2 DEF Apart
      <3>2. QED BY <1>1, <1>2, <3>1 DEF Placed
    <2>5. ASSUME NEW q \in Orderly, Locked(q)' PROVE Moved(q)'
      <3>1. q \in Procs
        BY DEF Orderly
      <3>2. QED BY <1>6, <2>1, <2>5, <3>1
    <2>6. QED BY <1>1, <1>2, <2>1, <2>2, <2>3, <2>4, <2>5 DEF Placed, Apart
  <1>8. Part(p)'
    BY <1>3, <1>4, Resting
  <1>9. ASSUME NEW q \in Orderly, q # p PROVE Part(q)'
    <2>1. q \in Procs /\ Part(q) /\ sess'[q] = sess[q]
      BY <1>4, <1>9 DEF DirsInv, Orderly
    <2>2. CASE HoldsLock(q)
      <3>1. sess'[q].lock # 0 /\ Dir(q)' = 0
        BY <1>6, <1>9, <2>1, <2>2 DEF Locked
      <3>2. Working(q)'
        BY <3>1 DEF Working
      <3>3. Durable(dirs[sess[q].lock], sess[q])' <=> Durable(dirs[sess[q].lock], sess[q])
        BY <1>2, <2>1 DEF Durable
      <3>4. QED BY <2>1, <3>1, <3>2, <3>3 DEF Part
    <2>3. CASE ~HoldsLock(q)
      BY <2>1, <2>3, Resting DEF HoldsLock, Holding
    <2>4. QED BY <2>2, <2>3
  <1>10. QED BY <1>5, <1>7, <1>8, <1>9 DEF DirsInv

-----------------------------------------------------------------------------
(* Steps that change files *)

\* Which step of SavePins or of MarkApplied a file step is.
LEMMA Sorts ==
    ASSUME NEW op \in {"fetch", "push"}, NEW k \in 1..9
    PROVE  /\ Plan(op)[k] \in Steps
           /\ Plan(op)[k][1] = "read" => RecordAt(op, k) = 1
           /\ Plan(op)[k][1] = "stage" =>
                 \/ Plan(op)[k][2] = "generation" /\ PinsAt(op, k) = 1
                 \/ Plan(op)[k][2] = "repoid" /\ PinsAt(op, k) = 2
                 \/ Plan(op)[k][2] = "applied" /\ RecordAt(op, k) = 2
           /\ Plan(op)[k][1] = "rename" =>
                 \/ Plan(op)[k][2] = "generation" /\ PinsAt(op, k) = 3
                 \/ Plan(op)[k][2] = "repoid" /\ PinsAt(op, k) = 4
                 \/ Plan(op)[k][2] = "applied" /\ RecordAt(op, k) = 3
           /\ Plan(op)[k][1] = "sync" => PinsAt(op, k) = 5 \/ RecordAt(op, k) = 4
           /\ Plan(op)[k][1] # "sync" => k # 9
           /\ k \in Beginnings(op) => Plan(op)[k][1] \in {"read", "stage"}
  <1>1. CASE op = "push"
    <2>1. k \in {1, 2, 3, 4, 5, 6, 7, 8, 9}
      OBVIOUS
    <2>2. PinsAt("push", k) = k /\ RecordAt("push", k) = k - 5 /\ Beginnings("push") = {1}
      BY DEF PinsAt, RecordAt, Beginnings
    <2>3. ASSUME k \in {1, 2, 3, 4, 5}
          PROVE  /\ Plan("push")[k][1] = IF k \in {1, 2} THEN "stage"
                                        ELSE IF k = 5 THEN "sync" ELSE "rename"
                 /\ Plan("push")[k][2] = IF k \in {2, 4} THEN "repoid" ELSE "generation"
                 /\ Plan("push")[k] \in Steps
      BY <2>3, Plans DEF Steps, Kinds, Files
    <2>4. ASSUME k \in {6, 7, 8, 9}
          PROVE  /\ Plan("push")[k][1] = IF k = 6 THEN "read" ELSE IF k = 7 THEN "stage"
                                        ELSE IF k = 8 THEN "rename" ELSE "sync"
                 /\ Plan("push")[k][2] = "applied" /\ Plan("push")[k] \in Steps
      BY <2>4, Plans DEF Steps, Kinds, Files
    <2>5. QED BY <1>1, <2>1, <2>2, <2>3, <2>4
  <1>2. CASE op = "fetch"
    <2>1. k \in {1, 2, 3, 4, 5, 6, 7, 8, 9}
      OBVIOUS
    <2>2. PinsAt("fetch", k) = k - 4 /\ RecordAt("fetch", k) = k /\ Beginnings("fetch") = {1, 2, 5}
      BY DEF PinsAt, RecordAt, Beginnings
    <2>3. ASSUME k \in {1, 2, 3, 4}
          PROVE  /\ Plan("fetch")[k][1] = IF k = 1 THEN "read" ELSE IF k = 2 THEN "stage"
                                         ELSE IF k = 3 THEN "rename" ELSE "sync"
                 /\ Plan("fetch")[k][2] = "applied" /\ Plan("fetch")[k] \in Steps
      BY <2>3, Plans DEF Steps, Kinds, Files
    <2>4. ASSUME k \in {5, 6, 7, 8, 9}
          PROVE  /\ Plan("fetch")[k][1] = IF k \in {5, 6} THEN "stage"
                                         ELSE IF k = 9 THEN "sync" ELSE "rename"
                 /\ Plan("fetch")[k][2] = IF k \in {6, 8} THEN "repoid" ELSE "generation"
                 /\ Plan("fetch")[k] \in Steps
      BY <2>4, Plans DEF Steps, Kinds, Files
    <2>5. QED BY <1>2, <2>1, <2>2, <2>3, <2>4
  <1>3. QED BY <1>1, <1>2

\* The two counts, in terms of the step.
LEMMA Counts ==
    ASSUME NEW op \in {"fetch", "push"}, NEW k \in 1..9
    PROVE  /\ PinsAt(op, k) \in Int /\ RecordAt(op, k) \in Int
           /\ PinsAt(op, k + 1) = PinsAt(op, k) + 1 /\ RecordAt(op, k + 1) = RecordAt(op, k) + 1
           /\ op = "push" => PinsAt(op, k) = RecordAt(op, k) + 5 /\ PinsAt(op, k) = k
           /\ op = "fetch" => PinsAt(op, k) = RecordAt(op, k) - 4 /\ RecordAt(op, k) = k
  BY DEF PinsAt, RecordAt

\* Both pins saved.
LEMMA PairIs ==
    ASSUME NEW dir, NEW s, dir.now["generation"] = {s.cur}, dir.now["repoid"] = {1}
    PROVE  Pins(dir) = Both(s)
  <1>1. PICK x, y : x = {s.cur} /\ y = {1}
    OBVIOUS
  <1>2. Both(s) = [f \in {"generation", "repoid"} |-> IF f = "generation" THEN x ELSE y]
    BY <1>1 DEF Both
  <1>3. \A f \in {"generation", "repoid"} : dir.now[f] = IF f = "generation" THEN x ELSE y
    BY <1>1
  <1>4. QED BY <1>2, <1>3 DEF Pins

\* Staging a file, in the directory the session has locked.
LEMMA StageReached ==
    ASSUME NEW dir \in DirTypes, NEW s \in SessTypes, s.op \in {"fetch", "push"},
           NEW k \in 1..9, Plan(s.op)[k][1] = "stage", Reached(dir, s, k),
           NEW f \in Files, f = Plan(s.op)[k][2], NEW c,
           f = "generation" => c = {s.cur}, f = "repoid" => c = {1},
           f = "applied" => s.cur \in c
    PROVE  Reached([dir EXCEPT !.tmp[f] = c], s, k + 1)
  <1> DEFINE nd == [dir EXCEPT !.tmp[f] = c]
             j == PinsAt(s.op, k)
             i == RecordAt(s.op, k)
  <1>1. /\ nd.now = dir.now /\ nd.tmp[f] = c /\ Pins(nd) = Pins(dir)
        /\ \A g \in Files : g # f => nd.tmp[g] = dir.tmp[g]
    BY DEF DirTypes, Pins
  <1>2. /\ PinsReached(dir, s, j) /\ RecordReached(dir, s, i)
        /\ j \in Int /\ i \in Int
        /\ PinsAt(s.op, k + 1) = j + 1 /\ RecordAt(s.op, k + 1) = i + 1
        /\ s.op = "push" => j = i + 5
        /\ s.op = "fetch" => j = i - 4
    <2>1. PinsReached(dir, s, j) /\ RecordReached(dir, s, i)
      BY DEF Reached
    <2>2. QED BY <2>1, Counts
  <1>3. \/ f = "generation" /\ j = 1
        \/ f = "repoid" /\ j = 2
        \/ f = "applied" /\ i = 2
    BY Sorts
  <1>4. "generation" \in Files /\ "repoid" \in Files /\ "applied" \in Files
    BY DEF Files
  <1> HIDE DEF nd, j, i
  <1>5. PinsReached(nd, s, j + 1)
    BY <1>1, <1>2, <1>3, <1>4 DEF PinsReached
  <1>6. RecordReached(nd, s, i + 1)
    BY <1>1, <1>2, <1>3, <1>4 DEF RecordReached
  <1>7. Reached(nd, s, k + 1)
    BY <1>2, <1>5, <1>6 DEF Reached
  <1>8. QED BY <1>7 DEF nd

\* A file of dir is renamed into place.
Renamed(dir, nd, f) ==
    /\ nd.now[f] = dir.tmp[f]
    /\ \A g \in Files : g # f => nd.tmp[g] = dir.tmp[g] /\ nd.now[g] = dir.now[g]

\* Renaming a staged file into place.
LEMMA RenameReached ==
    ASSUME NEW dir \in DirTypes, NEW s \in SessTypes, s.op \in {"fetch", "push"},
           NEW k \in 1..9, Plan(s.op)[k][1] = "rename", Reached(dir, s, k),
           NEW f \in Files, f = Plan(s.op)[k][2],
           NEW nd \in DirTypes, Renamed(dir, nd, f)
    PROVE  Reached(nd, s, k + 1)
  <1> DEFINE j == PinsAt(s.op, k)
             i == RecordAt(s.op, k)
  <1>1. /\ nd.now[f] = dir.tmp[f]
        /\ \A g \in Files : g # f => nd.tmp[g] = dir.tmp[g] /\ nd.now[g] = dir.now[g]
    BY DEF Renamed
  <1>2. /\ PinsReached(dir, s, j) /\ RecordReached(dir, s, i)
        /\ j \in Int /\ i \in Int
        /\ PinsAt(s.op, k + 1) = j + 1 /\ RecordAt(s.op, k + 1) = i + 1
        /\ s.op = "push" => j = i + 5
        /\ s.op = "fetch" => j = i - 4
    <2>1. PinsReached(dir, s, j) /\ RecordReached(dir, s, i)
      BY DEF Reached
    <2>2. QED BY <2>1, Counts
  <1>3. \/ f = "generation" /\ j = 3
        \/ f = "repoid" /\ j = 4
        \/ f = "applied" /\ i = 3
    BY Sorts
  <1>4. "generation" \in Files /\ "repoid" \in Files /\ "applied" \in Files
    BY DEF Files
  <1>5. f = "applied" => Pins(nd) = Pins(dir)
    BY <1>1, <1>4 DEF Pins
  <1> HIDE DEF j, i
  <1>6. PinsReached(nd, s, j + 1)
    BY <1>1, <1>2, <1>3, <1>4, <1>5 DEF PinsReached
  <1>7. RecordReached(nd, s, i + 1)
    BY <1>1, <1>2, <1>3, <1>4 DEF RecordReached
  <1>8. QED BY <1>2, <1>6, <1>7 DEF Reached

\* What an orderly session renames is there.
LEMMA Staged ==
    ASSUME NEW dir \in DirTypes, NEW s \in SessTypes, s.op \in {"fetch", "push"},
           NEW k \in 1..9, Plan(s.op)[k][1] = "rename", Reached(dir, s, k),
           NEW f \in Files, f = Plan(s.op)[k][2]
    PROVE  dir.tmp[f] # {}
  <1> DEFINE j == PinsAt(s.op, k)
             i == RecordAt(s.op, k)
  <1>1. PinsReached(dir, s, j) /\ RecordReached(dir, s, i)
    BY DEF Reached
  <1>2. \/ f = "generation" /\ j = 3
        \/ f = "repoid" /\ j = 4
        \/ f = "applied" /\ i = 3
    BY Sorts
  <1> HIDE DEF j, i
  <1>3. QED BY <1>1, <1>2 DEF PinsReached, RecordReached

\* The sync between the two halves of a plan, or the one at its end.
LEMMA SyncReached ==
    ASSUME NEW dir \in DirTypes, NEW s \in SessTypes, s.op \in {"fetch", "push"},
           NEW k \in 1..9, Plan(s.op)[k][1] = "sync", Reached(dir, s, k),
           NEW nd \in DirTypes, nd.now = dir.now, nd.tmp = dir.tmp,
           nd.may = [f \in Files |-> {dir.now[f]}]
    PROVE  Reached(nd, s, k + 1) /\ (k = 9 => Durable(nd, s))
  <1> DEFINE j == PinsAt(s.op, k)
             i == RecordAt(s.op, k)
  <1>1. /\ PinsReached(dir, s, j) /\ RecordReached(dir, s, i)
        /\ j \in Int /\ i \in Int
        /\ PinsAt(s.op, k + 1) = j + 1 /\ RecordAt(s.op, k + 1) = i + 1
        /\ s.op = "push" => j = i + 5 /\ j = k
        /\ s.op = "fetch" => j = i - 4 /\ i = k
    <2>1. PinsReached(dir, s, j) /\ RecordReached(dir, s, i)
      BY DEF Reached
    <2>2. QED BY <2>1, Counts
  <1>2. j = 5 \/ i = 4
    BY Sorts
  <1>3. Pins(nd) = Pins(dir)
    BY DEF Pins
  <1> HIDE DEF j, i
  <1>4. PinsReached(nd, s, j + 1)
    BY <1>1, <1>2, <1>3 DEF PinsReached
  <1>5. RecordReached(nd, s, i + 1)
    BY <1>1, <1>2 DEF RecordReached
  <1>6. Reached(nd, s, k + 1)
    BY <1>1, <1>4, <1>5 DEF Reached
  <1>7. ASSUME k = 9 PROVE Durable(nd, s)
    <2>1. j >= 5 /\ i >= 4
      BY <1>1, <1>2, <1>7
    <2>2. /\ dir.now["generation"] = {s.cur} /\ dir.now["repoid"] = {1}
          /\ s.cur \in dir.now["applied"]
      BY <1>1, <2>1 DEF PinsReached, RecordReached
    <2>3. /\ nd.may["generation"] = {{s.cur}} /\ nd.may["repoid"] = {{1}}
          /\ nd.may["applied"] = {dir.now["applied"]}
      BY <2>2 DEF Files
    <2>4. QED BY <2>2, <2>3 DEF Durable
  <1>8. QED BY <1>6, <1>7

\* An orderly session writes only in the directory it has locked.
LEMMA OwnDir ==
    ASSUME DirsInv, NEW p \in Procs, p \in Orderly, sess[p].pc = "work", Dir(p) # 0,
           ~Does(p, "read"), Does(p, "stage") => dirs[Dir(p)].scratch
    PROVE  Dir(p) = sess[p].lock
  <1>1. Typed /\ Placed /\ Part(p)
    BY DEF DirsInv
  <1>2. /\ Working(p) /\ Step(p) \in 1..9 /\ Head(sess[p].todo) = Plan(sess[p].op)[Step(p)]
        /\ sess[p].op \in {"fetch", "push"}
    BY <1>1, NextStep DEF Part
  <1>3. SUFFICES ASSUME Dir(p) # sess[p].lock PROVE FALSE
    OBVIOUS
  <1>4. Moved(p)
    BY <1>1, <1>3 DEF Placed, Locked, HoldsLock, Holding
  <1>5. ~Does(p, "stage")
    BY <1>4 DEF Moved
  <1>6. Step(p) \in Beginnings(sess[p].op)
    BY <1>2, <1>3 DEF Working
  <1>7. Plan(sess[p].op)[Step(p)][1] \in {"read", "stage"}
    BY <1>2, <1>6, Sorts
  <1>8. Does(p, "read") \/ Does(p, "stage")
    BY <1>2, <1>7 DEF Does
  <1>9. QED BY <1>5, <1>8

\* A session writes in the directory at its path; if it is orderly, it has that one
\* locked and its own part is true.
LEMMA FileStep ==
    ASSUME DirsInv, NEW p \in Procs, HoldsLock(p), Dir(p) # 0,
           p \in Orderly => Dir(p) = sess[p].lock,
           NEW nd \in DirTypes, nd.scratch = dirs[Dir(p)].scratch,
           ~nd.scratch => nd.tmp = Blank, \A f \in Files : nd.now[f] \in nd.may[f],
           dirs' = [dirs EXCEPT ![Dir(p)] = nd],
           NEW s \in SessTypes, s.lock = sess[p].lock, sess' = [sess EXCEPT ![p] = s],
           s.pc \in Holding, s.pc = "work" => Planned(p)',
           UNCHANGED <<gen, entry, was>>, trouble' \in Nat,
           p \in Orderly => Part(p)'
    PROVE  DirsInv'
  <1>1. /\ Typed /\ Placed /\ sess \in [Procs -> SessTypes]
        /\ Dir(p) \in 1..Len(dirs) /\ Len(dirs) \in Nat /\ dirs \in Seq(DirTypes)
        /\ sess[p].lock <= Len(dirs)
    BY SessType DEF DirsInv, Typed
  <1>2. PICK l \in 1..Len(dirs) : l = Dir(p)
    BY <1>1
  <1>3. /\ dirs' \in Seq(DirTypes) /\ Len(dirs') = Len(dirs) /\ dirs'[l] = nd
        /\ \A d \in 1..Len(dirs) : d # l => dirs'[d] = dirs[d]
    BY <1>1, <1>2
  <1>4. sess'[p] = s /\ \A q \in Procs \ {p} : sess'[q] = sess[q]
    BY <1>1
  <1>5. Typed'
    <2>1. PathTypes' = PathTypes
      BY <1>3 DEF PathTypes
    <2>2. entry' \in PathTypes' /\ was' \subseteq PathTypes' /\ gen' \in 0..MaxGen
      BY <1>1, <2>1 DEF Typed
    <2>3. \A d \in 1..Len(dirs') : \A f \in Files : dirs'[d].now[f] \in dirs'[d].may[f]
      BY <1>1, <1>2, <1>3 DEF Typed
    <2>4. Len(dirs) <= Len(dirs') /\ s.lock <= Len(dirs')
      BY <1>1, <1>3
    <2>5. QED BY <1>1, <1>3, <2>2, <2>3, <2>4, TypedFrame
  <1>6. Placed'
    <2>1. ASSUME NEW d \in 1..Len(dirs)
          PROVE  /\ dirs'[d].scratch = dirs[d].scratch
                 /\ ~dirs[d].scratch => dirs'[d].tmp = Blank
      BY <1>1, <1>2, <1>3 DEF Placed
    <2>2. /\ Locked(p)' => Locked(p) /\ sess'[p].lock = sess[p].lock
          /\ HoldsLock(p)' => HoldsLock(p)
      BY <1>4 DEF Locked
    <2>3. QED BY <1>1, <1>3, <1>4, <2>1, <2>2, PlacedFrame
  <1>7. ASSUME NEW q \in Orderly, q # p PROVE Part(q)'
    <2>1. q \in Procs
      BY DEF Orderly
    <2>2. HoldsLock(q) => sess[q].lock \in 1..Len(dirs) /\ sess[q].lock # l
      <3>1. SUFFICES ASSUME HoldsLock(q) PROVE sess[q].lock \in 1..Len(dirs) /\ sess[q].lock # l
        OBVIOUS
      <3>2. sess[q].lock # 0 /\ sess[q].lock # Dir(p)
        BY <1>1, <1>7, <2>1, <3>1, Alone DEF Placed, Locked
      <3>3. QED BY <1>1, <1>2, <2>1, <3>2 DEF Typed, SessTypes
    <2>3. HoldsLock(q) => Dir(q)' = Dir(q) /\ SameData(sess[q].lock)
      BY <1>3, <2>2 DEF SameData, Dir
    <2>4. Part(q) /\ sess'[q] = sess[q]
      BY <1>4, <1>7, <2>1 DEF DirsInv
    <2>5. QED BY <2>1, <2>3, <2>4, PartFrame
  <1>8. QED BY <1>5, <1>6, <1>7 DEF DirsInv

\* What a session is after a file step that it survives.
After(p) ==
    IF Len(sess[p].todo) > 1
    THEN [sess[p] EXCEPT !.todo = Tail(sess[p].todo), !.read = {}]
    ELSE [Idle EXCEPT !.pc = "done", !.lock = sess[p].lock, !.cur = sess[p].cur]

\* After a file step a session is one step further in its plan, or has done with it.
LEMMA Advances ==
    ASSUME Typed, NEW p \in Procs, sess[p].pc = "work", Advance(p)
    PROVE  /\ sess' = [sess EXCEPT ![p] = After(p)] /\ sess'[p] = After(p)
           /\ After(p) \in SessTypes /\ After(p).lock = sess[p].lock
           /\ After(p).cur = sess[p].cur
           /\ After(p).pc = (IF Step(p) = 9 THEN "done" ELSE "work")
           /\ Step(p) # 9 => /\ Planned(p)' /\ Step(p)' = Step(p) + 1
                             /\ After(p).op = sess[p].op
                             /\ After(p).before = sess[p].before
  <1>1. /\ sess \in [Procs -> SessTypes] /\ sess[p] \in SessTypes /\ Idle \in SessTypes
        /\ sess[p].lock \in Nat /\ sess[p].cur \in 0..MaxGen
    BY SessType DEF SessTypes
  <1>2. /\ Step(p) \in 1..9 /\ Len(sess[p].todo) = 10 - Step(p)
        /\ Tail(sess[p].todo) = SubSeq(Plan(sess[p].op), Step(p) + 1, 9)
        /\ Tail(sess[p].todo) \in Seq(Steps) /\ Len(Tail(sess[p].todo)) = 9 - Step(p)
        /\ sess[p].op \in {"fetch", "push"} /\ sess[p].cur \in Gens
    BY NextStep
  <1>3. sess' = [sess EXCEPT ![p] = After(p)] /\ sess'[p] = After(p)
    <2>1. CASE Len(sess[p].todo) > 1
      <3>1. sess' = [sess EXCEPT ![p] = [sess[p] EXCEPT !.todo = Tail(sess[p].todo), !.read = {}]]
        BY <1>1, <2>1 DEF Advance
      <3>2. QED BY <1>1, <2>1, <3>1 DEF After
    <2>2. CASE ~(Len(sess[p].todo) > 1)
      <3>1. sess' = [sess EXCEPT ![p] =
                       [Idle EXCEPT !.pc = "done", !.lock = sess[p].lock, !.cur = sess[p].cur]]
        BY <1>1, <2>2 DEF Advance
      <3>2. QED BY <1>1, <2>2, <3>1 DEF After
    <2>3. QED BY <2>1, <2>2
  <1>4. CASE Step(p) # 9
    <2>1. PICK t \in Seq(Steps), s \in SessTypes : t = Tail(sess[p].todo) /\ s = sess[p]
      BY <1>1, <1>2
    <2>2. PICK a : a = [s EXCEPT !.todo = t, !.read = {}]
      OBVIOUS
    <2>3. {} \in Contents
      BY DEF Contents
    <2>4. a \in SessTypes
      BY <2>2, <2>3 DEF SessTypes
    <2>5. /\ a.lock = s.lock /\ a.op = s.op /\ a.cur = s.cur /\ a.before = s.before
          /\ a.pc = s.pc /\ a.todo = t
      BY <2>2 DEF SessTypes
    <2>6. After(p) = a
      <3>1. Len(sess[p].todo) > 1
        BY <1>2, <1>4
      <3>2. QED BY <2>1, <2>2, <3>1 DEF After
    <2>7. Step(p)' = Step(p) + 1
      <3>1. Step(p)' = 10 - Len(sess'[p].todo)
        BY DEF Step
      <3>2. sess'[p].todo = t
        BY <1>3, <2>5, <2>6
      <3>3. Len(t) = 9 - Step(p)
        BY <1>2, <2>1
      <3>4. QED BY <1>2, <3>1, <3>2, <3>3
    <2>8. Planned(p)'
      <3>1. sess'[p].op = sess[p].op /\ sess'[p].cur = sess[p].cur /\ sess'[p].todo = t
        BY <1>3, <2>1, <2>5, <2>6
      <3>2. Step(p)' \in 1..9
        BY <1>2, <1>4, <2>7
      <3>3. sess'[p].todo = SubSeq(Plan(sess'[p].op), Step(p)', 9)
        BY <1>2, <2>1, <2>7, <3>1, Zenon
      <3>4. QED BY <1>2, <3>1, <3>2, <3>3 DEF Planned
    <2>9. QED BY <1>3, <1>4, <2>1, <2>4, <2>5, <2>6, <2>7, <2>8
  <1>5. CASE Step(p) = 9
    <2>1. After(p) = [Idle EXCEPT !.pc = "done", !.lock = sess[p].lock, !.cur = sess[p].cur]
      BY <1>2, <1>5 DEF After
    <2>2. PICK i \in SessTypes, l \in Nat, c \in 0..MaxGen :
              i = Idle /\ l = sess[p].lock /\ c = sess[p].cur
      BY <1>1
    <2>3. PICK a : a = [i EXCEPT !.pc = "done", !.lock = l, !.cur = c]
      OBVIOUS
    <2>4. a \in SessTypes /\ a.pc = "done" /\ a.lock = l /\ a.cur = c
      BY <2>3 DEF SessTypes, Pcs, Holding
    <2>5. After(p) = a
      BY <2>1, <2>2, <2>3
    <2>6. QED BY <1>3, <1>5, <2>2, <2>4, <2>5
  <1>6. QED BY <1>4, <1>5

\* The file step a session is at, and how far an orderly one is.
LEMMA AtFile ==
    ASSUME DirsInv, NEW p \in Procs, sess[p].pc = "work", Dir(p) # 0
    PROVE  /\ Typed /\ Placed /\ sess[p] \in SessTypes /\ HoldsLock(p) /\ gen \in 0..MaxGen
           /\ Dir(p) \in 1..Len(dirs) /\ dirs[Dir(p)] \in DirTypes /\ dirs \in Seq(DirTypes)
           /\ Step(p) \in 1..9 /\ sess[p].op \in {"fetch", "push"} /\ sess[p].cur \in Gens
           /\ Head(sess[p].todo) = Plan(sess[p].op)[Step(p)] /\ Target(p) \in Files
           /\ p \in Orderly /\ Dir(p) = sess[p].lock => Reached(dirs[Dir(p)], sess[p], Step(p))
           /\ \A f \in Files : dirs[Dir(p)].now[f] \in dirs[Dir(p)].may[f]
           /\ ~dirs[Dir(p)].scratch => dirs[Dir(p)].tmp = Blank
           /\ trouble \in Nat
  <1>1. Typed /\ Placed /\ HoldsLock(p)
    BY DEF DirsInv, HoldsLock, Holding
  <1>2. Dir(p) \in 1..Len(dirs)
    BY <1>1, SessType
  <1>3. /\ Step(p) \in 1..9 /\ Head(sess[p].todo) \in Steps
        /\ sess[p].op \in {"fetch", "push"} /\ sess[p].cur \in Gens
        /\ Head(sess[p].todo) = Plan(sess[p].op)[Step(p)]
    BY <1>1, NextStep
  <1>4. /\ \A f \in Files : dirs[Dir(p)].now[f] \in dirs[Dir(p)].may[f]
        /\ ~dirs[Dir(p)].scratch => dirs[Dir(p)].tmp = Blank
    BY <1>1, <1>2 DEF Typed, Placed
  <1>5. Target(p) \in Files
    BY <1>3 DEF Target, Steps
  <1>6. p \in Orderly /\ Dir(p) = sess[p].lock => Reached(dirs[Dir(p)], sess[p], Step(p))
    BY DEF DirsInv, Part, Working
  <1>7. QED BY <1>1, <1>2, <1>3, <1>4, <1>5, <1>6, SessType DEF Typed

\* The part of a session that goes on after a file step.
LEMMA GoesOn ==
    ASSUME DirsInv, NEW p \in Procs, sess[p].pc = "work", Dir(p) = sess[p].lock,
           Advance(p), entry' = entry,
           Reached(dirs'[Dir(p)], sess[p], Step(p) + 1),
           Step(p) = 9 => Durable(dirs'[Dir(p)], sess[p])
    PROVE  Part(p)'
  <1>1. /\ sess'[p] = After(p) /\ After(p).lock = sess[p].lock
        /\ After(p).cur = sess[p].cur
        /\ After(p).pc = (IF Step(p) = 9 THEN "done" ELSE "work")
        /\ Step(p) # 9 => /\ Step(p)' = Step(p) + 1
                          /\ After(p).op = sess[p].op /\ After(p).before = sess[p].before
    BY Advances DEF DirsInv
  <1>2. Dir(p)' = Dir(p) /\ sess'[p].lock = Dir(p)
    BY <1>1 DEF Dir
  <1>3. CASE Step(p) = 9
    <2>1. sess'[p].pc = "done" /\ sess'[p].cur = sess[p].cur
      BY <1>1, <1>3
    <2>2. Durable(dirs'[sess'[p].lock], sess'[p])
      BY <1>2, <1>3, <2>1 DEF Durable
    <2>3. QED BY <2>1, <2>2 DEF Part
  <1>4. CASE Step(p) # 9
    <2>1. /\ sess'[p].pc = "work" /\ sess'[p].cur = sess[p].cur /\ sess'[p].op = sess[p].op
          /\ sess'[p].before = sess[p].before /\ Step(p)' = Step(p) + 1
      BY <1>1, <1>4
    <2>2. Reached(dirs'[Dir(p)'], sess'[p], Step(p)')
      <3>1. PICK s, t, d, k : s = sess[p] /\ t = sess'[p] /\ d = dirs'[Dir(p)] /\ k = Step(p) + 1
        OBVIOUS
      <3>2. t.op = s.op /\ t.cur = s.cur /\ t.before = s.before /\ Reached(d, s, k)
        BY <2>1, <3>1
      <3>3. Reached(d, t, k)
        BY <3>2 DEF Reached, PinsReached, RecordReached
      <3>4. QED BY <1>2, <2>1, <3>1, <3>3
    <2>3. Working(p)'
      BY <1>2, <2>2 DEF Working
    <2>4. QED BY <2>1, <2>3 DEF Part
  <1>5. QED BY <1>3, <1>4

\* Staging a file.
LEMMA StageStep ==
    ASSUME DirsInv, NEW p \in Procs, StageFile(p), Dir(p) # 0, dirs[Dir(p)].scratch
    PROVE  DirsInv'
  <1>1. /\ sess[p].pc = "work" /\ Head(sess[p].todo)[1] = "stage" /\ Advance(p)
        /\ dirs' = [dirs EXCEPT ![Dir(p)].tmp[Target(p)] = Content(p, Target(p))]
        /\ UNCHANGED <<gen, entry, was, trouble>>
    BY DEF StageFile, Does
  <1>2. p \in Orderly => Dir(p) = sess[p].lock
    BY <1>1, OwnDir DEF Does
  <1>3. /\ Typed /\ sess[p] \in SessTypes /\ HoldsLock(p)
        /\ Dir(p) \in 1..Len(dirs) /\ dirs[Dir(p)] \in DirTypes /\ dirs \in Seq(DirTypes)
        /\ Step(p) \in 1..9 /\ sess[p].op \in {"fetch", "push"} /\ sess[p].cur \in Gens
        /\ Head(sess[p].todo) = Plan(sess[p].op)[Step(p)] /\ Target(p) \in Files
        /\ p \in Orderly => Reached(dirs[Dir(p)], sess[p], Step(p))
        /\ trouble \in Nat
        /\ \A f \in Files : dirs[Dir(p)].now[f] \in dirs[Dir(p)].may[f]
    BY <1>1, <1>2, AtFile
  <1>4. PICK dir \in DirTypes, f \in Files, c \in {Content(p, Target(p))} :
            dir = dirs[Dir(p)] /\ f = Target(p)
    BY <1>3
  <1>5. /\ f = "generation" => c = {sess[p].cur}
        /\ f = "repoid" => c = {1}
        /\ f = "applied" => c = sess[p].read \cup
              IF sess[p].op = "fetch" THEN 1..sess[p].cur ELSE {sess[p].cur}
    BY <1>4 DEF Content
  <1>6. f = "applied" => sess[p].cur \in c
    <2>1. sess[p].cur \in 1..sess[p].cur
      BY <1>3, BoundsAssumption DEF Gens
    <2>2. QED BY <1>5, <2>1
  <1>7. c \in Contents
    <2>1. PICK n \in Nat : n = MaxGen
      BY BoundsAssumption
    <2>2. /\ sess[p].read \in Contents /\ Contents = SUBSET (0..(n + 1))
          /\ sess[p].cur \in 1..n
      BY <1>3, <2>1 DEF SessTypes, Contents, Gens
    <2>3. /\ {sess[p].cur} \subseteq 0..(n + 1) /\ 1..sess[p].cur \subseteq 0..(n + 1)
          /\ {1} \subseteq 0..(n + 1)
      BY <2>2
    <2>4. f \in {"generation", "repoid", "applied"}
      BY DEF Files
    <2>5. QED BY <1>5, <2>2, <2>3, <2>4
  <1>8. PICK nd \in DirTypes : nd = [dir EXCEPT !.tmp[f] = c]
    BY <1>7 DEF DirTypes
  <1>9. nd.scratch = dir.scratch /\ nd.now = dir.now /\ nd.may = dir.may /\ dir.scratch
    BY <1>4, <1>8 DEF DirTypes
  <1>10. dirs' = [dirs EXCEPT ![Dir(p)] = nd] /\ dirs'[Dir(p)] = nd
    BY <1>1, <1>3, <1>4, <1>8
  <1>11. Plan(sess[p].op)[Step(p)][1] = "stage" /\ f = Plan(sess[p].op)[Step(p)][2]
    BY <1>1, <1>3, <1>4 DEF Target
  <1>12. Step(p) # 9
    BY <1>3, <1>11, Sorts
  <1>13. /\ After(p) \in SessTypes /\ After(p).lock = sess[p].lock /\ After(p).pc \in Holding
         /\ Planned(p)' /\ sess' = [sess EXCEPT ![p] = After(p)]
    BY <1>1, <1>3, <1>12, Advances DEF Holding
  <1>14. ASSUME p \in Orderly PROVE Part(p)'
    <2>1. Reached(nd, sess[p], Step(p) + 1)
      <3>1. PICK k \in 1..9, s \in SessTypes : k = Step(p) /\ s = sess[p]
        BY <1>3
      <3>2. Reached([dir EXCEPT !.tmp[f] = c], s, k + 1)
        BY <1>3, <1>4, <1>5, <1>6, <1>11, <1>14, <3>1, StageReached
      <3>3. QED BY <1>8, <3>1, <3>2
    <2>2. QED BY <1>1, <1>2, <1>10, <1>12, <1>14, <2>1, GoesOn
  <1>15. QED BY <1>1, <1>2, <1>3, <1>4, <1>9, <1>10, <1>13, <1>14, FileStep

\* Renaming a file into place.
LEMMA RenameStep ==
    ASSUME DirsInv, NEW p \in Procs, RenameFile(p), Dir(p) # 0, dirs[Dir(p)].tmp[Target(p)] # {}
    PROVE  DirsInv'
  <1>1. /\ sess[p].pc = "work" /\ Head(sess[p].todo)[1] = "rename" /\ Advance(p)
        /\ dirs' = [dirs EXCEPT
                       ![Dir(p)].now[Target(p)] = dirs[Dir(p)].tmp[Target(p)],
                       ![Dir(p)].may[Target(p)] = @ \cup {dirs[Dir(p)].tmp[Target(p)]},
                       ![Dir(p)].tmp[Target(p)] = {}]
        /\ UNCHANGED <<gen, entry, was, trouble>>
    BY DEF RenameFile, Does
  <1>2. p \in Orderly => Dir(p) = sess[p].lock
    BY <1>1, OwnDir DEF Does
  <1>3. /\ Typed /\ sess[p] \in SessTypes /\ HoldsLock(p)
        /\ Dir(p) \in 1..Len(dirs) /\ dirs[Dir(p)] \in DirTypes /\ dirs \in Seq(DirTypes)
        /\ Step(p) \in 1..9 /\ sess[p].op \in {"fetch", "push"} /\ sess[p].cur \in Gens
        /\ Head(sess[p].todo) = Plan(sess[p].op)[Step(p)] /\ Target(p) \in Files
        /\ p \in Orderly => Reached(dirs[Dir(p)], sess[p], Step(p))
        /\ trouble \in Nat
        /\ \A f \in Files : dirs[Dir(p)].now[f] \in dirs[Dir(p)].may[f]
        /\ ~dirs[Dir(p)].scratch => dirs[Dir(p)].tmp = Blank
    BY <1>1, <1>2, AtFile
  <1>4. PICK dir \in DirTypes, f \in Files : dir = dirs[Dir(p)] /\ f = Target(p)
    BY <1>3
  <1>5. PICK x \in Contents, y \in SUBSET Contents :
            x = dir.tmp[f] /\ y = dir.may[f] \cup {dir.tmp[f]} /\ x # {}
    <2>1. dir.tmp[f] \in Contents /\ dir.may[f] \cup {dir.tmp[f]} \in SUBSET Contents
      BY DEF DirTypes
    <2>2. dir.tmp[f] # {}
      BY <1>4
    <2>3. QED BY <2>1, <2>2
  <1>6. PICK nd \in DirTypes : nd = [dir EXCEPT !.now[f] = x, !.may[f] = y, !.tmp[f] = {}]
    <2>1. {} \in Contents
      BY DEF Contents
    <2>2. QED BY <2>1 DEF DirTypes
  <1>7. /\ nd.scratch = dir.scratch
        /\ nd.now = [dir.now EXCEPT ![f] = x]
        /\ nd.may = [dir.may EXCEPT ![f] = y]
        /\ nd.tmp = [dir.tmp EXCEPT ![f] = {}]
    BY <1>6 DEF DirTypes
  <1>8. dirs' = [dirs EXCEPT ![Dir(p)] = nd] /\ dirs'[Dir(p)] = nd
    <2> DEFINE e == [dir EXCEPT !.now[f] = dir.tmp[f],
                                !.may[f] = @ \cup {dir.tmp[f]}, !.tmp[f] = {}]
    <2>1. dirs' = [dirs EXCEPT ![Dir(p)] =
                     [dirs[Dir(p)] EXCEPT
                         !.now[Target(p)] = dirs[Dir(p)].tmp[Target(p)],
                         !.may[Target(p)] = @ \cup {dirs[Dir(p)].tmp[Target(p)]},
                         !.tmp[Target(p)] = {}]]
      BY <1>1
    <2>2. dirs' = [dirs EXCEPT ![Dir(p)] = e]
      BY <1>4, <2>1
    <2>3. e = nd
      BY <1>5, <1>6 DEF DirTypes
    <2> HIDE DEF e
    <2>4. dirs' = [dirs EXCEPT ![Dir(p)] = nd]
      BY <2>2, <2>3, Zenon
    <2>5. QED BY <1>3, <2>4
  <1>9. \A g \in Files : nd.now[g] \in nd.may[g]
    <2>1. ASSUME NEW g \in Files PROVE nd.now[g] \in nd.may[g]
      <3>1. /\ dir.now[g] \in dir.may[g] /\ dir.now \in [Files -> Contents]
            /\ dir.may \in [Files -> SUBSET Contents]
        BY <1>3, <1>4 DEF DirTypes
      <3>2. CASE g = f
        BY <1>5, <1>7, <3>1, <3>2
      <3>3. CASE g # f
        BY <1>7, <3>1, <3>3
      <3>4. QED BY <3>2, <3>3
    <2>2. QED BY <2>1
  <1>10. ~nd.scratch => nd.tmp = Blank
    <2>1. ~nd.scratch => dir.tmp = Blank
      BY <1>3, <1>4, <1>7
    <2>2. QED BY <1>5, <2>1 DEF Blank
  <1>11. Plan(sess[p].op)[Step(p)][1] = "rename" /\ f = Plan(sess[p].op)[Step(p)][2]
    BY <1>1, <1>3, <1>4 DEF Target
  <1>12. Step(p) # 9
    BY <1>3, <1>11, Sorts
  <1>13. /\ After(p) \in SessTypes /\ After(p).lock = sess[p].lock /\ After(p).pc \in Holding
         /\ Planned(p)' /\ sess' = [sess EXCEPT ![p] = After(p)]
    BY <1>1, <1>3, <1>12, Advances DEF Holding
  <1>14. ASSUME p \in Orderly PROVE Part(p)'
    <2>1. Reached(nd, sess[p], Step(p) + 1)
      <3>1. PICK k \in 1..9, s \in SessTypes : k = Step(p) /\ s = sess[p]
        BY <1>3
      <3>2. Renamed(dir, nd, f)
        BY <1>5, <1>7 DEF DirTypes, Renamed
      <3>3. Plan(s.op)[k][1] = "rename" /\ f = Plan(s.op)[k][2] /\ Reached(dir, s, k)
        BY <1>3, <1>4, <1>11, <1>14, <3>1
      <3>4. Reached(nd, s, k + 1)
        BY <1>3, <3>1, <3>2, <3>3, RenameReached
      <3>5. QED BY <3>1, <3>4
    <2>2. QED BY <1>1, <1>2, <1>8, <1>12, <1>14, <2>1, GoesOn
  <1>15. QED BY <1>1, <1>2, <1>3, <1>4, <1>7, <1>8, <1>9, <1>10, <1>13, <1>14, FileStep

\* Syncing the directory.
LEMMA SyncStep ==
    ASSUME DirsInv, NEW p \in Procs, SyncDir(p), Dir(p) # 0
    PROVE  DirsInv'
  <1>1. /\ sess[p].pc = "work" /\ Head(sess[p].todo)[1] = "sync" /\ Advance(p)
        /\ dirs' = [dirs EXCEPT ![Dir(p)].may = [f \in Files |-> {dirs[Dir(p)].now[f]}]]
        /\ UNCHANGED <<gen, entry, was, trouble>>
    BY DEF SyncDir, Does
  <1>2. p \in Orderly => Dir(p) = sess[p].lock
    BY <1>1, OwnDir DEF Does
  <1>3. /\ Typed /\ sess[p] \in SessTypes /\ HoldsLock(p)
        /\ Dir(p) \in 1..Len(dirs) /\ dirs[Dir(p)] \in DirTypes /\ dirs \in Seq(DirTypes)
        /\ Step(p) \in 1..9 /\ sess[p].op \in {"fetch", "push"}
        /\ Head(sess[p].todo) = Plan(sess[p].op)[Step(p)]
        /\ p \in Orderly => Reached(dirs[Dir(p)], sess[p], Step(p))
        /\ trouble \in Nat
        /\ ~dirs[Dir(p)].scratch => dirs[Dir(p)].tmp = Blank
    BY <1>1, <1>2, AtFile
  <1>4. PICK dir \in DirTypes : dir = dirs[Dir(p)]
    BY <1>3
  <1>5. PICK m \in [Files -> SUBSET Contents] : m = [f \in Files |-> {dirs[Dir(p)].now[f]}]
    <2>1. \A f \in Files : {dir.now[f]} \in SUBSET Contents
      BY DEF DirTypes
    <2>2. \A f \in Files : {dirs[Dir(p)].now[f]} \in SUBSET Contents
      BY <1>4, <2>1
    <2>3. QED BY <2>2
  <1>6. PICK nd \in DirTypes : nd = [dir EXCEPT !.may = m]
    BY DEF DirTypes
  <1>7. /\ nd.scratch = dir.scratch /\ nd.now = dir.now /\ nd.tmp = dir.tmp
        /\ nd.may = [f \in Files |-> {dir.now[f]}]
    BY <1>4, <1>5, <1>6 DEF DirTypes
  <1>8. dirs' = [dirs EXCEPT ![Dir(p)] = nd] /\ dirs'[Dir(p)] = nd
    <2>1. dirs' = [dirs EXCEPT ![Dir(p)].may = m]
      BY <1>1, <1>5
    <2>2. QED BY <1>3, <1>4, <1>6, <2>1
  <1>9. \A f \in Files : nd.now[f] \in nd.may[f]
    BY <1>7
  <1>10. /\ After(p) \in SessTypes /\ After(p).lock = sess[p].lock /\ After(p).pc \in Holding
         /\ After(p).pc = "work" => Planned(p)'
         /\ sess' = [sess EXCEPT ![p] = After(p)]
    BY <1>1, <1>3, Advances DEF Holding
  <1>11. ASSUME p \in Orderly PROVE Part(p)'
    <2>1. PICK k \in 1..9, s \in SessTypes : k = Step(p) /\ s = sess[p]
      BY <1>3
    <2>2. Plan(s.op)[k][1] = "sync" /\ Reached(dir, s, k) /\ s.op \in {"fetch", "push"}
      BY <1>1, <1>3, <1>4, <1>11, <2>1
    <2>3. Reached(nd, s, k + 1) /\ (k = 9 => Durable(nd, s))
      BY <1>7, <2>2, SyncReached, ZenonT(30)
    <2>4. /\ Reached(dirs'[Dir(p)], sess[p], Step(p) + 1)
          /\ Step(p) = 9 => Durable(dirs'[Dir(p)], sess[p])
      BY <1>8, <2>1, <2>3, Zenon
    <2>5. QED BY <1>1, <1>2, <1>11, <2>4, GoesOn
  <1>12. ~nd.scratch => nd.tmp = Blank
    BY <1>3, <1>4, <1>7
  <1>13. QED BY <1>1, <1>2, <1>3, <1>4, <1>7, <1>8, <1>9, <1>10, <1>11, <1>12, FileStep

\* At a stage step the pins in the directory are the old ones or the new ones.
LEMMA PairAtStage ==
    ASSUME DirsInv, NEW p \in Procs, p \in Orderly, Does(p, "stage"), Dir(p) # 0,
           Dir(p) = sess[p].lock
    PROVE  Pins(dirs[Dir(p)]) \in {sess[p].before, Both(sess[p])}
  <1>1. /\ sess[p] \in SessTypes /\ dirs[Dir(p)] \in DirTypes
        /\ Step(p) \in 1..9 /\ sess[p].op \in {"fetch", "push"} /\ sess[p].cur \in Gens
        /\ Plan(sess[p].op)[Step(p)][1] = "stage"
        /\ Reached(dirs[Dir(p)], sess[p], Step(p))
    BY AtFile DEF Does
  <1>2. PICK dir \in DirTypes, s \in SessTypes, k \in 1..9 :
            dir = dirs[Dir(p)] /\ s = sess[p] /\ k = Step(p)
    BY <1>1
  <1>3. PICK j \in Int, i \in Int : j = PinsAt(s.op, k) /\ i = RecordAt(s.op, k)
    BY <1>1, <1>2, Counts
  <1>4. PinsReached(dir, s, j)
    BY <1>1, <1>2, <1>3 DEF Reached
  <1>5. j <= 3 \/ j >= 5
    <2>1. j = 1 \/ j = 2 \/ i = 2
      BY <1>1, <1>2, <1>3, Sorts
    <2>2. j = i + 5 \/ j = i - 4
      BY <1>1, <1>2, <1>3, Counts
    <2>3. QED BY <2>1, <2>2
  <1>6. CASE j <= 3
    BY <1>2, <1>4, <1>6 DEF PinsReached
  <1>7. CASE j >= 5
    <2>1. dir.now["generation"] = {s.cur} /\ dir.now["repoid"] = {1}
      BY <1>4, <1>7 DEF PinsReached
    <2>2. Pins(dir) = Both(s)
      BY <2>1, PairIs
    <2>3. QED BY <1>2, <2>2
  <1>8. QED BY <1>5, <1>6, <1>7

\* An error changes nothing of an orderly session but that it is over.
LEMMA Fails ==
    ASSUME DirsInv, NEW p \in Procs, Goto(p, "failed")
    PROVE  \E s \in SessTypes :
              /\ sess' = [sess EXCEPT ![p] = s] /\ sess'[p] = s
              /\ s.lock = sess[p].lock /\ s.pc = "failed"
              /\ s.before = sess[p].before /\ Both(s) = Both(sess[p])
  <1>1. "failed" \in Pcs /\ Typed /\ sess \in [Procs -> SessTypes]
    BY DEF Pcs, Holding, DirsInv, Typed
  <1>2. PICK s \in SessTypes :
            /\ sess' = [sess EXCEPT ![p] = s] /\ s.pc = "failed" /\ s.lock = sess[p].lock
            /\ s.cur = sess[p].cur /\ s.before = sess[p].before
    BY <1>1, GotoStep
  <1>3. sess'[p] = s /\ Both(s) = Both(sess[p])
    BY <1>1, <1>2 DEF Both
  <1>4. QED BY <1>2, <1>3

\* The disk is full.
LEMMA FullStep ==
    ASSUME DirsInv, NEW p \in Procs, DiskFull(p)
    PROVE  DirsInv'
  <1>1. /\ sess[p].pc = "work" /\ Does(p, "stage") /\ Goto(p, "failed")
        /\ Dir(p) # 0 /\ dirs[Dir(p)].scratch
        /\ dirs' = [dirs EXCEPT ![Dir(p)].tmp[Target(p)] = Torn]
        /\ trouble' = trouble + 1 /\ UNCHANGED <<gen, entry, was>>
    BY DEF DiskFull, Does, Trouble
  <1>2. ~Does(p, "read")
    BY <1>1 DEF Does
  <1>3. p \in Orderly => Dir(p) = sess[p].lock
    BY <1>1, <1>2, OwnDir
  <1>4. /\ sess[p] \in SessTypes /\ HoldsLock(p)
        /\ Dir(p) \in 1..Len(dirs) /\ dirs[Dir(p)] \in DirTypes /\ dirs \in Seq(DirTypes)
        /\ Target(p) \in Files /\ trouble \in Nat
        /\ \A f \in Files : dirs[Dir(p)].now[f] \in dirs[Dir(p)].may[f]
    BY <1>1, AtFile
  <1>5. PICK dir \in DirTypes, f \in Files : dir = dirs[Dir(p)] /\ f = Target(p)
    BY <1>4
  <1>6. Torn \in Contents
    BY BoundsAssumption DEF Torn, Contents
  <1>7. PICK nd \in DirTypes : nd = [dir EXCEPT !.tmp[f] = Torn]
    BY <1>6 DEF DirTypes
  <1>8. nd.scratch = dir.scratch /\ nd.now = dir.now /\ nd.may = dir.may /\ dir.scratch
    BY <1>1, <1>5, <1>7 DEF DirTypes
  <1>9. dirs' = [dirs EXCEPT ![Dir(p)] = nd] /\ dirs'[Dir(p)] = nd
    <2>1. dirs' = [dirs EXCEPT ![Dir(p)] = [dirs[Dir(p)] EXCEPT !.tmp[Target(p)] = Torn]]
      BY <1>1
    <2>2. [dirs[Dir(p)] EXCEPT !.tmp[Target(p)] = Torn] = nd
      BY <1>5, <1>7
    <2>3. dirs' = [dirs EXCEPT ![Dir(p)] = nd]
      BY <2>1, <2>2, Zenon
    <2>4. QED BY <1>4, <2>3
  <1>10. PICK s \in SessTypes :
            /\ sess' = [sess EXCEPT ![p] = s] /\ sess'[p] = s
            /\ s.lock = sess[p].lock /\ s.pc = "failed"
            /\ s.before = sess[p].before /\ Both(s) = Both(sess[p])
    BY <1>1, Fails
  <1>11. ASSUME p \in Orderly PROVE Part(p)'
    <2>1. Pins(dir) \in {sess[p].before, Both(sess[p])}
      BY <1>1, <1>3, <1>5, <1>11, PairAtStage
    <2>2. Pins(nd) = Pins(dir)
      BY <1>8 DEF Pins
    <2>3. Pins(dirs'[Dir(p)]) \in {sess'[p].before, Both(sess'[p])}
      BY <1>9, <1>10, <2>1, <2>2
    <2>4. Dir(p)' = Dir(p)
      BY <1>1 DEF Dir
    <2>5. Pins(dirs[Dir(p)])' = Pins(dirs'[Dir(p)])
      BY <2>4 DEF Pins
    <2>6. QED BY <1>10, <2>3, <2>5 DEF Part, Both
  <1>12. trouble' \in Nat /\ s.pc \in Holding /\ s.pc # "work"
    BY <1>1, <1>4, <1>10 DEF Holding
  <1>13. QED BY <1>1, <1>3, <1>4, <1>5, <1>8, <1>9, <1>10, <1>11, <1>12, FileStep

-----------------------------------------------------------------------------
(* Steps of a session with its lock that change no file *)

\* A session under its lock goes on with the same lock.
LEMMA HeldStep ==
    ASSUME DirsInv, NEW p \in Procs, HoldsLock(p), NEW s \in SessTypes,
           sess' = [sess EXCEPT ![p] = s], s.lock = sess[p].lock,
           UNCHANGED <<entry, was, dirs, trouble>>, gen' \in 0..MaxGen,
           s.pc = "work" => Planned(p)', p \in Orderly => Part(p)'
    PROVE  DirsInv'
  <1>1. s.lock <= Len(dirs) /\ trouble' \in Nat /\ Locked(p)
    BY DEF DirsInv, Typed, Locked
  <1>2. QED BY <1>1, SessionStep

\* A session that ends.
LEMMA EndStep ==
    ASSUME DirsInv, NEW p \in Procs, HoldsLock(p), End(p),
           UNCHANGED <<gen, entry, was, dirs, trouble>>
    PROVE  DirsInv'
  <1>1. /\ Idle \in SessTypes /\ Idle.pc = "idle" /\ Idle.lock = 0 /\ Len(dirs) \in Nat
        /\ sess \in [Procs -> SessTypes] /\ trouble \in Nat /\ gen \in 0..MaxGen
    BY SessType DEF DirsInv, Typed
  <1>2. PICK s \in SessTypes : s = Idle
    BY <1>1
  <1>3. s.pc = "idle" /\ s.lock <= Len(dirs) /\ sess' = [sess EXCEPT ![p] = s] /\ sess'[p] = s
    BY <1>1, <1>2 DEF End
  <1>4. Part(p)'
    BY <1>3, Resting
  <1>5. QED BY <1>1, <1>3, <1>4, SessionStep DEF Holding

\* A session under its lock that only goes on to another point, and to an error only
\* if its directory has disappeared or the pins in it are a pair.
LEMMA OnStep ==
    ASSUME DirsInv, NEW p \in Procs, HoldsLock(p), NEW x \in {"ready", "load", "failed"},
           Goto(p, x), UNCHANGED <<gen, entry, was, dirs, trouble>>,
           p \in Orderly /\ x = "failed" /\ Dir(p) = sess[p].lock =>
               Pins(dirs[Dir(p)]) \in {sess[p].before, Both(sess[p])}
    PROVE  DirsInv'
  <1>1. /\ Typed /\ x \in Pcs /\ sess \in [Procs -> SessTypes] /\ gen' \in 0..MaxGen
    BY DEF DirsInv, Typed, Pcs, Holding
  <1>2. PICK s \in SessTypes :
            /\ sess' = [sess EXCEPT ![p] = s] /\ s.pc = x /\ s.lock = sess[p].lock
            /\ s.cur = sess[p].cur /\ s.before = sess[p].before
    BY <1>1, GotoStep
  <1>3. sess'[p] = s /\ s.pc # "work"
    BY <1>1, <1>2
  <1>4. Dir(p)' = Dir(p) /\ Pins(dirs[Dir(p)])' = Pins(dirs[Dir(p)])
    BY DEF Dir, Pins
  <1>5. p \in Orderly => Part(p)'
    <2>1. CASE x # "failed"
      BY <1>2, <1>3, <2>1, Resting
    <2>2. CASE x = "failed"
      BY <1>2, <1>3, <1>4, <2>2 DEF Part, Both
    <2>3. QED BY <2>1, <2>2
  <1>6. QED BY <1>1, <1>2, <1>3, <1>5, HeldStep

\* Loading the remote's state.
LEMMA LoadStep ==
    ASSUME DirsInv, NEW p \in Procs, Load(p)
    PROVE  DirsInv'
  <1>1. /\ Typed /\ sess[p] \in SessTypes /\ sess \in [Procs -> SessTypes] /\ gen \in 0..MaxGen
    BY SessType DEF DirsInv, Typed
  <1>2. HoldsLock(p) /\ UNCHANGED <<gen, entry, was, dirs, trouble>>
    BY DEF Load, HoldsLock, Holding
  <1>3. CASE End(p)
    BY <1>2, <1>3, EndStep
  <1>4. CASE sess' = [sess EXCEPT ![p].pc = "ready", ![p].cur = gen]
    <2>1. PICK s \in SessTypes : s = [sess[p] EXCEPT !.pc = "ready", !.cur = gen]
      BY <1>1 DEF SessTypes, Pcs, Holding
    <2>2. s.pc = "ready" /\ s.lock = sess[p].lock
      BY <1>1, <2>1 DEF SessTypes
    <2>3. sess' = [sess EXCEPT ![p] = s] /\ sess'[p] = s
      BY <1>1, <1>4, <2>1
    <2>4. Part(p)'
      BY <2>2, <2>3, Resting
    <2>5. QED BY <1>1, <1>2, <2>2, <2>3, <2>4, HeldStep
  <1>5. QED BY <1>3, <1>4 DEF Load

\* The next batch.
LEMMA BatchStep ==
    ASSUME DirsInv, NEW p \in Procs, NextBatch(p)
    PROVE  DirsInv'
  <1>1. /\ HoldsLock(p) /\ UNCHANGED <<gen, entry, was, dirs, trouble>> /\ Goto(p, "ready")
    BY DEF NextBatch, HoldsLock, Holding
  <1>2. QED BY <1>1, OnStep

\* A push that starts nothing.
LEMMA RefusedStep ==
    ASSUME DirsInv, NEW p \in Procs, PushFails(p)
    PROVE  DirsInv'
  <1>1. HoldsLock(p) /\ UNCHANGED <<gen, entry, was, dirs, trouble>> /\ sess[p].lock # 0
    BY DEF PushFails, HoldsLock, Holding, DirsInv, Placed, Locked
  <1>2. (Dir(p) = 0 /\ Goto(p, "failed")) \/ Goto(p, "load")
    BY DEF PushFails
  <1>3. QED BY <1>1, <1>2, OnStep

\* What a session reads of its directory.
LEMMA Found ==
    ASSUME Typed, NEW p \in Procs
    PROVE  /\ \A f \in Files : File(p, f) \in Contents
           /\ PinsFound(p) \in [PinFiles -> Contents]
           /\ Dir(p) # 0 => PinsFound(p) = Pins(dirs[Dir(p)])
  <1>1. ASSUME NEW f \in Files PROVE File(p, f) \in Contents
    <2>1. CASE Dir(p) = 0
      BY <2>1 DEF File, Contents
    <2>2. CASE Dir(p) # 0
      <3>1. PICK dir \in DirTypes : dir = dirs[Dir(p)]
        BY <2>2, SessType
      <3>2. dir.now[f] \in Contents
        BY DEF DirTypes
      <3>3. QED BY <2>2, <3>1, <3>2 DEF File
    <2>3. QED BY <2>1, <2>2
  <1>2. PinsFound(p) \in [PinFiles -> Contents]
    BY <1>1 DEF PinsFound, PinFiles, Files
  <1>3. Dir(p) # 0 => PinsFound(p) = Pins(dirs[Dir(p)])
    BY DEF PinsFound, Pins, File
  <1>4. QED BY <1>1, <1>2, <1>3

\* The record before a save is read.
LEMMA ReadStep ==
    ASSUME DirsInv, NEW p \in Procs, ReadFile(p)
    PROVE  DirsInv'
  <1>1. /\ Typed /\ sess[p] \in SessTypes /\ sess \in [Procs -> SessTypes]
        /\ gen \in 0..MaxGen
    BY SessType DEF DirsInv, Typed
  <1>2. /\ sess[p].pc = "work" /\ HoldsLock(p)
        /\ UNCHANGED <<gen, entry, was, dirs, trouble>>
        /\ Dir(p)' = Dir(p) /\ Head(sess[p].todo)[1] = "read"
    BY DEF ReadFile, Does, HoldsLock, Holding, Dir
  <1>3. /\ Step(p) \in 1..9 /\ sess[p].op \in {"fetch", "push"} /\ sess[p].cur \in Gens
        /\ Head(sess[p].todo) = Plan(sess[p].op)[Step(p)]
        /\ Head(sess[p].todo) \in Steps
        /\ Tail(sess[p].todo) = SubSeq(Plan(sess[p].op), Step(p) + 1, 9)
        /\ Tail(sess[p].todo) \in Seq(Steps)
        /\ Len(Tail(sess[p].todo)) = 9 - Step(p)
    BY <1>1, <1>2, NextStep
  <1>4. Target(p) \in Files
    BY <1>3 DEF Target, Steps
  <1>5. PICK r \in Contents, t \in Seq(Steps) :
            r = File(p, Target(p)) /\ t = Tail(sess[p].todo)
    BY <1>1, <1>3, <1>4, Found
  <1>6. PICK s \in SessTypes : s = [sess[p] EXCEPT !.read = r, !.todo = t]
    BY <1>1 DEF SessTypes
  <1>7. /\ s.pc = "work" /\ s.lock = sess[p].lock /\ s.todo = t /\ s.op = sess[p].op
        /\ s.cur = sess[p].cur /\ s.before = sess[p].before
    BY <1>1, <1>2, <1>6 DEF SessTypes
  <1>8. sess' = [sess EXCEPT ![p] = s] /\ sess'[p] = s
    BY <1>1, <1>5, <1>6 DEF ReadFile
  <1>9. PICK k \in 1..9, op \in {"fetch", "push"} : k = Step(p) /\ op = sess[p].op
    BY <1>3
  <1>10. /\ RecordAt(op, k) = 1
         /\ \/ op = "push" /\ k = 6 /\ PinsAt(op, k) = 6
            \/ op = "fetch" /\ k = 1 /\ PinsAt(op, k) = -3
         /\ PinsAt(op, k + 1) = PinsAt(op, k) + 1 /\ RecordAt(op, k + 1) = 2
    <2>1. RecordAt(op, k) = 1
      <3>1. Plan(op)[k][1] = "read"
        BY <1>2, <1>3, <1>9
      <3>2. QED BY <3>1, Sorts
    <2>2. QED BY <2>1 DEF RecordAt, PinsAt
  <1>11. Step(p)' = k + 1 /\ k + 1 \in 1..9
    <2>1. Step(p)' = 10 - Len(sess'[p].todo)
      BY DEF Step
    <2>2. Len(sess'[p].todo) = 9 - k
      BY <1>3, <1>5, <1>7, <1>8, <1>9, Zenon
    <2>3. QED BY <1>10, <2>1, <2>2
  <1>12. Planned(p)'
    <2>1. s.todo = SubSeq(Plan(s.op), k + 1, 9)
      BY <1>3, <1>5, <1>7, <1>9, Zenon
    <2>2. QED BY <1>3, <1>7, <1>8, <1>11, <2>1 DEF Planned
  <1>13. ASSUME p \in Orderly PROVE Part(p)'
    <2>1. Working(p)
      BY <1>2, <1>13 DEF DirsInv, Part
    <2>2. Dir(p) \in {0, sess[p].lock} \/ k + 1 \in Beginnings(op)
      <3>1. Dir(p) \in {0, sess[p].lock} \/ k \in Beginnings(op)
        BY <1>9, <2>1 DEF Working
      <3>2. op = "push" => k \notin Beginnings(op)
        BY <1>10 DEF Beginnings
      <3>3. op = "fetch" => k + 1 \in Beginnings(op)
        BY <1>10 DEF Beginnings
      <3>4. QED BY <3>1, <3>2, <3>3
    <2>3. Dir(p) = sess[p].lock => Reached(dirs[Dir(p)], s, k + 1)
      <3>1. SUFFICES ASSUME Dir(p) = sess[p].lock PROVE Reached(dirs[Dir(p)], s, k + 1)
        OBVIOUS
      <3>2. PinsReached(dirs[Dir(p)], sess[p], PinsAt(op, k))
        BY <1>9, <2>1, <3>1 DEF Working, Reached
      <3>3. PinsReached(dirs[Dir(p)], s, PinsAt(op, k) + 1)
        BY <1>7, <1>10, <3>2 DEF PinsReached
      <3>4. RecordReached(dirs[Dir(p)], s, 2)
        BY DEF RecordReached
      <3>5. QED BY <1>7, <1>9, <1>10, <3>3, <3>4 DEF Reached
    <2>4. Working(p)'
      BY <1>2, <1>7, <1>8, <1>9, <1>11, <2>2, <2>3 DEF Working
    <2>5. QED BY <1>7, <1>8, <2>4 DEF Part
  <1>14. QED BY <1>1, <1>2, <1>7, <1>8, <1>12, <1>13, HeldStep

\* A fetch begins its file steps.
LEMMA FetchStep ==
    ASSUME DirsInv, NEW p \in Procs, Fetch(p)
    PROVE  DirsInv'
  <1>1. /\ Typed /\ Placed /\ sess[p] \in SessTypes /\ sess \in [Procs -> SessTypes]
        /\ gen \in 0..MaxGen
    BY SessType DEF DirsInv, Typed
  <1>2. /\ sess[p].pc = "ready" /\ sess[p].cur # 0 /\ HoldsLock(p) /\ sess[p].lock # 0
        /\ UNCHANGED <<gen, entry, was, dirs, trouble>> /\ Dir(p)' = Dir(p)
    <2>1. sess[p].pc = "ready" /\ HoldsLock(p)
      BY DEF Fetch, HoldsLock, Holding
    <2>2. QED BY <1>1, <2>1 DEF Fetch, Placed, Locked, Dir
  <1>3. PICK b \in [PinFiles -> Contents] :
            b = PinsFound(p) /\ (Dir(p) # 0 => b = Pins(dirs[Dir(p)]))
    BY <1>1, Found
  <1>4. PICK k \in {1, 5} :
            /\ sess' = [sess EXCEPT ![p].pc = "work", ![p].op = "fetch", ![p].before = b,
                                    ![p].todo = SubSeq(Plan("fetch"), k, 9)]
            /\ k = 5 => 1..sess[p].cur \subseteq File(p, "applied")
    <2>1. /\ Plan("fetch") \in Seq(Steps) /\ Len(Plan("fetch")) = 9
          /\ Plan("fetch") = MarkApplied \o SavePins
      BY Plans DEF Plan
    <2>2. SubSeq(Plan("fetch"), 1, 9) = MarkApplied \o SavePins
      <3>1. PICK s \in Seq(Steps) : s = Plan("fetch") /\ Len(s) = 9
        BY <2>1
      <3>2. SubSeq(s, 1, 9) = s
        BY <3>1, SubSeqFull
      <3>3. QED BY <2>1, <3>1, <3>2
    <2>3. SubSeq(Plan("fetch"), 5, 9) = <<>> \o SavePins
      <3>1. SubSeq(Plan("fetch"), 5, 9) = SavePins
        <4>1. PICK s \in Seq(Steps) : s = Plan("fetch")
          BY <2>1
        <4>2. /\ Len(s) = 9
              /\ s[5] = <<"stage", "generation">> /\ s[6] = <<"stage", "repoid">>
              /\ s[7] = <<"rename", "generation">> /\ s[8] = <<"rename", "repoid">>
              /\ s[9] = <<"sync", "generation">>
          BY <2>1, <4>1, Plans
        <4>3. \A i \in 5..9 : s[i] \in Steps
          BY <4>1, <4>2, ElementOfSeq
        <4>4. /\ SubSeq(s, 5, 9) \in Seq(Steps) /\ Len(SubSeq(s, 5, 9)) = 5
              /\ \A i \in 1..5 : SubSeq(s, 5, 9)[i] = s[5 + i - 1]
          BY <4>3, SubSeqProperties
        <4>5. PICK t \in Seq(Steps) : /\ t = SubSeq(s, 5, 9) /\ Len(t) = 5
                                      /\ \A i \in 1..5 : t[i] = s[5 + i - 1]
          BY <4>4
        <4>6. t[1] = s[5] /\ t[2] = s[6] /\ t[3] = s[7] /\ t[4] = s[8] /\ t[5] = s[9]
          BY <4>5
        <4>7. PICK u \in Seq(Steps) : u = SavePins
          <5>1. SavePins \in Seq(Steps)
            BY DEF SavePins, Steps, Kinds, Files
          <5>2. QED BY <5>1
        <4>8. Len(u) = 5 /\ \A i \in 1..5 : t[i] = u[i]
          BY <4>2, <4>6, <4>7 DEF SavePins
        <4>9. t = u
          BY <4>5, <4>8, SeqEqual
        <4>10. QED BY <4>1, <4>5, <4>7, <4>9
      <3>2. <<>> \o SavePins = SavePins
        BY DEF SavePins
      <3>3. QED BY <3>1, <3>2
    <2>4. CASE 1..sess[p].cur \subseteq File(p, "applied")
      <3>1. sess' = [sess EXCEPT ![p].pc = "work", ![p].op = "fetch", ![p].before = b,
                                 ![p].todo = SubSeq(Plan("fetch"), 5, 9)]
        BY <1>3, <2>3, <2>4 DEF Fetch
      <3>2. QED BY <2>4, <3>1
    <2>5. CASE ~(1..sess[p].cur \subseteq File(p, "applied"))
      <3>1. sess' = [sess EXCEPT ![p].pc = "work", ![p].op = "fetch", ![p].before = b,
                                 ![p].todo = SubSeq(Plan("fetch"), 1, 9)]
        BY <1>3, <2>2, <2>5 DEF Fetch
      <3>2. QED BY <3>1
    <2>6. QED BY <2>4, <2>5
  <1>5. /\ SubSeq(Plan("fetch"), k, 9) \in Seq(Steps) /\ Len(SubSeq(Plan("fetch"), k, 9)) = 10 - k
    BY Plans, Rest
  <1>6. PICK t \in Seq(Steps) : t = SubSeq(Plan("fetch"), k, 9) /\ Len(t) = 10 - k
    BY <1>5
  <1>7. PICK s \in SessTypes :
            s = [sess[p] EXCEPT !.pc = "work", !.op = "fetch", !.before = b, !.todo = t]
    BY <1>1 DEF SessTypes, Pcs
  <1>8. /\ s.pc = "work" /\ s.lock = sess[p].lock /\ s.todo = t /\ s.op = "fetch"
        /\ s.cur = sess[p].cur /\ s.before = b
    BY <1>1, <1>7 DEF SessTypes
  <1>9. sess' = [sess EXCEPT ![p] = s] /\ sess'[p] = s
    BY <1>1, <1>4, <1>6, <1>7
  <1>10. s.cur \in Gens
    BY <1>1, <1>2, <1>8, BoundsAssumption DEF SessTypes, Gens
  <1>11. Step(p)' = k
    BY <1>6, <1>8, <1>9 DEF Step
  <1>12. Planned(p)'
    BY <1>6, <1>8, <1>9, <1>10, <1>11 DEF Planned
  <1>13. Working(p)'
    <2>1. k \in Beginnings("fetch")
      BY DEF Beginnings
    <2>2. Dir(p) = sess[p].lock => Reached(dirs[Dir(p)], s, k)
      <3>1. SUFFICES ASSUME Dir(p) = sess[p].lock PROVE Reached(dirs[Dir(p)], s, k)
        OBVIOUS
      <3>2. Pins(dirs[Dir(p)]) = s.before
        BY <1>2, <1>3, <1>8, <3>1
      <3>3. PinsReached(dirs[Dir(p)], s, k - 4)
        BY <3>2 DEF PinsReached
      <3>4. k = 5 => s.cur \in dirs[Dir(p)].now["applied"]
        BY <1>2, <1>4, <1>8, <1>10, <3>1 DEF File, Gens
      <3>5. RecordReached(dirs[Dir(p)], s, k)
        BY <3>4 DEF RecordReached
      <3>6. QED BY <1>8, <3>3, <3>5 DEF Reached, PinsAt, RecordAt
    <2>3. QED BY <1>2, <1>8, <1>9, <1>11, <2>1, <2>2 DEF Working
  <1>14. Part(p)'
    BY <1>8, <1>9, <1>13 DEF Part
  <1>15. QED BY <1>1, <1>2, <1>8, <1>9, <1>12, <1>14, HeldStep

\* A push has moved the host and begins its file steps.
LEMMA PushStep ==
    ASSUME DirsInv, NEW p \in Procs, Push(p)
    PROVE  DirsInv'
  <1>1. /\ Typed /\ Placed /\ sess[p] \in SessTypes /\ sess \in [Procs -> SessTypes]
        /\ gen \in 0..MaxGen
    BY SessType DEF DirsInv, Typed
  <1>2. /\ sess[p].pc = "ready" /\ HoldsLock(p) /\ sess[p].lock # 0
        /\ UNCHANGED <<entry, was, dirs, trouble>> /\ Dir(p)' = Dir(p)
        /\ gen' = gen + 1 /\ gen + 1 \in Gens /\ gen' \in 0..MaxGen
    <2>1. sess[p].pc = "ready" /\ HoldsLock(p)
      BY DEF Push, HoldsLock, Holding
    <2>2. gen + 1 \in Gens /\ gen + 1 \in 0..MaxGen
      BY <1>1, BoundsAssumption DEF Push, Gens
    <2>3. QED BY <1>1, <2>1, <2>2 DEF Push, Placed, Locked, Dir
  <1>3. PICK b \in [PinFiles -> Contents] :
            b = PinsFound(p) /\ (Dir(p) # 0 => b = Pins(dirs[Dir(p)]))
    BY <1>1, Found
  <1>4. /\ Plan("push") \in Seq(Steps) /\ Len(Plan("push")) = 9
        /\ Plan("push") = SavePins \o MarkApplied
    BY Plans DEF Plan
  <1>5. PICK t \in Seq(Steps) : t = Plan("push") /\ Len(t) = 9 /\ t = SubSeq(Plan("push"), 1, 9)
    BY <1>4, Rest
  <1>6. PICK s \in SessTypes :
            s = [sess[p] EXCEPT !.pc = "work", !.op = "push", !.before = b, !.cur = gen + 1,
                                !.todo = t]
    <2>1. gen + 1 \in 0..MaxGen
      BY <1>2
    <2>2. QED BY <1>1, <2>1 DEF SessTypes, Pcs
  <1>7. /\ s.pc = "work" /\ s.lock = sess[p].lock /\ s.todo = t /\ s.op = "push"
        /\ s.cur = gen + 1 /\ s.before = b
    BY <1>1, <1>6 DEF SessTypes
  <1>8. sess' = [sess EXCEPT ![p] = s] /\ sess'[p] = s
    BY <1>1, <1>3, <1>4, <1>5, <1>6 DEF Push
  <1>9. Step(p)' = 1
    <2>1. Step(p)' = 10 - Len(sess'[p].todo)
      BY DEF Step
    <2>2. QED BY <1>5, <1>7, <1>8, <2>1
  <1>10. Planned(p)'
    <2>1. s.todo = SubSeq(Plan(s.op), 1, 9)
      BY <1>5, <1>7
    <2>2. s.op \in {"fetch", "push"} /\ s.cur \in Gens
      BY <1>2, <1>7
    <2>3. QED BY <1>8, <1>9, <2>1, <2>2 DEF Planned
  <1>11. Working(p)'
    <2>1. 1 \in Beginnings("push")
      BY DEF Beginnings
    <2>2. Dir(p) = sess[p].lock => Reached(dirs[Dir(p)], s, 1)
      <3>1. SUFFICES ASSUME Dir(p) = sess[p].lock PROVE Reached(dirs[Dir(p)], s, 1)
        OBVIOUS
      <3>2. Pins(dirs[Dir(p)]) = s.before
        BY <1>2, <1>3, <1>7, <3>1
      <3>3. PinsReached(dirs[Dir(p)], s, 1) /\ RecordReached(dirs[Dir(p)], s, -4)
        BY <3>2 DEF PinsReached, RecordReached
      <3>4. QED BY <1>7, <3>3 DEF Reached, PinsAt, RecordAt
    <2>3. QED BY <1>2, <1>7, <1>8, <1>9, <2>1, <2>2 DEF Working
  <1>12. Part(p)'
    BY <1>7, <1>8, <1>11 DEF Part
  <1>13. QED BY <1>1, <1>2, <1>7, <1>8, <1>10, <1>12, HeldStep

\* Every file step.
LEMMA WorkStep ==
    ASSUME DirsInv, NEW p \in Procs, StageFile(p) \/ RenameFile(p) \/ SyncDir(p)
    PROVE  DirsInv'
  <1>1. sess[p].pc = "work" /\ HoldsLock(p) /\ sess[p].lock # 0
    <2>1. sess[p].pc = "work"
      BY DEF StageFile, RenameFile, SyncDir, Does
    <2>2. QED BY <2>1 DEF DirsInv, Placed, Locked, HoldsLock, Holding
  <1>2. CASE StageFile(p)
    <2>1. CASE Dir(p) # 0 /\ dirs[Dir(p)].scratch
      BY <1>2, <2>1, StageStep
    <2>2. CASE ~(Dir(p) # 0 /\ dirs[Dir(p)].scratch)
      <3>1. Goto(p, "failed") /\ UNCHANGED <<gen, entry, was, dirs, trouble>> /\ Does(p, "stage")
        BY <1>2, <2>2 DEF StageFile
      <3>2. p \in Orderly /\ Dir(p) = sess[p].lock =>
                Pins(dirs[Dir(p)]) \in {sess[p].before, Both(sess[p])}
        BY <1>1, <3>1, PairAtStage
      <3>3. QED BY <1>1, <3>1, <3>2, OnStep
    <2>3. QED BY <2>1, <2>2
  <1>3. CASE RenameFile(p)
    <2>1. CASE Dir(p) # 0 /\ dirs[Dir(p)].tmp[Target(p)] # {}
      BY <1>3, <2>1, RenameStep
    <2>2. CASE ~(Dir(p) # 0 /\ dirs[Dir(p)].tmp[Target(p)] # {})
      <3>1. Goto(p, "failed") /\ UNCHANGED <<gen, entry, was, dirs, trouble>>
        BY <1>3, <2>2 DEF RenameFile
      <3>2. ~(p \in Orderly /\ Dir(p) = sess[p].lock)
        <4>1. SUFFICES ASSUME p \in Orderly, Dir(p) = sess[p].lock PROVE FALSE
          OBVIOUS
        <4>2. /\ sess[p] \in SessTypes /\ dirs[Dir(p)] \in DirTypes
              /\ Step(p) \in 1..9 /\ sess[p].op \in {"fetch", "push"}
              /\ Head(sess[p].todo) = Plan(sess[p].op)[Step(p)] /\ Target(p) \in Files
              /\ Reached(dirs[Dir(p)], sess[p], Step(p))
          BY <1>1, <4>1, AtFile
        <4>3. /\ Plan(sess[p].op)[Step(p)][1] = "rename"
              /\ Target(p) = Plan(sess[p].op)[Step(p)][2]
          BY <1>3, <4>2 DEF RenameFile, Does, Target
        <4>4. dirs[Dir(p)].tmp[Target(p)] # {}
          BY <4>2, <4>3, Staged
        <4>5. QED BY <1>1, <2>2, <4>1, <4>4
      <3>3. QED BY <1>1, <3>1, <3>2, OnStep
    <2>3. QED BY <2>1, <2>2
  <1>4. CASE SyncDir(p)
    <2>1. CASE Dir(p) # 0
      BY <1>4, <2>1, SyncStep
    <2>2. CASE Dir(p) = 0
      <3>1. Goto(p, "failed") /\ UNCHANGED <<gen, entry, was, dirs, trouble>>
        BY <1>4, <2>2 DEF SyncDir
      <3>2. QED BY <1>1, <2>2, <3>1, OnStep
    <2>3. QED BY <2>1, <2>2
  <1>5. QED BY <1>2, <1>3, <1>4

-----------------------------------------------------------------------------
(* Losing power, and every step *)

\* Paths that a power loss may leave lead to directories that were made.
LEMMA MadeBound ==
    ASSUME Typed, NEW e \in PathTypes
    PROVE  /\ Made(e) \in 0..Len(dirs)
           /\ e["named"] \in 0..Made(e) /\ e["hashed"] \in 0..Made(e)
  <1>1. Len(dirs) \in Nat /\ e["named"] \in 0..Len(dirs) /\ e["hashed"] \in 0..Len(dirs)
    BY DEF Typed, PathTypes, Paths
  <1>2. QED BY <1>1 DEF Made

\* After a power loss every file is one the disk may have had, and no session runs.
LEMMA PowerStep ==
    ASSUME DirsInv, PowerLoss
    PROVE  DirsInv'
  <1>1. /\ Typed /\ Placed /\ Len(dirs) \in Nat /\ dirs \in Seq(DirTypes)
        /\ \A d \in 1..Len(dirs) : dirs[d] \in DirTypes
    BY DEF DirsInv, Typed
  <1>2. /\ sess' = [p \in Procs |-> Idle] /\ gen' = gen /\ was' = {}
        /\ trouble' = trouble + 1 /\ entry' \in was \cup {entry}
    BY DEF PowerLoss, Trouble
  <1>3. entry' \in PathTypes /\ Apart(entry')
    BY <1>1, <1>2 DEF Typed, Placed
  <1>4. PICK n \in 0..Len(dirs) :
            /\ n = Made(entry') /\ entry'["named"] \in 0..n /\ entry'["hashed"] \in 0..n
    BY <1>1, <1>3, MadeBound
  <1>5. PICK v \in [1..n -> [Files -> Contents]] :
            dirs' = [d \in 1..n |->
                       [dirs[d] EXCEPT !.now = [f \in Files |-> v[d][f]],
                                       !.may = [f \in Files |-> {v[d][f]}], !.tmp = Blank]]
    <2> DEFINE U == {u \in (1..Len(dirs)) \X Files :
                        dirs[u[1]].may[u[2]] # {dirs[u[1]].now[u[2]]}}
               Left(d, f, pick) == IF <<d, f>> \in U THEN pick[<<d, f>>] ELSE dirs[d].now[f]
    <2>1. PICK pick \in [U -> UNION {dirs[u[1]].may[u[2]] : u \in U}] :
              /\ \A u \in U : pick[u] \in dirs[u[1]].may[u[2]]
              /\ dirs' = [d \in 1..n |->
                            [dirs[d] EXCEPT
                                !.now = [f \in Files |-> Left(d, f, pick)],
                                !.may = [f \in Files |-> {Left(d, f, pick)}],
                                !.tmp = Blank]]
      BY <1>4 DEF PowerLoss
    <2>2. ASSUME NEW d \in 1..n, NEW f \in Files
          PROVE  Left(d, f, pick) \in Contents
      <3>1. d \in 1..Len(dirs)
        BY <1>1, <1>4
      <3>2. dirs[d].now[f] \in dirs[d].may[f] /\ dirs[d].may[f] \subseteq Contents
        BY <1>1, <3>1 DEF Typed, DirTypes
      <3>3. <<d, f>> \in U => pick[<<d, f>>] \in dirs[d].may[f]
        BY <2>1
      <3>4. QED BY <3>2, <3>3
    <2> DEFINE w == [d \in 1..n |-> [f \in Files |-> Left(d, f, pick)]]
    <2>3. w \in [1..n -> [Files -> Contents]]
      BY <2>2
    <2>4. \A d \in 1..n : \A f \in Files : w[d][f] = Left(d, f, pick)
      OBVIOUS
    <2> HIDE DEF w, Left
    <2>5. \A d \in 1..n :
              /\ [f \in Files |-> Left(d, f, pick)] = [f \in Files |-> w[d][f]]
              /\ [f \in Files |-> {Left(d, f, pick)}] = [f \in Files |-> {w[d][f]}]
      BY <2>4
    <2>6. dirs' = [d \in 1..n |->
                     [dirs[d] EXCEPT !.now = [f \in Files |-> w[d][f]],
                                     !.may = [f \in Files |-> {w[d][f]}], !.tmp = Blank]]
      BY <2>1, <2>5, Zenon
    <2>7. QED BY <2>3, <2>6
  <1>6. ASSUME NEW d \in 1..n
        PROVE  /\ dirs'[d] \in DirTypes /\ dirs'[d].tmp = Blank
               /\ \A f \in Files : dirs'[d].now[f] \in dirs'[d].may[f]
    <2>1. PICK dir \in DirTypes, a \in [Files -> Contents], b \in [Files -> SUBSET Contents] :
              dir = dirs[d] /\ a = [f \in Files |-> v[d][f]] /\ b = [f \in Files |-> {v[d][f]}]
      <3>1. /\ [f \in Files |-> v[d][f]] \in [Files -> Contents]
            /\ [f \in Files |-> {v[d][f]}] \in [Files -> SUBSET Contents]
        OBVIOUS
      <3>2. d \in 1..Len(dirs)
        BY <1>1, <1>4
      <3>3. QED BY <1>1, <3>1, <3>2
    <2>2. dirs'[d] = [dir EXCEPT !.now = a, !.may = b, !.tmp = Blank]
      BY <1>5, <2>1
    <2>3. Blank \in [Files -> Contents]
      BY DEF Blank, Contents
    <2>4. PICK e \in DirTypes : e = [dir EXCEPT !.now = a, !.may = b, !.tmp = Blank]
      BY <2>3 DEF DirTypes
    <2>5. e.now = a /\ e.may = b /\ e.tmp = Blank
      BY <2>4 DEF DirTypes
    <2>6. \A f \in Files : a[f] \in b[f]
      BY <2>1
    <2>7. QED BY <2>2, <2>4, <2>5, <2>6
  <1>7. dirs' \in Seq(DirTypes) /\ Len(dirs') = n /\ n \in Nat
    <2>1. n \in Nat
      BY <1>1, <1>4
    <2>2. DOMAIN dirs' = 1..n
      BY <1>5
    <2>3. dirs' \in [1..n -> DirTypes]
      BY <1>5, <1>6, <2>2
    <2>4. QED BY <2>1, <2>3, IsASeq
  <1>8. Idle \in SessTypes /\ Idle.pc = "idle" /\ Idle.lock = 0
    <2>1. <<>> \in Seq(Steps) /\ NoPins \in [PinFiles -> Contents]
      BY EmptySeq DEF NoPins, PinFiles, Contents
    <2>2. 0 \in Nat /\ 0 \in 0..MaxGen /\ {} \in Contents
      BY BoundsAssumption DEF Contents
    <2>3. QED BY <2>1, <2>2 DEF Idle, SessTypes, Pcs
  <1>9. \A p \in Procs : sess'[p].pc = "idle" /\ sess'[p].lock = 0
    BY <1>2, <1>8
  <1>10. Typed'
    <2>1. sess' \in [Procs -> SessTypes]
      BY <1>2, <1>8
    <2>2. \A p \in Procs : sess'[p].lock <= Len(dirs')
      BY <1>7, <1>9
    <2>3. \A d \in 1..Len(dirs') : \A f \in Files : dirs'[d].now[f] \in dirs'[d].may[f]
      BY <1>6, <1>7
    <2>4. gen' \in 0..MaxGen /\ trouble' \in Nat
      BY <1>1, <1>2 DEF Typed
    <2>5. entry' \in PathTypes'
      <3>1. entry' \in [Paths -> 0..Len(dirs)]
        BY <1>3 DEF PathTypes
      <3>2. \A x \in Paths : entry'[x] \in 0..n
        BY <1>4 DEF Paths
      <3>3. PICK e \in [Paths -> 0..Len(dirs)] : e = entry'
        BY <3>1
      <3>4. e \in [Paths -> 0..n]
        BY <3>2, <3>3
      <3>5. QED BY <1>7, <3>3, <3>4 DEF PathTypes
    <2>6. QED BY <1>2, <1>7, <1>9, <2>1, <2>2, <2>3, <2>4, <2>5 DEF Typed
  <1>11. Placed'
    <2>1. \A p \in Procs : ~Locked(p)' /\ ~HoldsLock(p)'
      BY <1>9 DEF Locked, HoldsLock, Holding
    <2>2. Orderly \subseteq Procs
      BY DEF Orderly
    <2>3. QED BY <1>2, <1>3, <1>6, <1>7, <2>1, <2>2 DEF Placed, Apart
  <1>12. \A p \in Procs : Part(p)'
    BY <1>9, Resting
  <1>13. QED BY <1>10, <1>11, <1>12 DEF DirsInv, Orderly

\* The first state.
LEMMA DirsInit == Init => DirsInv
  <1> SUFFICES ASSUME Init PROVE DirsInv
    OBVIOUS
  <1>1. <<>> \in Seq(Steps) /\ NoPins \in [PinFiles -> Contents]
    BY EmptySeq DEF NoPins, PinFiles, Contents
  <1>2. 0 \in Nat /\ 0 \in 0..MaxGen /\ {} \in Contents
    BY BoundsAssumption DEF Contents
  <1>3. Idle \in SessTypes /\ Idle.pc = "idle" /\ Idle.lock = 0
    BY <1>1, <1>2 DEF Idle, SessTypes, Pcs
  <1>4. \A p \in Procs : sess[p].pc = "idle" /\ sess[p].lock = 0
    BY <1>3 DEF Init
  <1>5. dirs \in Seq(DirTypes) /\ Len(dirs) = 0 /\ 1..0 = {}
    BY EmptySeq DEF Init
  <1>6. Typed
    <2>1. gen \in 0..MaxGen /\ trouble \in Nat
      BY <1>2 DEF Init
    <2>2. entry \in PathTypes /\ was \subseteq PathTypes
      BY <1>5 DEF Init, PathTypes
    <2>3. sess \in [Procs -> SessTypes] /\ \A p \in Procs : sess[p].lock <= Len(dirs)
      BY <1>3, <1>4, <1>5 DEF Init
    <2>4. \A d \in 1..Len(dirs) : \A f \in Files : dirs[d].now[f] \in dirs[d].may[f]
      BY <1>5
    <2>5. QED BY <1>4, <1>5, <2>1, <2>2, <2>3, <2>4 DEF Typed
  <1>7. Placed
    <2>1. \A p \in Procs : ~Locked(p) /\ ~HoldsLock(p)
      BY <1>4 DEF Locked, HoldsLock, Holding
    <2>2. was = {} /\ entry["named"] = 0 /\ Orderly \subseteq Procs
      BY DEF Init, Paths, Orderly
    <2>3. QED BY <1>5, <2>1, <2>2 DEF Placed, Apart
  <1>8. \A p \in Procs : Part(p)
    BY <1>4 DEF Part
  <1>9. QED BY <1>6, <1>7, <1>8 DEF DirsInv, Orderly

\* Every step keeps the invariant.
LEMMA DirsNext == DirsInv /\ [Next]_vars => DirsInv'
  <1> SUFFICES ASSUME DirsInv, [Next]_vars PROVE DirsInv'
    OBVIOUS
  <1>1. CASE UNCHANGED vars
    <2>1. UNCHANGED <<gen, entry, was, dirs, sess, trouble>>
      BY <1>1 DEF vars
    <2>2. Typed'
      BY <2>1 DEF DirsInv, Typed, PathTypes, Planned, Step
    <2>3. Placed'
      BY <2>1 DEF DirsInv, Placed, Apart, Locked, HoldsLock, Moved, Dir
    <2>4. ASSUME NEW q \in Orderly PROVE Part(q)'
      <3>1. q \in Procs /\ Part(q) /\ Dir(q)' = Dir(q) /\ SameData(sess[q].lock)
        BY <2>1 DEF DirsInv, Dir, SameData, Orderly
      <3>2. QED BY <2>1, <3>1, PartFrame
    <2>5. QED BY <2>2, <2>3, <2>4 DEF DirsInv
  <1>2. ASSUME NEW p \in Procs, StatRoot(p) \/ StatHashed(p) \/ Close(p) \/ Kill(p)
        PROVE  DirsInv'
    BY <1>2, QuietSteps
  <1>3. ASSUME NEW p \in Procs, Adopt(p) PROVE DirsInv'
    BY <1>3, QuietSteps, AdoptStep
  <1>4. ASSUME NEW p \in Procs, MakeDir(p) \/ OpenBackend(p) PROVE DirsInv'
    BY <1>4, FoundStep, MadeStep
  <1>5. ASSUME NEW p \in Procs, OpenLock(p) PROVE DirsInv'
    BY <1>5, QuietSteps, OpenStep
  <1>6. ASSUME NEW p \in Procs, TakeLock(p) PROVE DirsInv'
    BY <1>6, TakeStep
  <1>7. ASSUME NEW p \in Procs, Load(p) \/ Fetch(p) \/ Push(p) \/ PushFails(p) PROVE DirsInv'
    BY <1>7, LoadStep, FetchStep, PushStep, RefusedStep
  <1>8. ASSUME NEW p \in Procs, ReadFile(p) \/ NextBatch(p) PROVE DirsInv'
    BY <1>8, ReadStep, BatchStep
  <1>9. ASSUME NEW p \in Procs, StageFile(p) \/ RenameFile(p) \/ SyncDir(p) PROVE DirsInv'
    BY <1>9, WorkStep
  <1>10. ASSUME NEW p \in Procs, DiskFull(p) PROVE DirsInv'
    BY <1>10, FullStep
  <1>11. CASE PowerLoss
    BY <1>11, PowerStep
  <1>12. QED BY <1>1, <1>2, <1>3, <1>4, <1>5, <1>6, <1>7, <1>8, <1>9, <1>10, <1>11 DEF Next

\* The invariant holds.
LEMMA DirsAlways == Spec => []DirsInv
  <1>1. Init => DirsInv
    BY DirsInit
  <1>2. DirsInv /\ [Next]_vars => DirsInv'
    BY DirsNext
  <1>3. QED BY <1>1, <1>2, PTL DEF Spec

-----------------------------------------------------------------------------
(* The theorems *)

\* The types: paths, directories, sessions and the steps they have left, for any
\* number of sessions that name the URL.
THEOREM DirTypesHold == Spec => []TypeOK
  <1>1. ASSUME DirsInv PROVE TypeOK
    <2>1. Typed
      BY <1>1 DEF DirsInv
    <2>2. ASSUME NEW p \in Procs
          PROVE  /\ sess[p].lock \in 0..Len(dirs) /\ sess[p].cur \in 0..MaxGen
                 /\ sess[p].pc = "work" => sess[p].todo # <<>>
      <3>1. sess[p].pc = "work" => sess[p].todo # <<>>
        <4>1. SUFFICES ASSUME sess[p].pc = "work" PROVE sess[p].todo # <<>>
          OBVIOUS
        <4>2. Step(p) \in 1..9 /\ Len(sess[p].todo) = 10 - Step(p)
          BY <2>1, <4>1, NextStep
        <4>3. Len(sess[p].todo) # 0
          BY <4>2
        <4>4. QED BY <4>3
      <3>2. sess[p] \in SessTypes /\ sess[p].lock <= Len(dirs) /\ Len(dirs) \in Nat
        BY <2>1 DEF Typed
      <3>3. QED BY <3>1, <3>2 DEF SessTypes
    <2>3. ASSUME NEW d \in 1..Len(dirs)
          PROVE  /\ dirs[d].scratch \in BOOLEAN
                 /\ \A f \in Files : /\ dirs[d].now[f] \in dirs[d].may[f]
                                     /\ dirs[d].may[f] \subseteq Contents
                                     /\ dirs[d].tmp[f] \in Contents
      <3>1. dirs[d] \in DirTypes /\ \A f \in Files : dirs[d].now[f] \in dirs[d].may[f]
        BY <2>1 DEF Typed
      <3>2. QED BY <3>1 DEF DirTypes
    <2>4. gen \in 0..MaxGen /\ entry \in PathTypes /\ was \subseteq PathTypes
      BY <2>1 DEF Typed
    <2>5. QED BY <2>2, <2>3, <2>4 DEF TypeOK, PathTypes
  <1>2. Spec => []DirsInv
    BY DirsAlways
  <1>3. DirsInv => TypeOK
    BY <1>1
  <1>4. QED BY <1>2, <1>3, PTL

\* A session of the remote under its lock has its directory to itself, however many
\* sessions name the URL and however often the directory is adopted, made or found
\* again while they wait.  Of two sessions that name the URL nothing is claimed: they
\* may work in one directory.
THEOREM RemoteSessionsSerialized == Spec => []RemoteSerialized
  <1>1. DirsInv => RemoteSerialized
    <2>1. SUFFICES ASSUME DirsInv, NEW p \in Named, NEW q \in Procs,
                          p # q, HoldsLock(p), HoldsLock(q), Dir(p) = Dir(q), Dir(p) # 0
                   PROVE  FALSE
      BY DEF RemoteSerialized
    <2>2. Typed /\ Placed /\ p \in Procs /\ p \notin Anonymous /\ p \in Orderly
      BY <2>1, ProcsAssumption DEF DirsInv, Procs, Orderly
    <2>3. Dir(p) = sess[p].lock /\ Dir(p) = entry["named"]
      BY <2>1, <2>2 DEF Placed, Locked, Moved, Dir, Home
    <2>4. CASE q \in Named
      <3>1. q \notin Anonymous /\ q \in Orderly
        BY <2>4, ProcsAssumption DEF Procs, Orderly
      <3>2. Dir(q) = sess[q].lock
        BY <2>1, <2>2, <3>1 DEF Placed, Locked, Moved
      <3>3. QED BY <2>1, <2>2, <2>3, <3>2 DEF Placed
    <2>5. CASE q \notin Named
      <3>1. Dir(q) = entry["hashed"] /\ Apart(entry)
        BY <2>2, <2>5 DEF Dir, Home, Placed
      <3>2. QED BY <2>1, <2>3, <3>1 DEF Apart
    <2>6. QED BY <2>4, <2>5
  <1>2. Spec => []DirsInv
    BY DirsAlways
  <1>3. QED BY <1>1, <1>2, PTL

\* Once git or the user is answered by an orderly session, no power loss takes back the
\* pins or the applied record in its directory, whatever sessions killed before left
\* unsynced.  The path to the directory may be lost: no session syncs what holds it.
THEOREM AnswersDurable == Spec => []AnsweredIsDurable
  <1>1. DirsInv => AnsweredIsDurable
    BY DEF DirsInv, Part, Durable, AnsweredIsDurable
  <1>2. Spec => []DirsInv
    BY DirsAlways
  <1>3. QED BY <1>1, <1>2, PTL

\* An orderly session that fails in the directory it has locked leaves the pair of pins
\* it found there or the pair it saves.  One whose directory is adopted may leave half
\* a pair: the run adopted shows it.
THEOREM FailuresKeepPair == Spec => []FailedSaveKeepsPair
  <1>1. DirsInv => FailedSaveKeepsPair
    <2>1. SUFFICES ASSUME DirsInv, NEW p \in Orderly,
                          sess[p].pc = "failed", Dir(p) = sess[p].lock
                   PROVE  PinsFound(p) \in
                              {sess[p].before,
                               [generation |-> {sess[p].cur}, repoid |-> {1}]}
      BY DEF FailedSaveKeepsPair
    <2>2. p \in Procs /\ Typed /\ Placed /\ Part(p) /\ Locked(p)
      BY <2>1 DEF DirsInv, Orderly, Locked, HoldsLock, Holding
    <2>3. Dir(p) # 0
      BY <2>1, <2>2 DEF Placed
    <2>4. PinsFound(p) = Pins(dirs[Dir(p)])
      BY <2>2, <2>3, Found
    <2>5. QED BY <2>1, <2>2, <2>4 DEF Part, Both
  <1>2. Spec => []DirsInv
    BY DirsAlways
  <1>3. QED BY <1>1, <1>2, PTL

=============================================================================
