----------------------------- MODULE MCMachine -----------------------------
(***************************************************************************)
(* Four components that share no state, each on a small instance: the      *)
(* object store, the sizes of packs, the keys, and the dialogue with git.  *)
(* A behaviour is one of the component that part names; the others stay as *)
(* they start.  Only the initial states of that component are varied.      *)
(***************************************************************************)
EXTENDS LocalStore, Packing, Keys, Helper, TLC

CONSTANTS
    Parts,             \* the components to check
    a, b,              \* commits of unrelated histories
    r1, r2, p1, p2, p3 \* remotes and packs

VARIABLE part

machineVars == <<part, storeVars, packVars, keyVars, helperVars>>

\* One remote has a branch for each commit, pushed one by one; the other has one
\* pack and deleted the branch of a since.
MCReach == [x \in {a, b} |-> {x}]
MCLivePacks == [r \in {r1, r2} |-> IF r = r1 THEN <<p1, p2>> ELSE <<p3>>]
MCPackCommits == [p \in {p1, p2, p3} |->
                    CASE p = p1 -> {a} [] p = p2 -> {b} [] OTHER -> {a, b}]
MCHostRefs == [r \in {r1, r2} |-> IF r = r1 THEN {a, b} ELSE {b}]

\* A push of two refs with an unsupported option, a dry run of two batches, a fetch.
MCDialogues ==
    {<<Ask("capabilities"), AskOption("cas", TRUE), AskOption("force", TRUE),
       Ask("list"), AskBatch("push", <<"main", "side">>), Ask("blank")>>,
     <<Ask("capabilities"), AskOption("progress", FALSE), AskOption("dry-run", TRUE),
       Ask("list"), AskBatch("push", <<"main">>), AskBatch("push", <<"side", "main">>),
       Ask("blank")>>,
     <<Ask("capabilities"), Ask("list"), AskBatch("fetch", <<"main", "side">>), Ask("blank")>>}

Init ==
    /\ part \in Parts
    /\ StoreInit /\ PackInit /\ KeysInit /\ HelperInit
    /\ part # "packs" => <<limit, factor>> = CHOOSE c \in Limits \X Factors : TRUE
    /\ part # "helper" => requests = CHOOSE d \in Dialogues : TRUE

Next ==
    \/ /\ part = "store" /\ StoreNext
       /\ UNCHANGED <<part, packVars, keyVars, helperVars>>
    \/ /\ part = "packs" /\ PackNext
       /\ UNCHANGED <<part, storeVars, keyVars, helperVars>>
    \/ /\ part = "keys" /\ KeysNext
       /\ UNCHANGED <<part, storeVars, packVars, helperVars>>
    \/ /\ part = "helper" /\ HelperNext
       /\ UNCHANGED <<part, storeVars, packVars, keyVars>>

\* Users keep opening sessions, of whatever remote, and a session goes on; git and
\* the helper do what they can.
Fairness ==
    WF_machineVars(\/ part = "store" /\ (\E r \in Remotes : SessionStep(r))
                      /\ UNCHANGED <<part, packVars, keyVars, helperVars>>
                   \/ part = "helper" /\ (HelperStep \/ GitReads \/ GitGivesUp)
                      /\ UNCHANGED <<part, storeVars, packVars, keyVars>>)

Spec == Init /\ [][Next]_machineVars
FairSpec == Spec /\ Fairness
=============================================================================
