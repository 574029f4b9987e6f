---------------------------- MODULE RefRegister ----------------------------
(***************************************************************************)
(* What the engine promises about a remote: its refs behave like one       *)
(* shared register.  A push takes effect at one instant, against the refs  *)
(* the remote has at that instant, and changes only what its batch asks    *)
(* for; an update that is not forced moves a ref forward in its history.   *)
(***************************************************************************)
EXTENDS Manifests

CONSTANT Clients

VARIABLES
    refs,   \* the refs of the remote
    gen,    \* its generation
    asked   \* asked[c]: the push batch client c is waiting for

vars == <<refs, gen, asked>>

Nothing == [r \in {} |-> "update"]

Init ==
    /\ refs = NoRefs
    /\ gen = 0
    /\ asked = [c \in Clients |-> Nothing]

Ask(c) ==
    /\ \E batch \in Batches : asked' = [asked EXCEPT ![c] = batch]
    /\ UNCHANGED <<refs, gen>>

\* The client learns an outcome, or gives up.
Answer(c) ==
    /\ asked' = [asked EXCEPT ![c] = Nothing]
    /\ UNCHANGED <<refs, gen>>

\* What a batch that asks for kind may do to a ref.
MayMove(kind, old, new) ==
    CASE kind = "delete" -> new = NoCommit
      [] kind = "force" -> new \in Commits
      [] kind = "update" -> new \in Commits /\ (old # NoCommit => IsAncestor(old, new))

\* The batch takes effect; its client may give up at that instant, not knowing.
Publish(c) ==
    /\ refs' \in RefMaps
    /\ \A r \in Refs : refs'[r] # refs[r] =>
          r \in DOMAIN asked[c] /\ MayMove(asked[c][r], refs[r], refs'[r])
    /\ gen' = gen + 1
    /\ asked' \in {asked, [asked EXCEPT ![c] = Nothing]}

Next == \E c \in Clients : Ask(c) \/ Answer(c) \/ Publish(c)

Spec == Init /\ [][Next]_vars
=============================================================================
