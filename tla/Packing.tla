------------------------------ MODULE Packing ------------------------------
(***************************************************************************)
(* How many packs a remote has and how large they are: an oversized push   *)
(* is split, geometric consolidation merges small packs, a repack merges   *)
(* all of them, and the host's limit on one file overrules each of these.  *)
(* CloakSync lets any packs be split and any be merged; this module is     *)
(* about the sizes that decide it.                                         *)
(*                                                                         *)
(* Packs are their ciphertext sizes, in ascending order: what sort.Slice   *)
(* does with equal sizes makes no difference.                              *)
(***************************************************************************)
EXTENDS Naturals, Sequences, SequencesExt

CONSTANTS
    ObjSizes,   \* the sizes an object may have
    MaxObjs,    \* bound: the objects of one push
    MaxPushes,  \* bound: how many pushes happen
    Limits,     \* settings of cloak.maxPackBytes; 0: no limit
    Factors,    \* settings of cloak.geometricFactor; 0: never consolidate
    Overhead,   \* what encryption adds to a pack
    Margin,     \* what splitBudget subtracts from the limit for it
    MinBudget,  \* git's least --max-pack-size
    MaxPacks,   \* the most packs a manifest may list
    Word        \* 2^64: sums and products are taken modulo this

ASSUME SizesAssumption ==
    /\ ObjSizes \subseteq Nat \ {0} /\ Limits \subseteq Nat /\ Factors \subseteq Nat
    /\ Margin \in Nat /\ Overhead \in 1..Margin /\ MinBudget \in Nat \ {0}
    /\ MaxObjs \in Nat \ {0} /\ MaxPushes \in Nat \ {0} /\ MaxPacks \in Nat \ {0}
    /\ Word \in Nat \ {0}

\* manifest.go: the caps on size and number of packs keep every sum below a word.
ASSUME WordAssumption == \A x \in ObjSizes : MaxPushes * MaxObjs * (x + Overhead) < Word

VARIABLES
    limit, factor,  \* the configuration
    live,           \* the packs of the remote's manifest
    plan,           \* the packs of the manifest a push prepares; <<>>: no push
    sent,           \* what the last push was asked to upload
    outcome,        \* how it ended
    pushes          \* bound: how many pushes were begun

packVars == <<limit, factor, live, plan, sent, outcome, pushes>>

\* Sums(s)[n] is the total of the first n sizes.
Sums(s) ==
    LET sum[n \in 0..Len(s)] == IF n = 0 THEN 0 ELSE sum[n - 1] + s[n]
    IN  sum

Total(s) == Sums(s)[Len(s)]

\* x, after the sizes of an ascending s that are no larger.
Insert(s, x) ==
    LET k == CHOOSE n \in 0..Len(s) : /\ \A i \in 1..n : s[i] <= x
                                     /\ \A i \in (n + 1)..Len(s) : s[i] > x
    IN  SubSeq(s, 1, k) \o <<x>> \o SubSeq(s, k + 1, Len(s))

InsertAll(s, new) ==
    LET all[n \in 0..Len(new)] == IF n = 0 THEN s ELSE Insert(all[n - 1], new[n])
    IN  all[Len(new)]

-----------------------------------------------------------------------------
(* geometry *)

\* Mutant of Smaller: the high half of the product is dropped.
SmallerLowHalf(size, f, cum) == size < (f * cum) % Word

\* size < f * cum, where the product is kept in two words.
Smaller(size, f, cum) ==
    LET hi == (f * cum) \div Word
        lo == (f * cum) % Word
    IN  hi # 0 \/ size < lo

\* Pack i is too small for the packs before it.
Violates(s, f, i) == Smaller(s[i], f, Sums(s)[i - 1] % Word)

\* The last pack that is too small; 0 if there is none.
InitialSplit(s, f) ==
    LET bad == {i \in 2..Len(s) : Violates(s, f, i)}
    IN  IF bad = {} THEN 0 ELSE Max(bad)

\* The split moves on while the next pack is too small for the merged ones.
ExtendSplit(s, f, split) ==
    Max({j \in split..Len(s) : \A k \in (split + 1)..j : Violates(s, f, k)})

\* The packs that must merge.
Victims(s, f) ==
    LET split == InitialSplit(s, f)
    IN  IF f = 0 \/ Len(s) < 2 \/ split = 0 THEN <<>>
        ELSE SubSeq(s, 1, ExtendSplit(s, f, split))

-----------------------------------------------------------------------------
(* A push *)

\* Mutant of SplitBudget: no room for what encryption adds.
SplitBudgetBare(l) == IF l < MinBudget THEN 0 ELSE l

\* The --max-pack-size to split with; 0: the limit is off or too small to split.
SplitBudget(l) == IF l = 0 \/ l < Margin + MinBudget THEN 0 ELSE l - Margin

\* The ways git pack-objects splits the objects: a pack begins at each cut and holds
\* as many as fit in the budget, or one that does not.
SplitObjects(objs, budget) ==
    LET Ascending(cuts) == cuts[1] = 1 /\ \A i \in 2..Len(cuts) : cuts[i - 1] < cuts[i]
        LastOf(cuts, i) == IF i = Len(cuts) THEN Len(objs) ELSE cuts[i + 1] - 1
        Part(cuts, i) == SubSeq(objs, cuts[i], LastOf(cuts, i))
        Fits(part) == Total(part) <= budget \/ Len(part) = 1
    IN  {[i \in DOMAIN cuts |-> Total(Part(cuts, i))] :
            cuts \in {c \in UNION {[1..n -> DOMAIN objs] : n \in DOMAIN objs} :
                        Ascending(c) /\ \A i \in DOMAIN c : Fits(Part(c, i))}}

Encrypted(plain) == [i \in DOMAIN plain |-> plain[i] + Overhead]

\* What buildPacks may come up with: one pack, or several when one is too large
\* and the limit leaves room to split.
BuildPacks(objs) ==
    LET single == <<Total(objs)>>
    IN  IF limit = 0 \/ Total(objs) + Overhead <= limit \/ SplitBudget(limit) = 0
        THEN {Encrypted(single)}
        ELSE {Encrypted(s) : s \in SplitObjects(objs, SplitBudget(limit))}

\* checkPackLimit, and its like in splitEncryptPacks.
TooLarge(packs) == limit # 0 /\ \E p \in Range(packs) : p > limit

\* Mutant of ManifestHolds: the count is not validated.
ManifestHoldsAny(n) == TRUE

\* validatePacks
ManifestHolds(n) == n <= MaxPacks

\* planRefUpdates to assembleManifest: the packs are built and checked, then the
\* manifest that lists them as well is.
PlanPush ==
    /\ plan = <<>> /\ pushes < MaxPushes /\ pushes' = pushes + 1
    /\ \E n \in 1..MaxObjs : \E objs \in [1..n -> ObjSizes] : \E packs \in BuildPacks(objs) :
          /\ sent' = objs
          /\ \/ /\ TooLarge(packs)
                /\ outcome' = "too_large"
                /\ UNCHANGED plan
             \/ /\ ~TooLarge(packs) /\ ~ManifestHolds(Len(live) + Len(packs))
                /\ outcome' = "invalid"
                /\ UNCHANGED plan
             \/ /\ ~TooLarge(packs) /\ ManifestHolds(Len(live) + Len(packs))
                /\ outcome' = "planned"
                /\ plan' = InsertAll(live, packs)
    /\ UNCHANGED <<limit, factor, live>>

\* The sizes a merge may have: objects in several packs and headers are stored
\* once, deltas may get better.
MergedSizes(packs) == {Total(packs), Total(packs) - (Len(packs) - 1) * Overhead, Last(packs)}

\* Mutant of WouldExceed: the limit is checked on pushes only.
NeverExceeds(victims) == FALSE

\* Mutant of WouldExceed: no limit is taken for a limit of 0.
WouldExceedUnset(victims) == Total(victims) > limit

\* consolidationWouldExceed
WouldExceed(victims) == limit # 0 /\ Total(victims) > limit

\* Whether this push consolidates: not the first one, and not over the limit.
Consolidates ==
    LET victims == Victims(plan, factor)
    IN  live # <<>> /\ factor # 0 /\ Len(victims) >= 2 /\ ~WouldExceed(victims)

\* The push is published as planned, or with its victims merged.
Publish ==
    /\ plan # <<>>
    /\ \/ /\ ~Consolidates
          /\ live' = plan
       \/ /\ Consolidates
          /\ LET victims == Victims(plan, factor)
                 others == SubSeq(plan, Len(victims) + 1, Len(plan))
             IN  \E m \in MergedSizes(victims) : live' = Insert(others, m)
    /\ plan' = <<>> /\ outcome' = "published"
    /\ UNCHANGED <<limit, factor, sent, pushes>>

\* FullRepack: a single pack, or a refusal.
RepackAll ==
    /\ plan = <<>> /\ live # <<>>
    /\ \E m \in MergedSizes(live) :
          \/ TooLarge(<<m>>) /\ outcome' = "repack_refused" /\ UNCHANGED live
          \/ ~TooLarge(<<m>>) /\ outcome' = "published" /\ live' = <<m>>
    /\ sent' = <<>>
    /\ UNCHANGED <<limit, factor, plan, pushes>>

-----------------------------------------------------------------------------

PackInit ==
    /\ limit \in Limits /\ factor \in Factors
    /\ live = <<>> /\ plan = <<>> /\ sent = <<>>
    /\ outcome = "none" /\ pushes = 0

PackNext == PlanPush \/ Publish \/ RepackAll

PackSpec == PackInit /\ [][PackNext]_packVars

-----------------------------------------------------------------------------
(* Properties *)

\* The packs of every manifest are within the caps that validatePacks sets: "the uint64
\* accumulation cannot overflow" (manifest.go:25).
PackTypeOK ==
    /\ Len(live) <= MaxPacks /\ Len(plan) <= MaxPacks
    /\ Total(live) < Word /\ Total(plan) < Word

\* The progression that package geometry describes, over all natural numbers.
Geometric(s) == \A i \in 2..Len(s) : s[i] >= factor * Sums(s)[i - 1]

\* Victims (geometry.go:29-45): nothing is merged when the progression holds, and
\* otherwise one merge restores it, whatever size the merged pack turns out to
\* have; the largest victim is there because it was too small, so that no pack is
\* uploaded again without need.  All of this although sums and products are words.
VictimsRestore ==
    LET v == Victims(plan, factor)
        rest == SubSeq(plan, Len(v) + 1, Len(plan))
    IN  factor # 0 =>
        /\ Geometric(plan) <=> v = <<>>
        /\ v # <<>> =>
              /\ v[Len(v)] < factor * Total(Front(v))
              /\ \A m \in MergedSizes(v) : Geometric(Insert(rest, m))

\* Every pack of the remote fits the host's limit, after splits, merges and repacks
\* (checkPackLimit, splitEncryptPacks, consolidationWouldExceed).
NeverOverLimit == limit # 0 => \A p \in Range(live) : p <= limit

\* packlimit.go, pushFileTooLargeErr: a push is refused for its size only if one file
\* is too large, "the one case bin-packing cannot fix", or the limit is too small to
\* split at all.
TooLargeMeansOneFile ==
    outcome = "too_large" =>
        SplitBudget(limit) = 0 \/ \E x \in Range(sent) : x + Overhead > limit

\* b to the power of n
Power(b, n) ==
    LET power[i \in 0..n] == IF i = 0 THEN 1 ELSE power[i - 1] * b
    IN  power[n]

\* The n smallest packs are at most logarithmically many in their total, with room
\* for some more, if a merge of two of them would not go over the limit.
Logarithmic(more) ==
    \A n \in (more + 1)..Len(live) :
        factor # 0 /\ (limit = 0 \/ 2 * live[n] <= limit) =>
            Power(factor + 1, n - 1 - more) <= Sums(live)[n]

\* engine.go:347: "geometric consolidation keeping the live-pack count ~log(pushes)"
\* (maybeConsolidate, Victims).
LogarithmicallyPacked == Logarithmic(2)

\* The same for a host without a limit, where it holds to the letter.
LogarithmicWithoutLimit == limit = 0 => Logarithmic(0)

=============================================================================
