--------------------------- MODULE Packing_proofs ---------------------------
(***************************************************************************)
(* Theorems about pack sizes, for all sizes, factors, limits and words:    *)
(* totals stay in a word, consolidation restores the geometric progression *)
(* and merges no more than it must, no pack exceeds the host's limit, and  *)
(* a push is refused for its size only if no split helps.                  *)
(***************************************************************************)
EXTENDS Packing, Integers, SequenceTheorems, WellFoundedInduction, TLAPS

-----------------------------------------------------------------------------
(* Induction over the naturals, as statements about sets *)

\* A set of naturals has a least element.
LEMMA LeastElement ==
    ASSUME NEW T \in SUBSET Nat, T # {}
    PROVE  \E x \in T : \A y \in T : x <= y
  <1> DEFINE R == OpToRel(<, Nat)
  <1>1. IsWellFoundedOn(R, Nat)
    BY NatLessThanWellFounded
  <1>2. \A x, y \in Nat : y < x => <<y, x>> \in R
    BY DEF OpToRel
  <1> HIDE DEF R
  <1>3. PICK x \in T : \A y \in T : ~(<<y, x>> \in R)
    BY <1>1, WFMin
  <1>4. \A y \in T : ~(y < x)
    BY <1>2, <1>3, Zenon
  <1>5. \A y \in T : x <= y
    BY <1>4
  <1>6. QED BY <1>5

\* A set that is closed under steps up to n holds all numbers up to n.
LEMMA UpTo ==
    ASSUME NEW n \in Nat, NEW T, 0 \in T, \A i \in 1..n : i - 1 \in T => i \in T
    PROVE  0..n \subseteq T
  <1> DEFINE U == 0..n \ T
  <1>1. SUFFICES ASSUME U # {} PROVE FALSE
    OBVIOUS
  <1>2. PICK x \in U : \A y \in U : x <= y
    <2> HIDE DEF U
    <2>1. U \in SUBSET Nat
      BY DEF U
    <2>2. QED BY <1>1, <2>1, LeastElement
  <1>3. x \in 1..n /\ x - 1 \in 0..n /\ x - 1 \notin U
    BY <1>2
  <1>4. QED BY <1>2, <1>3

\* A bounded set of naturals has a greatest element.
LEMMA GreatestElement ==
    ASSUME NEW n \in Nat, NEW T \in SUBSET (0..n), T # {}
    PROVE  \E x \in T : \A y \in T : y <= x
  <1> DEFINE U == {u \in 0..n : n - u \in T}
  <1>1. U \in SUBSET Nat /\ U # {}
    <2>1. PICK x \in T : TRUE
      OBVIOUS
    <2>2. n - x \in 0..n /\ n - (n - x) = x
      BY <2>1
    <2>3. n - x \in U
      BY <2>2, Zenon
    <2>4. U \in SUBSET Nat
      OBVIOUS
    <2>5. QED BY <2>3, <2>4, Zenon
  <1>2. PICK u \in U : \A y \in U : u <= y
    <2> HIDE DEF U
    <2>1. QED BY <1>1, LeastElement
  <1>3. ASSUME NEW y \in T PROVE y <= n - u
    <2>1. y \in 0..n /\ n - y \in 0..n /\ n - (n - y) = y
      BY <1>3
    <2>2. n - y \in U
      BY <1>3, <2>1
    <2>3. u <= n - y /\ u \in 0..n
      BY <1>2, <2>2
    <2>4. QED BY <2>1, <2>3
  <1>4. n - u \in T
    BY <1>2
  <1>5. QED BY <1>3, <1>4

Solvable(S, n, base, step) ==
    \E f \in [0..n -> S] : f[0] = base /\ \A i \in 1..n : f[i] = step[i][f[i - 1]]

\* A recursion over 0..n has a solution.
LEMMA RecursionExists ==
    ASSUME NEW S, NEW n \in Nat, NEW base \in S, NEW step \in [1..n -> [S -> S]]
    PROVE  Solvable(S, n, base, step)
  <1> DEFINE Solves(f, m) == f \in [0..m -> S] /\ f[0] = base
                             /\ \A i \in 1..m : f[i] = step[i][f[i - 1]]
             T == {m \in 0..n : \E f \in [0..m -> S] : Solves(f, m)}
  <1>1. 0 \in T
    <2> DEFINE f == [i \in 0..0 |-> base]
    <2>1. f \in [0..0 -> S] /\ f[0] = base
      OBVIOUS
    <2> HIDE DEF f
    <2>2. Solves(f, 0)
      BY <2>1
    <2>3. QED BY <2>1, <2>2
  <1>2. ASSUME NEW m \in 1..n, m - 1 \in T PROVE m \in T
    <2>1. PICK f \in [0..(m - 1) -> S] : Solves(f, m - 1)
      BY <1>2
    <2> DEFINE g == [i \in 0..m |-> IF i = m THEN step[m][f[m - 1]] ELSE f[i]]
    <2>2. step[m][f[m - 1]] \in S
      BY <2>1
    <2>3. g \in [0..m -> S] /\ g[0] = base
      BY <2>1, <2>2
    <2>4. ASSUME NEW i \in 1..m PROVE g[i] = step[i][g[i - 1]]
      <3>1. CASE i = m
        <4>1. g[i] = step[m][f[m - 1]] /\ g[m - 1] = f[m - 1]
          BY <3>1
        <4>2. QED BY <3>1, <4>1
      <3>2. CASE i \in 1..(m - 1)
        BY <2>1, <3>2
      <3>3. QED BY <3>1, <3>2
    <2>5. Solves(g, m)
      BY <2>3, <2>4
    <2> HIDE DEF g
    <2>6. QED BY <2>3, <2>5
  <1>3. n \in T
    <2> HIDE DEF T
    <2>1. \A i \in 1..n : i - 1 \in T => i \in T
      BY <1>2
    <2>2. 0..n \subseteq T
      BY <1>1, <2>1, UpTo
    <2>3. QED BY <2>2
  <1>4. QED BY <1>3 DEF Solvable

-----------------------------------------------------------------------------
(* Totals *)

\* Sums is what its definition says.
LEMMA SumsEquation ==
    ASSUME NEW s \in Seq(Int)
    PROVE  /\ Sums(s) \in [0..Len(s) -> Int] /\ Sums(s)[0] = 0
           /\ \A n \in 1..Len(s) : Sums(s)[n] = Sums(s)[n - 1] + s[n]
  <1>0. Len(s) \in Nat /\ \A i \in 1..Len(s) : s[i] \in Int
    BY LenProperties, ElementOfSeq
  <1> DEFINE len == Len(s)
             step == [i \in 1..len |-> [x \in Int |-> x + s[i]]]
  <1>1. len \in Nat /\ 0 \in Int /\ step \in [1..len -> [Int -> Int]]
    BY <1>0
  <1>2. \A i \in 1..len : \A x \in Int : step[i][x] = x + s[i]
    OBVIOUS
  <1> HIDE DEF step, len
  <1>3. PICK f \in [0..len -> Int] :
               f[0] = 0 /\ \A i \in 1..len : f[i] = f[i - 1] + s[i]
    <2>1. PICK f \in [0..len -> Int] :
                 f[0] = 0 /\ \A i \in 1..len : f[i] = step[i][f[i - 1]]
      <3>1. Solvable(Int, len, 0, step)
        BY <1>1, RecursionExists
      <3>2. QED BY <3>1 DEF Solvable
    <2>2. \A i \in 1..len : f[i - 1] \in Int
      BY <1>1, <2>1
    <2>3. \A i \in 1..len : step[i][f[i - 1]] = f[i - 1] + s[i]
      BY <1>2, <2>2, Zenon
    <2>4. QED BY <2>1, <2>3, Zenon
  <1> USE DEF len
  <1>4. f = [n \in 0..Len(s) |-> IF n = 0 THEN 0 ELSE f[n - 1] + s[n]]
    BY <1>0, <1>3
  <1>5. Sums(s) = [n \in 0..Len(s) |-> IF n = 0 THEN 0 ELSE Sums(s)[n - 1] + s[n]]
    BY <1>4, Zenon DEF Sums
  <1> DEFINE g == Sums(s)
  <1>6. g = [n \in 0..Len(s) |-> IF n = 0 THEN 0 ELSE g[n - 1] + s[n]]
    BY <1>5
  <1> HIDE DEF g
  <1>7. g[0] = 0 /\ \A n \in 1..Len(s) : g[n] = g[n - 1] + s[n]
    <2>1. 0 \in 0..Len(s) /\ \A n \in 1..Len(s) : n \in 0..Len(s) /\ n # 0
      BY <1>0
    <2>2. g[0] = 0
      BY <1>6, <2>1
    <2>3. ASSUME NEW n \in 1..Len(s) PROVE g[n] = g[n - 1] + s[n]
      <3>1. n \in 0..Len(s) /\ n # 0
        BY <2>1
      <3>2. QED BY <1>6, <3>1
    <2>4. QED BY <2>2, <2>3
  <1>8. \A n \in 0..Len(s) : g[n] \in Int
    <2> DEFINE T == {n \in 0..Len(s) : g[n] \in Int}
    <2>1. 0 \in T
      BY <1>0, <1>7
    <2>2. \A n \in 1..Len(s) : n - 1 \in T => n \in T
      BY <1>0, <1>7
    <2> HIDE DEF T
    <2>3. 0..Len(s) \subseteq T
      BY <1>0, <2>1, <2>2, UpTo
    <2>4. QED BY <2>3 DEF T
  <1>9. g \in [0..Len(s) -> Int]
    BY <1>6, <1>8
  <1>10. QED BY <1>7, <1>9 DEF g

\* The sums of naturals are naturals, and no summand is larger than its sum.
LEMMA SumsType ==
    ASSUME NEW s \in Seq(Nat)
    PROVE  /\ Len(s) \in Nat /\ Sums(s)[0] = 0 /\ Total(s) \in Nat
           /\ \A n \in 0..Len(s) : Sums(s)[n] \in Nat
           /\ \A n \in 1..Len(s) : s[n] \in Nat /\ Sums(s)[n] = Sums(s)[n - 1] + s[n]
  <1>1. s \in Seq(Int) /\ Len(s) \in Nat /\ \A n \in 1..Len(s) : s[n] \in Nat
    <2>1. \A n \in 1..Len(s) : s[n] \in Nat
      BY ElementOfSeq
    <2>2. s \in Seq(Int)
      BY SeqMonotonic, Nat \subseteq Int
    <2>3. QED BY <2>1, <2>2, LenProperties
  <1> DEFINE g == Sums(s)
  <1>2. /\ g \in [0..Len(s) -> Int] /\ g[0] = 0
        /\ \A n \in 1..Len(s) : g[n] = g[n - 1] + s[n]
    BY <1>1, SumsEquation
  <1> HIDE DEF g
  <1>3. \A n \in 0..Len(s) : g[n] \in Nat
    <2> DEFINE T == {n \in 0..Len(s) : g[n] \in Nat}
    <2>1. 0 \in T
      BY <1>1, <1>2
    <2>2. ASSUME NEW n \in 1..Len(s), n - 1 \in T PROVE n \in T
      <3>1. n \in 0..Len(s) /\ g[n - 1] \in Nat /\ s[n] \in Nat
        BY <1>1, <2>2
      <3>2. g[n] = g[n - 1] + s[n]
        BY <1>2
      <3>3. QED BY <3>1, <3>2
    <2> HIDE DEF T
    <2>3. \A n \in 1..Len(s) : n - 1 \in T => n \in T
      BY <2>2
    <2>4. 0..Len(s) \subseteq T
      BY <1>1, <2>1, <2>3, UpTo
    <2>5. QED BY <2>4 DEF T
  <1>4. Len(s) \in 0..Len(s)
    BY <1>1
  <1>5. QED BY <1>1, <1>2, <1>3, <1>4 DEF g, Total

\* Sums grow.
LEMMA SumsGrow ==
    ASSUME NEW s \in Seq(Nat), NEW m \in 0..Len(s), NEW n \in m..Len(s)
    PROVE  Sums(s)[m] <= Sums(s)[n]
  <1> DEFINE g == Sums(s)
             T == {i \in Nat : m + i <= Len(s) => g[m] <= g[m + i]}
  <1>1. /\ Len(s) \in Nat /\ m \in Nat /\ \A i \in 0..Len(s) : g[i] \in Nat
        /\ \A i \in 1..Len(s) : s[i] \in Nat /\ g[i] = g[i - 1] + s[i]
    BY SumsType
  <1> HIDE DEF g
  <1>2. 0 \in T
    BY <1>1
  <1>3. ASSUME NEW i \in 1..(n - m), i - 1 \in T PROVE i \in T
    <2>1. SUFFICES ASSUME m + i <= Len(s) PROVE g[m] <= g[m + i]
      BY <1>1
    <2>2. g[m] <= g[m + (i - 1)]
      BY <1>1, <1>3, <2>1
    <2>3. m + i \in 1..Len(s) /\ m + i - 1 = m + (i - 1) /\ m + (i - 1) \in 0..Len(s)
      BY <1>1, <2>1
    <2>4. g[m + i] = g[m + (i - 1)] + s[m + i] /\ s[m + i] \in Nat
      BY <1>1, <2>3
    <2>5. g[m] \in Nat /\ g[m + (i - 1)] \in Nat
      BY <1>1, <2>3
    <2>6. QED BY <2>2, <2>4, <2>5
  <1>4. n - m \in Nat /\ m + (n - m) = n
    BY <1>1
  <1>5. n - m \in T
    <2> HIDE DEF T
    <2>1. \A i \in 1..(n - m) : i - 1 \in T => i \in T
      BY <1>3
    <2>2. 0..(n - m) \subseteq T
      BY <1>2, <1>4, <2>1, UpTo
    <2>3. QED BY <1>4, <2>2
  <1>6. g[m] <= g[n]
    BY <1>1, <1>4, <1>5
  <1>7. QED BY <1>6 DEF g

GrowAlike(g, h, d, m) ==
    /\ \A i \in 0..m : g[i] \in Nat /\ h[i] \in Nat
    /\ \A i \in 1..m : d[i] \in Nat /\ g[i] = g[i - 1] + d[i] /\ h[i] = h[i - 1] + d[i]

\* Two functions that grow by the same steps grow by the same total.
LEMMA SameGrowth ==
    ASSUME NEW g, NEW h, NEW d, NEW m \in Nat, GrowAlike(g, h, d, m)
    PROVE  g[m] + h[0] = h[m] + g[0]
  <1> USE DEF GrowAlike
  <1> DEFINE T == {i \in 0..m : g[i] + h[0] = h[i] + g[0]}
  <1>1. 0 \in T
    OBVIOUS
  <1>2. ASSUME NEW i \in 1..m, i - 1 \in T PROVE i \in T
    <2>1. /\ g[i - 1] + h[0] = h[i - 1] + g[0]
          /\ g[i] = g[i - 1] + d[i] /\ h[i] = h[i - 1] + d[i]
      BY <1>2
    <2>2. g[i - 1] \in Nat /\ h[i - 1] \in Nat /\ g[0] \in Nat /\ h[0] \in Nat /\ d[i] \in Nat
      BY <1>2
    <2>3. g[i] + h[0] = h[i] + g[0]
      BY <2>1, <2>2
    <2>4. QED BY <2>3
  <1>3. m \in T
    <2> HIDE DEF T
    <2>1. \A i \in 1..m : i - 1 \in T => i \in T
      BY <1>2
    <2>2. 0..m \subseteq T
      BY <1>1, <2>1, UpTo
    <2>3. QED BY <2>2
  <1>4. QED BY <1>3

\* The m elements of s after a are those of t after b.
Alike(s, a, t, b, m) ==
    /\ a + m <= Len(s) /\ b + m <= Len(t)
    /\ \A i \in 1..m : s[a + i] = t[b + i]

\* Equal stretches of two sequences add the same to their sums.
LEMMA SameSums ==
    ASSUME NEW s \in Seq(Nat), NEW t \in Seq(Nat), NEW a \in Nat, NEW b \in Nat, NEW m \in Nat,
           Alike(s, a, t, b, m)
    PROVE  Sums(s)[a + m] + Sums(t)[b] = Sums(t)[b + m] + Sums(s)[a]
  <1> USE DEF Alike
  <1> DEFINE g == [i \in 0..m |-> Sums(s)[a + i]]
             h == [i \in 0..m |-> Sums(t)[b + i]]
             d == [i \in 1..m |-> s[a + i]]
  <1>1. ASSUME NEW i \in 0..m PROVE g[i] \in Nat /\ h[i] \in Nat
    <2>1. a + i \in 0..Len(s) /\ b + i \in 0..Len(t)
      BY SumsType
    <2>2. QED BY <2>1, SumsType
  <1>2. ASSUME NEW i \in 1..m
        PROVE  d[i] \in Nat /\ g[i] = g[i - 1] + d[i] /\ h[i] = h[i - 1] + d[i]
    <2>1. a + i \in 1..Len(s) /\ b + i \in 1..Len(t)
      BY SumsType
    <2>2. /\ s[a + i] \in Nat /\ Sums(s)[a + i] = Sums(s)[a + i - 1] + s[a + i]
          /\ Sums(t)[b + i] = Sums(t)[b + i - 1] + t[b + i]
      BY <2>1, SumsType
    <2>3. a + i - 1 = a + (i - 1) /\ b + i - 1 = b + (i - 1) /\ i - 1 \in 0..m /\ i \in 0..m
      OBVIOUS
    <2>4. QED BY <2>2, <2>3, Zenon
  <1>3. g[0] = Sums(s)[a] /\ h[0] = Sums(t)[b] /\ g[m] = Sums(s)[a + m] /\ h[m] = Sums(t)[b + m]
    OBVIOUS
  <1> HIDE DEF g, h, d
  <1>4. g[m] + h[0] = h[m] + g[0]
    <2>1. GrowAlike(g, h, d, m)
      BY <1>1, <1>2 DEF GrowAlike
    <2>2. QED BY <2>1, SameGrowth
  <1>5. QED BY <1>3, <1>4

-----------------------------------------------------------------------------
(* Ascending sequences *)

\* The elements of a stretch.
LEMMA Stretch ==
    ASSUME NEW S, NEW s \in Seq(S), NEW m \in Nat, NEW n \in m..Len(s)
    PROVE  /\ SubSeq(s, m + 1, n) \in Seq(S) /\ Len(SubSeq(s, m + 1, n)) = n - m
           /\ \A i \in 1..(n - m) : SubSeq(s, m + 1, n)[i] = s[m + i]
  <1> DEFINE u == SubSeq(s, m + 1, n)
  <1>1. Len(s) \in Nat /\ \A i \in (m + 1)..n : s[i] \in S
    BY LenProperties, ElementOfSeq
  <1>2. /\ u \in Seq(S) /\ Len(u) = IF m + 1 <= n THEN n - (m + 1) + 1 ELSE 0
        /\ \A i \in 1..(n - (m + 1) + 1) : u[i] = s[m + 1 + i - 1]
    <2>1. m + 1 \in Int /\ n \in Int
      BY <1>1
    <2>2. QED BY <1>1, <2>1, SubSeqProperties
  <1> HIDE DEF u
  <1>3. Len(u) = n - m
    BY <1>1, <1>2
  <1>4. ASSUME NEW i \in 1..(n - m) PROVE u[i] = s[m + i]
    <2>1. i \in 1..(n - (m + 1) + 1) /\ m + 1 + i - 1 = m + i
      BY <1>1
    <2>2. u[i] = s[m + 1 + i - 1]
      BY <1>2, <2>1
    <2>3. QED BY <2>1, <2>2
  <1>5. QED BY <1>2, <1>3, <1>4 DEF u

InOrder(s) == \A i, j \in 1..Len(s) : i <= j => s[i] <= s[j]

\* The manifests with packs of sizes in P.
Ordered(P) == {s \in Seq(P) : InOrder(s)}

\* t is s with x put after its first k sizes, which are those that are no larger.
InsertedAt(s, x, t, k) ==
    /\ Len(t) = Len(s) + 1
    /\ \A i \in 1..k : t[i] = s[i] /\ s[i] <= x
    /\ t[k + 1] = x
    /\ \A i \in (k + 1)..Len(s) : t[i + 1] = s[i] /\ s[i] > x

\* Insert finds the place.
LEMMA InsertPlace ==
    ASSUME NEW P \in SUBSET Nat, NEW s \in Ordered(P), NEW x \in P
    PROVE  Insert(s, x) \in Seq(P) /\ \E k \in 0..Len(s) : InsertedAt(s, x, Insert(s, x), k)
  <1>1. s \in Seq(P) /\ InOrder(s) /\ Len(s) \in Nat /\ x \in Nat
    BY LenProperties DEF Ordered
  <1>2. \A i \in 1..Len(s) : s[i] \in P /\ s[i] \in Nat
    BY <1>1, ElementOfSeq
  <1> DEFINE Before(n) == /\ \A i \in 1..n : s[i] <= x
                          /\ \A i \in (n + 1)..Len(s) : s[i] > x
  <1>3. \E n \in 0..Len(s) : Before(n)
    <2> DEFINE T == {n \in 0..Len(s) : \A i \in 1..n : s[i] <= x}
    <2>1. T \in SUBSET (0..Len(s)) /\ 0 \in T
      BY <1>1
    <2>2. PICK n \in T : \A m \in T : m <= n
      <3> HIDE DEF T
      <3>1. T # {}
        BY <2>1
      <3>2. QED BY <1>1, <2>1, <3>1, GreatestElement
    <2>3. ASSUME NEW i \in (n + 1)..Len(s), s[i] <= x PROVE FALSE
      <3>1. n + 1 \in 1..Len(s) /\ i \in 1..Len(s) /\ n + 1 <= i /\ n \in 0..Len(s)
        BY <1>1
      <3>2. s[n + 1] <= s[i] /\ s[n + 1] \in Nat /\ s[i] \in Nat
        BY <1>1, <1>2, <3>1 DEF InOrder
      <3>3. s[n + 1] <= x
        BY <1>1, <2>3, <3>2
      <3>4. \A j \in 1..(n + 1) : s[j] <= x
        BY <2>2, <3>1, <3>3
      <3>5. n + 1 \in T
        BY <3>1, <3>4
      <3>6. QED BY <2>2, <3>1, <3>5
    <2>4. ASSUME NEW i \in (n + 1)..Len(s) PROVE s[i] > x
      <3>1. i \in 1..Len(s)
        BY <1>1
      <3>2. s[i] \in Nat /\ ~(s[i] <= x)
        BY <1>2, <2>3, <3>1
      <3>3. QED BY <1>1, <3>2
    <2>5. QED BY <2>2, <2>4
  <1> DEFINE k == CHOOSE n \in 0..Len(s) : Before(n)
             low == SubSeq(s, 1, k)
             high == SubSeq(s, k + 1, Len(s))
  <1>4. k \in 0..Len(s) /\ Before(k)
    <2> HIDE DEF Before
    <2>1. QED BY <1>3
  <1>5. Insert(s, x) = low \o <<x>> \o high
    BY DEF Insert
  <1> HIDE DEF k
  <1>6. low \in Seq(P) /\ Len(low) = k /\ \A i \in 1..k : low[i] = s[i]
    <2>1. 0 \in Nat /\ k \in 0..Len(s) /\ 0 + 1 = 1 /\ k - 0 = k /\ \A i \in 1..k : 0 + i = i
      BY <1>1, <1>4
    <2>2. /\ SubSeq(s, 0 + 1, k) \in Seq(P) /\ Len(SubSeq(s, 0 + 1, k)) = k - 0
          /\ \A i \in 1..(k - 0) : SubSeq(s, 0 + 1, k)[i] = s[0 + i]
      BY <1>1, <2>1, Stretch
    <2>3. QED BY <2>1, <2>2
  <1>7. high \in Seq(P) /\ Len(high) = Len(s) - k /\ \A i \in 1..(Len(s) - k) : high[i] = s[k + i]
    <2>1. k \in Nat /\ Len(s) \in k..Len(s)
      BY <1>1, <1>4
    <2>2. QED BY <1>1, <2>1, Stretch
  <1> HIDE DEF low, high
  <1>8. <<x>> \in Seq(P) /\ Len(<<x>>) = 1 /\ <<x>>[1] = x
    OBVIOUS
  <1>9. /\ low \o <<x>> \in Seq(P) /\ Len(low \o <<x>>) = k + 1
        /\ \A i \in 1..k : (low \o <<x>>)[i] = s[i]
        /\ (low \o <<x>>)[k + 1] = x
    <2> DEFINE one == <<x>>
    <2>1. one \in Seq(P) /\ Len(one) = 1 /\ one[1] = x
      BY <1>8
    <2> HIDE DEF one
    <2>2. /\ low \o one \in Seq(P) /\ Len(low \o one) = k + 1
          /\ \A i \in 1..(k + 1) : (low \o one)[i] = IF i <= k THEN low[i] ELSE one[i - k]
      <3>1. /\ low \o one \in Seq(P) /\ Len(low \o one) = Len(low) + Len(one)
            /\ \A i \in 1..(Len(low) + Len(one)) :
                  (low \o one)[i] = IF i <= Len(low) THEN low[i] ELSE one[i - Len(low)]
        BY <1>6, <2>1, ConcatProperties
      <3>2. Len(low) = k /\ Len(one) = 1
        BY <1>6, <2>1
      <3>3. QED BY <3>1, <3>2, Zenon
    <2>3. k + 1 \in 1..(k + 1) /\ ~(k + 1 <= k) /\ k + 1 - k = 1
      BY <1>1, <1>4
    <2>4. \A i \in 1..k : i \in 1..(k + 1) /\ i <= k
      BY <1>1, <1>4
    <2>5. QED BY <1>6, <2>1, <2>2, <2>3, <2>4 DEF one
  <1> DEFINE front == low \o <<x>>
             t == front \o high
  <1>10. /\ t \in Seq(P) /\ Len(t) = Len(s) + 1
         /\ \A i \in 1..(Len(s) + 1) : t[i] = IF i <= k + 1 THEN front[i] ELSE high[i - (k + 1)]
    <2> HIDE DEF front
    <2>1. front \in Seq(P) /\ Len(front) = k + 1
      BY <1>9 DEF front
    <2>2. k + 1 + (Len(s) - k) = Len(s) + 1
      BY <1>1, <1>4
    <2>3. QED BY <1>7, <2>1, <2>2, ConcatProperties
  <1> HIDE DEF t
  <1>11. \A i \in 1..k : t[i] = s[i] /\ s[i] <= x
    <2>1. \A i \in 1..k : i \in 1..(Len(s) + 1) /\ i <= k + 1
      BY <1>1, <1>4
    <2>2. QED BY <1>4, <1>9, <1>10, <2>1
  <1>12. t[k + 1] = x
    <2>1. k + 1 \in 1..(Len(s) + 1) /\ k + 1 <= k + 1
      BY <1>1, <1>4
    <2>2. QED BY <1>9, <1>10, <2>1
  <1>13. ASSUME NEW i \in (k + 1)..Len(s) PROVE t[i + 1] = s[i] /\ s[i] > x
    <2>1. /\ i + 1 \in 1..(Len(s) + 1) /\ ~(i + 1 <= k + 1) /\ i + 1 - (k + 1) = i - k
          /\ i - k \in 1..(Len(s) - k) /\ k + (i - k) = i
      BY <1>1, <1>4
    <2>2. t[i + 1] = high[i - k] /\ high[i - k] = s[k + (i - k)]
      <3> DEFINE j == i + 1
      <3>1. j \in 1..(Len(s) + 1) /\ ~(j <= k + 1) /\ j - (k + 1) = i - k
        BY <1>1, <1>4
      <3> HIDE DEF j
      <3>2. t[j] = high[i - k]
        BY <1>10, <3>1
      <3>3. QED BY <1>7, <2>1, <3>2, Zenon DEF j
    <2>3. QED BY <1>4, <2>1, <2>2
  <1>14. InsertedAt(s, x, t, k)
    BY <1>10, <1>11, <1>12, <1>13 DEF InsertedAt
  <1>15. QED BY <1>4, <1>5, <1>10, <1>14 DEF t

\* Insert keeps the order, adds one size, and adds it to the total.
LEMMA InsertKeeps ==
    ASSUME NEW P \in SUBSET Nat, NEW s \in Ordered(P), NEW x \in P
    PROVE  /\ Insert(s, x) \in Ordered(P) /\ Len(Insert(s, x)) = Len(s) + 1
           /\ Total(Insert(s, x)) = Total(s) + x
  <1> DEFINE t == Insert(s, x)
  <1>1. /\ s \in Seq(P) /\ s \in Seq(Nat) /\ InOrder(s) /\ Len(s) \in Nat /\ x \in Nat
        /\ \A i \in 1..Len(s) : s[i] \in Nat
    BY LenProperties, SeqMonotonic, ElementOfSeq DEF Ordered
  <1>2. PICK k \in 0..Len(s) : InsertedAt(s, x, t, k)
    BY InsertPlace
  <1>3. t \in Seq(P) /\ t \in Seq(Nat)
    <2>1. t \in Seq(P)
      BY InsertPlace
    <2>2. QED BY <2>1, SeqMonotonic
  <1> HIDE DEF t
  <1>4. Len(t) = Len(s) + 1
    BY <1>2 DEF InsertedAt
  <1>5. InOrder(t)
    <2>1. SUFFICES ASSUME NEW i \in 1..Len(t), NEW j \in 1..Len(t), i <= j PROVE t[i] <= t[j]
      BY DEF InOrder
    <2>2. /\ i <= k => i \in 1..Len(s) /\ t[i] = s[i] /\ s[i] <= x
          /\ i > k + 1 => i - 1 \in 1..Len(s) /\ t[i] = s[i - 1] /\ s[i - 1] > x
      <3>1. i <= k => i \in 1..Len(s) /\ t[i] = s[i] /\ s[i] <= x
        BY <1>1, <1>2, <1>4 DEF InsertedAt
      <3>2. i > k + 1 => i - 1 \in (k + 1)..Len(s) /\ i - 1 + 1 = i /\ i - 1 \in 1..Len(s)
        BY <1>1, <1>4
      <3>3. QED BY <1>2, <3>1, <3>2 DEF InsertedAt
    <2>3. /\ j <= k => j \in 1..Len(s) /\ t[j] = s[j] /\ s[j] <= x
          /\ j > k + 1 => j - 1 \in 1..Len(s) /\ t[j] = s[j - 1] /\ s[j - 1] > x
      <3>1. j <= k => j \in 1..Len(s) /\ t[j] = s[j] /\ s[j] <= x
        BY <1>1, <1>2, <1>4 DEF InsertedAt
      <3>2. j > k + 1 => j - 1 \in (k + 1)..Len(s) /\ j - 1 + 1 = j /\ j - 1 \in 1..Len(s)
        BY <1>1, <1>4
      <3>3. QED BY <1>2, <3>1, <3>2 DEF InsertedAt
    <2>4. t[k + 1] = x
      BY <1>2 DEF InsertedAt
    <2>5. CASE j <= k
      BY <1>1, <1>2, <2>1, <2>2, <2>3, <2>5 DEF InOrder
    <2>6. CASE i > k + 1
      <3>1. j > k + 1 /\ i - 1 <= j - 1
        BY <1>1, <1>2, <1>4, <2>1, <2>6
      <3>2. QED BY <1>1, <2>2, <2>3, <2>6, <3>1 DEF InOrder
    <2>7. CASE i <= k /\ j > k
      <3>1. t[i] \in Nat /\ t[i] <= x
        BY <1>1, <2>2, <2>7
      <3>2. t[j] \in Nat /\ x <= t[j]
        <4>1. CASE j = k + 1
          BY <1>1, <2>4, <4>1
        <4>2. CASE j > k + 1
          <5>1. j - 1 \in 1..Len(s) /\ t[j] = s[j - 1] /\ s[j - 1] > x
            BY <2>3, <4>2
          <5>2. s[j - 1] \in Nat
            BY <1>1, <5>1
          <5>3. QED BY <5>1, <5>2
        <4>3. QED BY <1>2, <1>4, <2>7, <4>1, <4>2
      <3>3. QED BY <1>1, <3>1, <3>2
    <2>8. CASE i = k + 1
      <3>1. t[i] = x
        BY <2>4, <2>8
      <3>2. CASE j = k + 1
        BY <1>1, <2>4, <3>1, <3>2
      <3>3. CASE j > k + 1
        BY <1>1, <2>3, <3>1, <3>3
      <3>4. QED BY <1>2, <1>4, <2>1, <2>8, <3>2, <3>3
    <2>9. QED BY <1>2, <1>4, <2>5, <2>6, <2>7, <2>8
  <1>6. Total(t) = Total(s) + x
    <2>1. Sums(t)[k] = Sums(s)[k]
      <3>1. Alike(t, 0, s, 0, k)
        BY <1>1, <1>2, <1>4 DEF InsertedAt, Alike
      <3>2. Sums(t)[0 + k] + Sums(s)[0] = Sums(s)[0 + k] + Sums(t)[0]
        BY <1>1, <1>2, <1>3, <3>1, SameSums
      <3>3. /\ Sums(t)[0] = 0 /\ Sums(s)[0] = 0 /\ k \in 0..Len(t) /\ 0 + k = k
            /\ Sums(t)[k] \in Nat /\ Sums(s)[k] \in Nat
        <4>1. k \in 0..Len(t)
          BY <1>1, <1>2, <1>4
        <4>2. QED BY <1>1, <1>2, <1>3, <4>1, SumsType
      <3>4. QED BY <3>2, <3>3
    <2>2. Sums(t)[k + 1] = Sums(t)[k] + x
      <3>1. k + 1 \in 1..Len(t) /\ k + 1 - 1 = k /\ t[k + 1] = x
        BY <1>1, <1>2, <1>4 DEF InsertedAt
      <3>2. Sums(t)[k + 1] = Sums(t)[k + 1 - 1] + t[k + 1]
        BY <1>3, <3>1, SumsType
      <3>3. QED BY <3>1, <3>2
    <2>3. Sums(t)[Len(t)] + Sums(s)[k] = Sums(s)[Len(s)] + Sums(t)[k + 1]
      <3> DEFINE m == Len(s) - k
      <3>1. m \in Nat /\ k + 1 \in Nat /\ k \in Nat /\ k + 1 + m = Len(t) /\ k + m = Len(s)
        BY <1>1, <1>2, <1>4
      <3>2. ASSUME NEW i \in 1..m PROVE t[k + 1 + i] = s[k + i]
        <4>1. k + i \in (k + 1)..Len(s) /\ k + i + 1 = k + 1 + i
          BY <1>1, <1>2
        <4>2. t[k + i + 1] = s[k + i]
          BY <1>2, <4>1 DEF InsertedAt
        <4>3. QED BY <4>1, <4>2
      <3> HIDE DEF m
      <3>3. Alike(t, k + 1, s, k, m)
        BY <1>1, <1>4, <3>1, <3>2 DEF Alike
      <3>4. Sums(t)[k + 1 + m] + Sums(s)[k] = Sums(s)[k + m] + Sums(t)[k + 1]
        BY <1>1, <1>3, <3>1, <3>2, <3>3, SameSums
      <3>5. QED BY <3>1, <3>4
    <2>4. /\ Sums(s)[k] \in Nat /\ Sums(s)[Len(s)] \in Nat
          /\ Sums(t)[Len(t)] \in Nat
      <3>1. Len(t) \in 0..Len(t) /\ Len(s) \in 0..Len(s)
        BY <1>1, <1>4
      <3>2. QED BY <1>1, <1>2, <1>3, <3>1, SumsType
    <2> DEFINE sk == Sums(s)[k]
               sn == Sums(s)[Len(s)]
               tk == Sums(t)[k + 1]
               tn == Sums(t)[Len(t)]
    <2>5. tk = sk + x /\ tn + sk = sn + tk /\ sk \in Nat /\ sn \in Nat /\ tn \in Nat
      BY <2>1, <2>2, <2>3, <2>4
    <2> HIDE DEF sk, sn, tk, tn
    <2>6. tn = sn + x
      BY <2>5
    <2>7. QED BY <2>6 DEF Total, sn, tn
  <1>7. QED BY <1>3, <1>4, <1>5, <1>6 DEF t, Ordered

\* InsertAll keeps the order, adds all the sizes, and adds their total.
LEMMA InsertAllKeeps ==
    ASSUME NEW P \in SUBSET Nat, NEW s \in Ordered(P), NEW new \in Seq(P)
    PROVE  /\ InsertAll(s, new) \in Ordered(P) /\ Len(InsertAll(s, new)) = Len(s) + Len(new)
           /\ Total(InsertAll(s, new)) = Total(s) + Total(new)
  <1> DEFINE len == Len(new)
             S == Ordered(P)
             step == [i \in 1..len |-> [u \in S |-> Insert(u, new[i])]]
  <1>1. /\ len \in Nat /\ new \in Seq(Nat) /\ s \in S /\ Len(s) \in Nat /\ Total(s) \in Nat
        /\ \A i \in 1..len : new[i] \in P
    <2>1. new \in Seq(Nat) /\ s \in Seq(Nat) /\ len \in Nat
      BY SeqMonotonic, LenProperties DEF Ordered
    <2>2. QED BY <2>1, SumsType, ElementOfSeq
  <1>2. \A i \in 1..len : \A u \in S :
            /\ Insert(u, new[i]) \in S /\ Len(Insert(u, new[i])) = Len(u) + 1
            /\ Total(Insert(u, new[i])) = Total(u) + new[i]
    BY <1>1, InsertKeeps
  <1> HIDE DEF S
  <1>3. step \in [1..len -> [S -> S]] /\ \A i \in 1..len : \A u \in S : step[i][u] = Insert(u, new[i])
    BY <1>2
  <1> HIDE DEF step, len
  <1>4. PICK f \in [0..len -> S] : f[0] = s /\ \A i \in 1..len : f[i] = Insert(f[i - 1], new[i])
    <2>1. PICK f \in [0..len -> S] : f[0] = s /\ \A i \in 1..len : f[i] = step[i][f[i - 1]]
      <3>1. Solvable(S, len, s, step)
        BY <1>1, <1>3, RecursionExists
      <3>2. QED BY <3>1 DEF Solvable
    <2>2. \A i \in 1..len : f[i - 1] \in S
      BY <1>1, <2>1
    <2>3. \A i \in 1..len : step[i][f[i - 1]] = Insert(f[i - 1], new[i])
      BY <1>3, <2>2, Zenon
    <2>4. QED BY <2>1, <2>3, Zenon
  <1> DEFINE all == CHOOSE g : g = [n \in 0..len |-> IF n = 0 THEN s ELSE Insert(g[n - 1], new[n])]
  <1>5. f = [n \in 0..len |-> IF n = 0 THEN s ELSE Insert(f[n - 1], new[n])]
    BY <1>1, <1>4
  <1>6. all = [n \in 0..len |-> IF n = 0 THEN s ELSE Insert(all[n - 1], new[n])]
    BY <1>5, Zenon
  <1>7. InsertAll(s, new) = all[len]
    BY Zenon DEF InsertAll, len
  <1> HIDE DEF all
  <1>8. all[0] = s /\ \A n \in 1..len : all[n] = Insert(all[n - 1], new[n])
    BY <1>1, <1>6
  <1> DEFINE Good(n) == /\ all[n] \in S /\ Len(all[n]) = Len(s) + n
                        /\ Total(all[n]) = Total(s) + Sums(new)[n]
             T == {n \in 0..len : Good(n)}
  <1>9. 0 \in T
    <2>1. Sums(new)[0] = 0
      BY <1>1, SumsType
    <2>2. Good(0)
      BY <1>1, <1>8, <2>1
    <2>3. QED BY <1>1, <2>2
  <1>10. ASSUME NEW n \in 1..len, n - 1 \in T PROVE n \in T
    <2>1. Good(n - 1)
      BY <1>10
    <2>2. /\ all[n] = Insert(all[n - 1], new[n]) /\ all[n] \in S
          /\ Len(all[n]) = Len(all[n - 1]) + 1
          /\ Total(all[n]) = Total(all[n - 1]) + new[n]
      BY <1>2, <1>8, <2>1
    <2>3. Sums(new)[n] = Sums(new)[n - 1] + new[n] /\ Sums(new)[n - 1] \in Nat /\ new[n] \in Nat
      <3>1. n - 1 \in 0..Len(new)
        BY <1>1 DEF len
      <3>2. QED BY <1>1, <3>1, SumsType DEF len
    <2>4. Len(all[n]) = Len(s) + n
      BY <1>1, <2>1, <2>2
    <2>5. Total(all[n]) = Total(s) + Sums(new)[n]
      BY <1>1, <2>1, <2>2, <2>3
    <2>6. QED BY <2>2, <2>4, <2>5
  <1>11. len \in T
    <2> HIDE DEF T
    <2>1. \A n \in 1..len : n - 1 \in T => n \in T
      BY <1>10
    <2>2. 0..len \subseteq T
      BY <1>1, <1>9, <2>1, UpTo
    <2>3. QED BY <1>1, <2>2
  <1>12. Good(len)
    BY <1>11
  <1>13. QED BY <1>7, <1>12 DEF S, len, Total

-----------------------------------------------------------------------------
(* Splitting *)

\* A function on 1..n is a sequence.
LEMMA FunctionIsSequence ==
    ASSUME NEW S, NEW n \in Nat, NEW s \in [1..n -> S]
    PROVE  s \in Seq(S) /\ Len(s) = n
  OBVIOUS

\* s are the totals of the objects between the ends c of the parts.
SplitAt(objs, budget, s, L, c) ==
    /\ s \in Seq(Nat) /\ Len(s) = L /\ c[0] = 0 /\ c[L] = Len(objs)
    /\ \A i \in 1..L : /\ c[i - 1] < c[i]
                       /\ s[i] = Total(SubSeq(objs, c[i - 1] + 1, c[i]))
                       /\ s[i] <= budget \/ c[i] = c[i - 1] + 1

\* A split cuts the objects into stretches.
LEMMA SplitsAreStretches ==
    ASSUME NEW objs \in Seq(Nat), NEW budget \in Nat, NEW s \in SplitObjects(objs, budget)
    PROVE  \E L \in 1..Len(objs) : \E c \in [0..L -> 0..Len(objs)] :
               SplitAt(objs, budget, s, L, c)
  <1> DEFINE LastOf(cuts, i) == IF i = Len(cuts) THEN Len(objs) ELSE cuts[i + 1] - 1
             Part(cuts, i) == SubSeq(objs, cuts[i], LastOf(cuts, i))
             Fits(part) == Total(part) <= budget \/ Len(part) = 1
  <1>1. Len(objs) \in Nat /\ DOMAIN objs = 1..Len(objs)
    BY LenProperties
  <1>0. PICK L \in 1..Len(objs) : \E cuts \in [1..L -> 1..Len(objs)] :
            /\ cuts[1] = 1 /\ \A i \in 2..Len(cuts) : cuts[i - 1] < cuts[i]
            /\ \A i \in DOMAIN cuts : Fits(Part(cuts, i))
            /\ s = [i \in DOMAIN cuts |-> Total(Part(cuts, i))]
    BY <1>1, Zenon DEF SplitObjects
  <1>2. PICK cuts \in [1..L -> 1..Len(objs)] :
            /\ cuts[1] = 1 /\ \A i \in 2..Len(cuts) : cuts[i - 1] < cuts[i]
            /\ \A i \in DOMAIN cuts : Fits(Part(cuts, i))
            /\ s = [i \in DOMAIN cuts |-> Total(Part(cuts, i))]
    BY <1>0
  <1>3. L \in Nat /\ Len(cuts) = L /\ DOMAIN cuts = 1..L
    BY <1>1
  <1> DEFINE c == [i \in 0..L |-> IF i = L THEN Len(objs) ELSE cuts[i + 1] - 1]
  <1>4. c \in [0..L -> 0..Len(objs)] /\ c[0] = 0 /\ c[L] = Len(objs)
    BY <1>1, <1>2, <1>3
  <1>5. ASSUME NEW i \in 1..L
        PROVE  /\ c[i - 1] + 1 = cuts[i] /\ c[i] = LastOf(cuts, i) /\ c[i - 1] < c[i]
    <2>1. i - 1 \in 0..L /\ i - 1 # L /\ i - 1 + 1 = i /\ cuts[i] \in 1..Len(objs)
      BY <1>1, <1>2, <1>3
    <2>2. c[i - 1] = cuts[i] - 1 /\ c[i - 1] + 1 = cuts[i]
      BY <1>1, <2>1
    <2>3. c[i] = LastOf(cuts, i)
      BY <1>3
    <2>4. CASE i = L
      BY <1>1, <1>4, <2>1, <2>2, <2>4
    <2>5. CASE i # L
      <3>1. i + 1 \in 2..L /\ i + 1 - 1 = i /\ cuts[i + 1] \in 1..Len(objs)
        <4>1. i + 1 \in 2..L /\ i + 1 \in 1..L /\ i + 1 - 1 = i
          BY <1>1, <2>5
        <4>2. QED BY <4>1
      <3>2. cuts[i] < cuts[i + 1]
        BY <1>2, <1>3, <3>1
      <3>3. c[i] = cuts[i + 1] - 1
        BY <1>3, <2>3, <2>5
      <3>4. QED BY <1>1, <2>1, <2>2, <2>3, <3>1, <3>2, <3>3
    <2>6. QED BY <2>2, <2>3, <2>4, <2>5
  <1> HIDE DEF c, LastOf
  <1>6. ASSUME NEW i \in 1..L
        PROVE  /\ s[i] = Total(SubSeq(objs, c[i - 1] + 1, c[i]))
               /\ Total(SubSeq(objs, c[i - 1] + 1, c[i])) <= budget \/ c[i] = c[i - 1] + 1
               /\ s[i] \in Nat
    <2> DEFINE m == c[i - 1]
               n == c[i]
               u == SubSeq(objs, m + 1, n)
    <2>1. m \in Nat /\ n \in m..Len(objs) /\ m + 1 = cuts[i] /\ n = LastOf(cuts, i)
      <3>1. m + 1 = cuts[i] /\ n = LastOf(cuts, i) /\ m < n
        BY <1>5
      <3>2. m \in 0..Len(objs) /\ n \in 0..Len(objs)
        <4>1. i - 1 \in 0..L /\ i \in 0..L
          BY <1>3
        <4>2. QED BY <1>4, <4>1
      <3> HIDE DEF m, n
      <3>3. QED BY <1>1, <3>1, <3>2
    <2> HIDE DEF m, n
    <2>2. u \in Seq(Nat) /\ Len(u) = n - m
      <3>1. m \in Nat /\ n \in m..Len(objs)
        BY <2>1
      <3>2. /\ SubSeq(objs, m + 1, n) \in Seq(Nat) /\ Len(SubSeq(objs, m + 1, n)) = n - m
            /\ \A j \in 1..(n - m) : SubSeq(objs, m + 1, n)[j] = objs[m + j]
        BY <3>1, Stretch
      <3>3. QED BY <3>2, Zenon
    <2>3. u = Part(cuts, i)
      BY <2>1, Zenon
    <2>4. s[i] = Total(Part(cuts, i)) /\ Fits(Part(cuts, i))
      BY <1>2, <1>3, Zenon
    <2>5. s[i] = Total(u) /\ (Total(u) <= budget \/ Len(u) = 1)
      BY <2>3, <2>4, Zenon
    <2>6. Total(u) \in Nat
      BY <2>2, SumsType
    <2> HIDE DEF u
    <2>7. s[i] = Total(u) /\ (Total(u) <= budget \/ n = m + 1)
      <3>1. m \in Nat /\ n \in Nat
        BY <1>1, <2>1
      <3>2. n - m = 1 => n = m + 1
        BY <3>1
      <3>3. Len(u) = 1 => n - m = 1
        BY <2>2, Zenon
      <3>4. QED BY <2>5, <3>2, <3>3, Zenon
    <2>8. QED BY <2>6, <2>7, Zenon DEF u, m, n
  <1>7. s \in Seq(Nat) /\ Len(s) = L
    <2>1. s \in [1..L -> Nat]
      BY <1>2, <1>3, <1>6
    <2>2. QED BY <1>3, <2>1, FunctionIsSequence
  <1>8. SplitAt(objs, budget, s, L, c)
    <2>1. ASSUME NEW i \in 1..L
          PROVE  /\ c[i - 1] < c[i]
                 /\ s[i] = Total(SubSeq(objs, c[i - 1] + 1, c[i]))
                 /\ s[i] <= budget \/ c[i] = c[i - 1] + 1
      BY <1>5, <1>6
    <2>2. QED BY <1>4, <1>7, <2>1, Zenon DEF SplitAt
  <1>9. QED BY <1>4, <1>8

-----------------------------------------------------------------------------
(* Bounds *)

\* g grows by at most K for every 1 that c grows.
GrowsWith(g, c, m, K) ==
    /\ g[0] = 0 /\ c[0] = 0
    /\ \A i \in 0..m : g[i] \in Nat /\ c[i] \in Nat
    /\ \A i \in 1..m : c[i - 1] <= c[i] /\ g[i] <= g[i - 1] + (c[i] - c[i - 1]) * K

\* What grows by at most K for every 1 is at most K times as large.
LEMMA BoundedGrowth ==
    ASSUME NEW g, NEW c, NEW m \in Nat, NEW K \in Nat, GrowsWith(g, c, m, K)
    PROVE  g[m] <= c[m] * K
  <1> USE DEF GrowsWith
  <1> DEFINE T == {i \in 0..m : g[i] <= c[i] * K}
  <1>1. 0 \in T
    OBVIOUS
  <1>2. ASSUME NEW i \in 1..m, i - 1 \in T PROVE i \in T
    <2> DEFINE u == g[i - 1]
               v == g[i]
               p == c[i - 1]
               q == c[i]
    <2>1. u <= p * K /\ p <= q /\ v <= u + (q - p) * K
      BY <1>2
    <2>2. u \in Nat /\ v \in Nat /\ p \in Nat /\ q \in Nat
      BY <1>2
    <2> HIDE DEF u, v, p, q
    <2>3. v <= q * K
      <3>1. q - p \in Nat /\ q = p + (q - p)
        BY <2>1, <2>2
      <3> DEFINE d == q - p
      <3>2. d \in Nat /\ q = p + d /\ v <= u + d * K
        BY <2>1, <3>1
      <3> HIDE DEF d
      <3>3. (p + d) * K = p * K + d * K /\ p * K \in Nat /\ d * K \in Nat
        BY <2>2, <3>2
      <3>4. QED BY <2>1, <2>2, <3>2, <3>3
    <2>4. QED BY <2>3 DEF v, q
  <1>3. m \in T
    <2> HIDE DEF T
    <2>1. \A i \in 1..m : i - 1 \in T => i \in T
      BY <1>2
    <2>2. 0..m \subseteq T
      BY <1>1, <2>1, UpTo
    <2>3. QED BY <2>2
  <1>4. QED BY <1>3

\* The sizes of objects that take at most K when each is a pack.
Small(K) == {x \in Nat : x > 0 /\ x + Overhead <= K}

\* Objects in one pack take at most K each.
LEMMA TotalBound ==
    ASSUME NEW K \in Nat, NEW u \in Seq(Small(K)), Len(u) >= 1
    PROVE  /\ u \in Seq(Nat) /\ Total(u) \in Nat
           /\ Total(u) > 0 /\ Total(u) + Overhead <= Len(u) * K
  <1>1. u \in Seq(Nat) /\ Len(u) \in Nat /\ \A i \in 1..Len(u) : u[i] \in Small(K)
    <2>1. Small(K) \subseteq Nat
      BY DEF Small
    <2>2. QED BY <2>1, SeqMonotonic, LenProperties, ElementOfSeq
  <1>2. /\ Sums(u)[0] = 0 /\ Total(u) \in Nat
        /\ \A n \in 0..Len(u) : Sums(u)[n] \in Nat
        /\ \A n \in 1..Len(u) : u[n] \in Nat /\ Sums(u)[n] = Sums(u)[n - 1] + u[n]
    BY <1>1, SumsType
  <1>3. Overhead \in Nat
    BY SizesAssumption
  <1> DEFINE L == Len(u)
             S == Sums(u)
             g == [i \in 0..L |-> IF i = 0 THEN 0 ELSE S[i] + Overhead]
             c == [i \in 0..L |-> i]
  <1>4. GrowsWith(g, c, L, K)
    <2>1. g[0] = 0 /\ c[0] = 0
      BY <1>1
    <2>2. ASSUME NEW i \in 0..L PROVE g[i] \in Nat /\ c[i] \in Nat
      BY <1>2, <1>3
    <2>3. ASSUME NEW i \in 1..L
          PROVE  c[i - 1] <= c[i] /\ g[i] <= g[i - 1] + (c[i] - c[i - 1]) * K
      <3>1. c[i] = i /\ c[i - 1] = i - 1 /\ i - 1 \in 0..L /\ i \in 0..L /\ i # 0
        BY <1>1
      <3>2. u[i] \in Nat /\ u[i] + Overhead <= K
        BY <1>1 DEF Small
      <3>3. S[i] = S[i - 1] + u[i] /\ S[i - 1] \in Nat
        BY <1>2, <3>1
      <3>4. g[i] = S[i] + Overhead
        BY <3>1
      <3>5. g[i] <= g[i - 1] + K
        <4>1. CASE i = 1
          <5>1. g[i - 1] = 0 /\ S[i - 1] = 0
            BY <1>2, <2>1, <4>1
          <5>2. QED BY <1>3, <3>2, <3>3, <3>4, <5>1
        <4>2. CASE i # 1
          <5>1. g[i - 1] = S[i - 1] + Overhead
            BY <3>1, <4>2
          <5> HIDE DEF g, S
          <5>2. QED BY <1>3, <3>2, <3>3, <3>4, <5>1
        <4>3. QED BY <4>1, <4>2
      <3>6. (c[i] - c[i - 1]) * K = K
        BY <3>1
      <3> HIDE DEF g, c
      <3>7. QED BY <3>1, <3>5, <3>6
    <2> HIDE DEF g, c
    <2>4. QED BY <2>1, <2>2, <2>3, Zenon DEF GrowsWith
  <1>5. g[L] <= c[L] * K
    <2> HIDE DEF g, c, L
    <2>1. L \in Nat
      BY <1>1 DEF L
    <2>2. QED BY <1>4, <2>1, BoundedGrowth
  <1>6. Total(u) + Overhead <= Len(u) * K
    <2>1. g[L] = S[L] + Overhead /\ c[L] = L
      BY <1>1
    <2>2. QED BY <1>5, <2>1, Zenon DEF Total
  <1>7. Total(u) > 0
    <2>1. 1 \in 1..L /\ L \in 1..L /\ 1 \in 0..L /\ u[1] \in Nat /\ u[1] > 0
      BY <1>1 DEF Small
    <2>2. Sums(u)[1] <= Sums(u)[Len(u)]
      BY <1>1, <2>1, SumsGrow
    <2>3. Sums(u)[1] = u[1]
      <3>1. Sums(u)[1] = Sums(u)[1 - 1] + u[1]
        BY <1>2, <2>1
      <3>2. QED BY <1>2, <2>1, <3>1
    <2>4. QED BY <1>2, <2>1, <2>2, <2>3 DEF Total
  <1>8. QED BY <1>1, <1>2, <1>6, <1>7

\* The sizes of packs: something and what encryption adds.
PackSizes == {p \in Nat : p > Overhead}

\* Encryption adds its overhead to each pack.
LEMMA EncryptedPacks ==
    ASSUME NEW s \in Seq(Nat)
    PROVE  /\ Encrypted(s) \in Seq(Nat) /\ Len(Encrypted(s)) = Len(s)
           /\ \A i \in 1..Len(s) : Encrypted(s)[i] = s[i] + Overhead
  <1>1. Len(s) \in Nat /\ DOMAIN s = 1..Len(s) /\ \A i \in 1..Len(s) : s[i] \in Nat
    BY LenProperties, ElementOfSeq
  <1>2. Overhead \in Nat
    BY SizesAssumption
  <1> DEFINE e == [i \in 1..Len(s) |-> s[i] + Overhead]
             L == Len(s)
  <1>3. e \in [1..L -> Nat] /\ \A i \in 1..L : e[i] = s[i] + Overhead
    BY <1>1, <1>2
  <1>4. Encrypted(s) = e
    BY <1>1 DEF Encrypted
  <1> HIDE DEF e
  <1>5. e \in Seq(Nat) /\ Len(e) = L
    BY <1>1, <1>3, FunctionIsSequence
  <1>6. QED BY <1>3, <1>4, <1>5

\* What is built of n objects takes at most n times what one takes.
Built(packs, n, K) ==
    /\ packs \in Seq(PackSizes) /\ Len(packs) >= 1 /\ Total(packs) <= n * K

\* One pack of all objects.
LEMMA SinglePack ==
    ASSUME NEW K \in Nat, NEW objs \in Seq(Small(K)), Len(objs) >= 1
    PROVE  Built(Encrypted(<<Total(objs)>>), Len(objs), K)
  <1> DEFINE x == Total(objs) + Overhead
             e == Encrypted(<<Total(objs)>>)
  <1>1. Total(objs) \in Nat /\ Total(objs) > 0 /\ x <= Len(objs) * K
    BY TotalBound
  <1>2. Overhead \in Nat
    BY SizesAssumption
  <1>3. e = <<x>>
    <2> DEFINE one == <<Total(objs)>>
               two == <<x>>
    <2>1. one \in Seq(Nat) /\ Len(one) = 1 /\ one[1] = Total(objs) /\ e = Encrypted(one)
      BY <1>1
    <2>2. two \in Seq(Nat) /\ Len(two) = 1 /\ two[1] = x
      BY <1>1, <1>2
    <2> HIDE DEF one, two, e
    <2>3. Encrypted(one) \in Seq(Nat) /\ Len(Encrypted(one)) = 1 /\ Encrypted(one)[1] = x
      <3>1. 1 \in 1..Len(one)
        BY <2>1
      <3>2. /\ Encrypted(one) \in Seq(Nat) /\ Len(Encrypted(one)) = Len(one)
            /\ Encrypted(one)[1] = one[1] + Overhead
        BY <2>1, <3>1, EncryptedPacks
      <3>3. QED BY <2>1, <3>2
    <2>4. \A i \in 1..Len(Encrypted(one)) : Encrypted(one)[i] = two[i]
      BY <2>2, <2>3
    <2>5. Encrypted(one) = two
      BY <2>2, <2>3, <2>4, SeqEqual
    <2>6. QED BY <2>1, <2>5 DEF two
  <1>4. x \in PackSizes /\ x \in Nat
    BY <1>1, <1>2 DEF PackSizes
  <1> HIDE DEF x
  <1>5. <<x>> \in Seq(PackSizes) /\ <<x>> \in Seq(Nat) /\ Len(<<x>>) = 1 /\ <<x>>[1] = x
    BY <1>4
  <1>6. Total(<<x>>) = x
    <2> DEFINE one == <<x>>
    <2>1. one \in Seq(Nat) /\ Len(one) = 1 /\ one[1] = x
      BY <1>5
    <2> HIDE DEF one
    <2>2. Sums(one)[0] = 0 /\ Sums(one)[1] = Sums(one)[1 - 1] + one[1]
      <3>1. 1 \in 1..Len(one)
        BY <2>1
      <3>2. QED BY <2>1, <3>1, SumsType
    <2>3. Sums(one)[1] = x
      BY <1>4, <2>1, <2>2
    <2>4. Total(one) = x
      BY <2>1, <2>3 DEF Total
    <2>5. QED BY <2>4, Zenon DEF one
  <1>7. Built(<<x>>, Len(objs), K)
    BY <1>1, <1>5, <1>6 DEF Built
  <1>8. QED BY <1>3, <1>7, Zenon

\* A pack for each stretch.
LEMMA SplitPacks ==
    ASSUME NEW K \in Nat, NEW objs \in Seq(Small(K)), Len(objs) >= 1, NEW budget \in Nat,
           NEW s \in SplitObjects(objs, budget)
    PROVE  Built(Encrypted(s), Len(objs), K)
  <1>1. objs \in Seq(Nat)
    BY TotalBound
  <1>2. PICK L \in 1..Len(objs) : \E c \in [0..L -> 0..Len(objs)] : SplitAt(objs, budget, s, L, c)
    BY <1>1, SplitsAreStretches
  <1>3. PICK c \in [0..L -> 0..Len(objs)] : SplitAt(objs, budget, s, L, c)
    BY <1>2
  <1> DEFINE e == Encrypted(s)
  <1>4. /\ s \in Seq(Nat) /\ Len(s) = L /\ L \in Nat /\ c[0] = 0 /\ c[L] = Len(objs)
        /\ Len(objs) \in Nat
    BY <1>1, <1>3, LenProperties DEF SplitAt
  <1>5. e \in Seq(Nat) /\ Len(e) = L /\ \A i \in 1..L : e[i] = s[i] + Overhead
    BY <1>4, EncryptedPacks
  <1> HIDE DEF e
  <1>6. ASSUME NEW i \in 1..L
        PROVE  /\ c[i - 1] <= c[i] /\ e[i] <= (c[i] - c[i - 1]) * K
               /\ e[i] \in PackSizes
    <2> DEFINE m == c[i - 1]
               n == c[i]
               u == SubSeq(objs, m + 1, n)
    <2>1. m \in 0..Len(objs) /\ n \in 0..Len(objs) /\ m < n /\ s[i] = Total(u)
      <3>1. i - 1 \in 0..L /\ i \in 0..L
        BY <1>4
      <3>2. QED BY <1>3, <3>1 DEF SplitAt
    <2>2. e[i] = s[i] + Overhead
      BY <1>5
    <2> HIDE DEF m, n
    <2>3. m \in Nat /\ n \in m..Len(objs)
      BY <1>4, <2>1
    <2>4. u \in Seq(Small(K)) /\ Len(u) = n - m
      BY <2>3, Stretch
    <2> HIDE DEF u
    <2>5. Len(u) >= 1
      BY <2>1, <2>3, <2>4
    <2>6. Total(u) \in Nat /\ Total(u) > 0 /\ Total(u) + Overhead <= Len(u) * K
      BY <2>4, <2>5, TotalBound
    <2>7. e[i] <= (n - m) * K
      <3>1. e[i] = Total(u) + Overhead
        BY <2>1, <2>2, Zenon
      <3>2. Total(u) + Overhead <= (n - m) * K
        BY <2>4, <2>6, Zenon
      <3>3. QED BY <3>1, <3>2, Zenon
    <2>8. e[i] \in PackSizes
      BY <2>1, <2>2, <2>6, SizesAssumption DEF PackSizes
    <2>9. m <= n
      BY <2>3
    <2>10. QED BY <2>7, <2>8, <2>9 DEF m, n
  <1>7. e \in Seq(PackSizes)
    <2>1. e \in [1..L -> PackSizes]
      BY <1>4, <1>5, <1>6, LenProperties
    <2>2. QED BY <1>4, <2>1, FunctionIsSequence
  <1>8. Total(e) <= Len(objs) * K
    <2> DEFINE g == Sums(e)
    <2>1. /\ g[0] = 0 /\ \A i \in 0..L : g[i] \in Nat
          /\ \A i \in 1..L : e[i] \in Nat /\ g[i] = g[i - 1] + e[i]
      BY <1>5, SumsType
    <2> HIDE DEF g
    <2>2. \A i \in 0..L : c[i] \in Nat
      BY <1>3, <1>4
    <2>3. ASSUME NEW i \in 1..L PROVE g[i] <= g[i - 1] + (c[i] - c[i - 1]) * K
      <3> DEFINE d == (c[i] - c[i - 1]) * K
      <3>1. d \in Int
        <4>1. c[i] \in Nat /\ c[i - 1] \in Nat
          BY <1>4, <2>2
        <4>2. QED BY <4>1
      <3>2. e[i] <= d
        BY <1>6
      <3> HIDE DEF d
      <3> DEFINE a == g[i - 1]
                 b == g[i]
                 x == e[i]
      <3>3. a \in Nat /\ x \in Nat /\ b = a + x
        BY <1>4, <2>1
      <3>4. x <= d
        BY <3>2
      <3> HIDE DEF a, b, x
      <3>5. b <= a + d
        BY <3>1, <3>3, <3>4
      <3>6. QED BY <3>5 DEF a, b, d
    <2>4. GrowsWith(g, c, L, K)
      BY <1>4, <1>6, <2>1, <2>2, <2>3 DEF GrowsWith
    <2>5. g[L] <= c[L] * K
      BY <1>4, <2>4, BoundedGrowth
    <2>6. QED BY <1>4, <1>5, <2>5 DEF Total, g
  <1>9. Len(e) >= 1
    BY <1>2, <1>4, <1>5
  <1>10. QED BY <1>7, <1>8, <1>9 DEF Built, e

-----------------------------------------------------------------------------
(* Geometry *)

\* A number has no high half exactly if it is below a word, and is its low half then.
LEMMA Halves ==
    ASSUME NEW n \in Nat, NEW w \in Nat \ {0}
    PROVE  (n < w => n % w = n) /\ (n \div w = 0 <=> n < w)
  OBVIOUS

\* The comparison in two words compares numbers.
LEMMA SmallerCompares ==
    ASSUME NEW size \in Nat, size < Word, NEW f \in Nat, NEW cum \in Nat
    PROVE  Smaller(size, f, cum) <=> size < f * cum
  <1> DEFINE n == f * cum
             hi == n \div Word
             lo == n % Word
  <1>1. n \in Nat /\ Word \in Nat \ {0}
    BY SizesAssumption
  <1>2. Smaller(size, f, cum) <=> (hi # 0 \/ size < lo)
    BY DEF Smaller
  <1> HIDE DEF n
  <1>3. (n < Word => lo = n) /\ (hi = 0 <=> n < Word)
    BY <1>1, Halves
  <1> HIDE DEF hi, lo
  <1>4. (hi # 0 \/ size < lo) <=> size < n
    BY <1>1, <1>3
  <1>5. QED BY <1>2, <1>4 DEF n

\* A pack violates the progression over words exactly if it does over numbers.
LEMMA ViolatesCompares ==
    ASSUME NEW s \in Seq(Nat), Total(s) < Word, NEW f \in Nat, NEW i \in 1..Len(s)
    PROVE  Violates(s, f, i) <=> s[i] < f * Sums(s)[i - 1]
  <1>1. /\ Len(s) \in Nat /\ Total(s) \in Nat /\ Word \in Nat \ {0}
        /\ i - 1 \in 0..Len(s) /\ i \in 0..Len(s) /\ Len(s) \in i..Len(s)
    BY SumsType, SizesAssumption
  <1>2. /\ Sums(s)[i - 1] \in Nat /\ Sums(s)[i] \in Nat /\ s[i] \in Nat
        /\ Sums(s)[i] = Sums(s)[i - 1] + s[i]
    BY <1>1, SumsType
  <1>3. Sums(s)[i] <= Total(s)
    BY <1>1, SumsGrow DEF Total
  <1> DEFINE cum == Sums(s)[i - 1]
             size == s[i]
             upto == Sums(s)[i]
             all == Total(s)
  <1>4. cum \in Nat /\ size \in Nat /\ cum < Word /\ size < Word
    <2>1. /\ cum \in Nat /\ size \in Nat /\ upto \in Nat /\ all \in Nat /\ Word \in Nat
          /\ upto = cum + size
      BY <1>1, <1>2
    <2>2. upto <= all /\ all < Word
      BY <1>3
    <2> HIDE DEF cum, size, upto, all
    <2>3. QED BY <2>1, <2>2
  <1> HIDE DEF cum, size
  <1>5. cum % Word = cum
    BY <1>1, <1>4, Halves
  <1>6. Violates(s, f, i) <=> Smaller(size, f, cum)
    BY <1>5 DEF Violates, cum, size
  <1>7. QED BY <1>4, <1>6, SmallerCompares DEF cum, size

\* The first k packs merge: the last of them is too small, and those after it are not.
MergeTo(s, f, k) ==
    /\ Victims(s, f) = SubSeq(s, 1, k)
    /\ s[k] < f * Sums(s)[k - 1]
    /\ \A i \in (k + 1)..Len(s) : s[i] >= f * Sums(s)[i - 1]

\* The progression with factor f.
Progression(s, f) == \A i \in 2..Len(s) : s[i] >= f * Sums(s)[i - 1]

\* Victims are the packs up to the last one that is too small.
LEMMA VictimsFacts ==
    ASSUME NEW s \in Seq(Nat), Total(s) < Word, NEW f \in Nat
    PROVE  \/ Victims(s, f) = <<>> /\ (f = 0 \/ Progression(s, f))
           \/ f # 0 /\ \E k \in 2..Len(s) : MergeTo(s, f, k)
  <1> DEFINE bad == {i \in 2..Len(s) : Violates(s, f, i)}
  <1>1. Len(s) \in Nat
    BY SumsType
  <1>2. \A i \in 2..Len(s) : /\ s[i] \in Nat /\ f * Sums(s)[i - 1] \in Nat
                             /\ Violates(s, f, i) <=> s[i] < f * Sums(s)[i - 1]
    <2>1. SUFFICES ASSUME NEW i \in 2..Len(s)
                   PROVE  /\ s[i] \in Nat /\ f * Sums(s)[i - 1] \in Nat
                          /\ Violates(s, f, i) <=> s[i] < f * Sums(s)[i - 1]
      OBVIOUS
    <2>2. i \in 1..Len(s) /\ i - 1 \in 0..Len(s)
      BY <1>1
    <2>3. s[i] \in Nat /\ Sums(s)[i - 1] \in Nat
      BY <2>2, SumsType
    <2>4. f * Sums(s)[i - 1] \in Nat
      <3> DEFINE cum == Sums(s)[i - 1]
      <3>1. cum \in Nat
        BY <2>3
      <3> HIDE DEF cum
      <3>2. f * cum \in Nat
        BY <3>1
      <3>3. QED BY <3>2 DEF cum
    <2>5. QED BY <2>2, <2>3, <2>4, ViolatesCompares
  <1>3. CASE f = 0
    <2>1. Victims(s, f) = <<>>
      BY <1>3 DEF Victims
    <2>2. QED BY <1>3, <2>1
  <1>4. CASE bad = {}
    <2>1. InitialSplit(s, f) = 0
      BY <1>4 DEF InitialSplit
    <2>2. Victims(s, f) = <<>>
      BY <2>1 DEF Victims
    <2>3. ASSUME NEW i \in 2..Len(s) PROVE s[i] >= f * Sums(s)[i - 1]
      <3> DEFINE p == f * Sums(s)[i - 1]
      <3>1. s[i] \in Nat /\ p \in Nat /\ ~(s[i] < p)
        BY <1>2, <1>4
      <3> HIDE DEF p
      <3>2. s[i] >= p
        BY <3>1
      <3>3. QED BY <3>2 DEF p
    <2>4. QED BY <2>2, <2>3 DEF Progression
  <1>5. CASE f # 0 /\ bad # {}
    <2> DEFINE k == Max(bad)
    <2>1. \E x \in bad : \A y \in bad : y <= x
      <3>1. bad \in SUBSET (0..Len(s))
        BY <1>1
      <3> HIDE DEF bad
      <3>2. QED BY <1>1, <1>5, <3>1, GreatestElement
    <2>2. k \in bad /\ \A y \in bad : y <= k
      <3>1. \A x, y \in bad : y <= x <=> x >= y
        BY <1>1
      <3>2. \E x \in bad : \A y \in bad : x >= y
        BY <2>1, <3>1
      <3> HIDE DEF bad
      <3>3. k \in bad /\ \A y \in bad : k >= y
        BY <3>2 DEF Max
      <3>4. QED BY <3>1, <3>3
    <2>3. InitialSplit(s, f) = k
      BY <1>5 DEF InitialSplit
    <2> HIDE DEF k
    <2>4. k \in 2..Len(s) /\ Violates(s, f, k)
      BY <2>2
    <2>5. \A i \in (k + 1)..Len(s) : i \in 2..Len(s) /\ ~Violates(s, f, i)
      <3>1. SUFFICES ASSUME NEW i \in (k + 1)..Len(s)
                     PROVE  i \in 2..Len(s) /\ ~Violates(s, f, i)
        OBVIOUS
      <3>2. i \in 2..Len(s) /\ ~(i <= k)
        BY <1>1, <2>4
      <3>3. QED BY <2>2, <3>2
    <2>6. ExtendSplit(s, f, k) = k
      <3> DEFINE T == {j \in k..Len(s) : \A n \in (k + 1)..j : Violates(s, f, n)}
      <3>1. k \in T
        BY <1>1, <2>4
      <3>2. ASSUME NEW j \in T PROVE j = k
        <4>1. CASE j > k
          <5>1. k + 1 \in (k + 1)..j /\ k + 1 \in (k + 1)..Len(s)
            BY <1>1, <2>4, <4>1
          <5>2. QED BY <2>5, <3>2, <5>1
        <4>2. QED BY <1>1, <2>4, <4>1
      <3>3. T = {k}
        BY <3>1, <3>2
      <3>4. Max({k}) = k
        <4>1. k >= k
          BY <2>4
        <4>2. QED BY <4>1 DEF Max
      <3>5. QED BY <3>3, <3>4 DEF ExtendSplit
    <2>7. Victims(s, f) = SubSeq(s, 1, k)
      <3>1. ~(Len(s) < 2) /\ k # 0
        BY <1>1, <2>4
      <3>2. QED BY <1>5, <2>3, <2>6, <3>1 DEF Victims
    <2>8. s[k] < f * Sums(s)[k - 1]
      BY <1>2, <2>4
    <2>9. \A i \in (k + 1)..Len(s) : s[i] >= f * Sums(s)[i - 1]
      BY <1>2, <2>5
    <2>10. QED BY <1>5, <2>4, <2>7, <2>8, <2>9 DEF MergeTo
  <1>6. QED BY <1>3, <1>4, <1>5

-----------------------------------------------------------------------------
(* Merging *)

\* v are the first k packs of s, o are the others.
PartedAt(P, s, k, v, o) ==
    /\ v \in Ordered(P) /\ Len(v) = k /\ o \in Ordered(P) /\ Len(o) = Len(s) - k
    /\ \A i \in 1..k : v[i] = s[i]
    /\ \A i \in 0..k : Sums(v)[i] = Sums(s)[i]
    /\ \A i \in 1..(Len(s) - k) : o[i] = s[k + i]
    /\ \A i \in 0..(Len(s) - k) : Sums(o)[i] + Sums(s)[k] = Sums(s)[k + i]

\* Packs part into victims and others.
LEMMA Parting ==
    ASSUME NEW P \in SUBSET Nat, NEW s \in Ordered(P), NEW k \in 0..Len(s)
    PROVE  PartedAt(P, s, k, SubSeq(s, 1, k), SubSeq(s, k + 1, Len(s)))
  <1> DEFINE v == SubSeq(s, 1, k)
             o == SubSeq(s, k + 1, Len(s))
             r == Len(s) - k
  <1>1. /\ s \in Seq(P) /\ s \in Seq(Nat) /\ InOrder(s) /\ Len(s) \in Nat
        /\ k \in Nat /\ r \in Nat /\ k + r = Len(s)
    <2>1. s \in Seq(P) /\ InOrder(s)
      BY DEF Ordered
    <2>2. s \in Seq(Nat) /\ Len(s) \in Nat
      BY <2>1, LenProperties, SeqMonotonic
    <2>3. QED BY <2>1, <2>2
  <1>2. v \in Seq(P) /\ Len(v) = k /\ \A i \in 1..k : v[i] = s[i]
    <2>1. 0 \in Nat /\ k \in 0..Len(s) /\ 0 + 1 = 1 /\ k - 0 = k /\ \A i \in 1..k : 0 + i = i
      BY <1>1
    <2>2. /\ SubSeq(s, 0 + 1, k) \in Seq(P) /\ Len(SubSeq(s, 0 + 1, k)) = k - 0
          /\ \A i \in 1..(k - 0) : SubSeq(s, 0 + 1, k)[i] = s[0 + i]
      BY <1>1, <2>1, Stretch
    <2>3. QED BY <2>1, <2>2
  <1>3. o \in Seq(P) /\ Len(o) = r /\ \A i \in 1..r : o[i] = s[k + i]
    <2>1. k \in Nat /\ Len(s) \in k..Len(s) /\ s \in Seq(P)
      BY <1>1
    <2> HIDE DEF o
    <2>2. /\ SubSeq(s, k + 1, Len(s)) \in Seq(P) /\ Len(SubSeq(s, k + 1, Len(s))) = Len(s) - k
          /\ \A i \in 1..(Len(s) - k) : SubSeq(s, k + 1, Len(s))[i] = s[k + i]
      BY <2>1, Stretch
    <2>3. QED BY <2>2, Zenon DEF o
  <1> HIDE DEF v, o, r
  <1>4. v \in Seq(Nat) /\ o \in Seq(Nat)
    BY <1>2, <1>3, SeqMonotonic
  <1>5. InOrder(v)
    <2>1. SUFFICES ASSUME NEW i \in 1..k, NEW j \in 1..k, i <= j PROVE v[i] <= v[j]
      BY <1>2 DEF InOrder
    <2>2. i \in 1..Len(s) /\ j \in 1..Len(s)
      BY <1>1
    <2>3. s[i] <= s[j]
      BY <1>1, <2>1, <2>2 DEF InOrder
    <2>4. QED BY <1>2, <2>3
  <1>6. InOrder(o)
    <2>1. SUFFICES ASSUME NEW i \in 1..r, NEW j \in 1..r, i <= j PROVE o[i] <= o[j]
      BY <1>3 DEF InOrder
    <2>2. k + i \in 1..Len(s) /\ k + j \in 1..Len(s) /\ k + i <= k + j
      BY <1>1, <2>1
    <2>3. s[k + i] <= s[k + j]
      BY <1>1, <2>2 DEF InOrder
    <2>4. QED BY <1>3, <2>3
  <1>7. ASSUME NEW i \in 0..k PROVE Sums(v)[i] = Sums(s)[i]
    <2>1. Alike(v, 0, s, 0, i)
      <3>1. 0 + i <= Len(v) /\ 0 + i <= Len(s)
        BY <1>1, <1>2
      <3>2. ASSUME NEW j \in 1..i PROVE v[0 + j] = s[0 + j]
        <4>1. j \in 1..k /\ 0 + j = j
          BY <1>1
        <4>2. QED BY <1>2, <4>1
      <3>3. QED BY <3>1, <3>2 DEF Alike
    <2>2. Sums(v)[0 + i] + Sums(s)[0] = Sums(s)[0 + i] + Sums(v)[0]
      BY <1>1, <1>4, <2>1, SameSums
    <2>3. /\ Sums(s)[0] = 0 /\ Sums(v)[0] = 0 /\ Sums(v)[i] \in Nat /\ Sums(s)[i] \in Nat
          /\ 0 + i = i
      <3>1. i \in 0..Len(s) /\ i \in 0..Len(v)
        BY <1>1, <1>2
      <3>2. QED BY <1>1, <1>4, <3>1, SumsType
    <2>4. QED BY <2>2, <2>3
  <1>8. ASSUME NEW i \in 0..r PROVE Sums(o)[i] + Sums(s)[k] = Sums(s)[k + i]
    <2>1. Alike(o, 0, s, k, i)
      <3>1. 0 + i <= Len(o) /\ k + i <= Len(s)
        BY <1>1, <1>3
      <3>2. ASSUME NEW j \in 1..i PROVE o[0 + j] = s[k + j]
        <4>1. j \in 1..r /\ 0 + j = j
          BY <1>1
        <4>2. QED BY <1>3, <4>1
      <3>3. QED BY <3>1, <3>2 DEF Alike
    <2>2. Sums(o)[0 + i] + Sums(s)[k] = Sums(s)[k + i] + Sums(o)[0]
      BY <1>1, <1>4, <2>1, SameSums
    <2>3. Sums(o)[0] = 0 /\ Sums(s)[k + i] \in Nat /\ 0 + i = i
      <3>1. k + i \in 0..Len(s)
        BY <1>1
      <3>2. QED BY <1>1, <1>4, <3>1, SumsType
    <2>4. QED BY <2>2, <2>3
  <1>9. v \in Ordered(P) /\ o \in Ordered(P)
    BY <1>2, <1>3, <1>5, <1>6 DEF Ordered
  <1>10. PartedAt(P, s, k, v, o)
    BY <1>2, <1>3, <1>7, <1>8, <1>9 DEF PartedAt, r
  <1>11. QED BY <1>10 DEF v, o

\* A merged pack is a pack, and no larger than all that were merged.
LEMMA MergedBounds ==
    ASSUME NEW v \in Seq(PackSizes), Len(v) >= 1, NEW m \in MergedSizes(v)
    PROVE  m \in PackSizes /\ m <= Total(v)
  <1> DEFINE L == Len(v)
             S == Sums(v)
             D == Overhead + 1
  <1>1. /\ v \in Seq(Nat) /\ L \in Nat /\ L >= 1 /\ L \in 1..L
        /\ \A i \in 1..L : v[i] \in Nat /\ v[i] > Overhead
    <2>1. PackSizes \subseteq Nat
      BY DEF PackSizes
    <2>2. v \in Seq(Nat) /\ L \in Nat
      BY <2>1, SeqMonotonic, LenProperties
    <2>3. \A i \in 1..L : v[i] \in PackSizes
      BY ElementOfSeq
    <2>4. QED BY <2>2, <2>3 DEF PackSizes
  <1>2. /\ S[0] = 0 /\ \A i \in 0..L : S[i] \in Nat
        /\ \A i \in 1..L : S[i] = S[i - 1] + v[i]
    BY <1>1, SumsType
  <1>3. Overhead \in Nat /\ D \in Nat /\ Total(v) \in Nat /\ Total(v) = S[L]
    BY <1>1, SizesAssumption, SumsType DEF Total
  <1>4. L * D <= Total(v)
    <2> DEFINE g == [i \in 0..L |-> i * D]
    <2>1. ASSUME NEW i \in 0..L PROVE g[i] \in Nat /\ g[i] = i * D
      BY <1>1, <1>3
    <2>2. g[0] = 0 /\ 0 \in 0..L
      BY <1>1, <1>3
    <2>3. ASSUME NEW i \in 1..L
          PROVE  S[i - 1] <= S[i] /\ g[i] <= g[i - 1] + (S[i] - S[i - 1]) * 1
      <3>1. i \in 0..L /\ i - 1 \in 0..L
        BY <1>1
      <3>2. g[i] = i * D /\ g[i - 1] = (i - 1) * D
        BY <2>1, <3>1
      <3>3. i * D = (i - 1) * D + D
        BY <1>3, <3>1
      <3>4. g[i] = g[i - 1] + D /\ g[i - 1] \in Nat
        BY <2>1, <3>1, <3>2, <3>3
      <3> DEFINE p == S[i - 1]
                 q == S[i]
                 x == v[i]
                 a == g[i - 1]
                 b == g[i]
      <3>5. p \in Nat /\ q \in Nat /\ q = p + x /\ x \in Nat /\ x >= D
        BY <1>1, <1>2, <1>3, <3>1
      <3>6. b = a + D /\ a \in Nat
        BY <3>4
      <3> HIDE DEF p, q, x, a, b, D
      <3>7. p <= q /\ q - p = x
        BY <1>3, <3>5
      <3>8. x * 1 = x /\ b <= a + x
        BY <1>3, <3>5, <3>6
      <3>9. p <= q /\ b <= a + (q - p) * 1
        BY <3>7, <3>8
      <3>10. QED BY <3>9 DEF p, q, a, b
    <2> HIDE DEF g, D, S
    <2>4. GrowsWith(g, S, L, 1)
      BY <1>2, <2>1, <2>2, <2>3 DEF GrowsWith
    <2> HIDE DEF L
    <2>5. g[L] <= S[L] * 1
      BY <1>1, <2>4, BoundedGrowth
    <2>6. g[L] = L * D /\ S[L] \in Nat
      BY <1>1, <1>2, <2>1
    <2>7. QED BY <1>3, <2>5, <2>6
  <1>5. v[L] <= Total(v) /\ v[L] \in Nat /\ v[L] > Overhead
    <2>1. v[L] \in Nat /\ v[L] > Overhead /\ L - 1 \in 0..L
      BY <1>1
    <2>2. S[L] = S[L - 1] + v[L] /\ S[L - 1] \in Nat
      BY <1>1, <1>2, <2>1
    <2> HIDE DEF S
    <2>3. v[L] <= S[L]
      BY <2>1, <2>2
    <2>4. QED BY <1>3, <2>1, <2>3
  <1>6. (L - 1) * Overhead \in Nat /\ (L - 1) * Overhead + L + Overhead = L * D
    BY <1>1, <1>3
  <1> HIDE DEF L, S, D
  <1> DEFINE T == Total(v)
             R == (L - 1) * Overhead
  <1>7. m \in {T, T - R, v[L]}
    BY DEF MergedSizes, Last, L
  <1>8. T \in Nat /\ R \in Nat /\ R + L + Overhead <= T
    BY <1>3, <1>4, <1>6
  <1> HIDE DEF T, R
  <1>9. T - R \in Nat /\ T - R > Overhead /\ T - R <= T /\ T > Overhead
    BY <1>1, <1>3, <1>8
  <1>10. m \in Nat /\ m > Overhead /\ m <= T
    BY <1>5, <1>7, <1>8, <1>9 DEF T
  <1>11. QED BY <1>10 DEF T, PackSizes

-----------------------------------------------------------------------------
(* The invariant *)

\* No packs, and a single one.
LEMMA FewPacks ==
    ASSUME NEW P \in SUBSET Nat
    PROVE  /\ <<>> \in Ordered(P) /\ Len(<<>>) = 0 /\ Total(<<>>) = 0
           /\ \A m \in P : <<m>> \in Ordered(P) /\ Len(<<m>>) = 1 /\ Total(<<m>>) = m
  <1>1. <<>> \in Ordered(P) /\ Len(<<>>) = 0
    BY DEF Ordered, InOrder
  <1>2. Total(<<>>) = 0
    <2> DEFINE e == <<>>
    <2>1. e \in Seq(Nat) /\ Len(e) = 0
      OBVIOUS
    <2> HIDE DEF e
    <2>2. Sums(e)[0] = 0
      BY <2>1, SumsType
    <2>3. Total(e) = 0
      BY <2>1, <2>2 DEF Total
    <2>4. QED BY <2>3, Zenon DEF e
  <1>3. ASSUME NEW m \in P PROVE <<m>> \in Ordered(P) /\ Len(<<m>>) = 1 /\ Total(<<m>>) = m
    <2> DEFINE one == <<m>>
    <2>1. /\ one \in Seq(P) /\ one \in Seq(Nat) /\ Len(one) = 1 /\ one[1] = m /\ m \in Nat
      OBVIOUS
    <2> HIDE DEF one
    <2>2. InOrder(one)
      BY <2>1 DEF InOrder
    <2>3. Sums(one)[0] = 0 /\ Sums(one)[1] = Sums(one)[1 - 1] + one[1]
      <3>1. 1 \in 1..Len(one)
        BY <2>1
      <3>2. QED BY <2>1, <3>1, SumsType
    <2>4. Sums(one)[1] = m
      BY <2>1, <2>3
    <2>5. one \in Ordered(P) /\ Len(one) = 1 /\ Total(one) = m
      BY <2>1, <2>2, <2>4 DEF Total, Ordered
    <2>6. QED BY <2>5, Zenon DEF one
  <1>4. QED BY <1>1, <1>2, <1>3

\* K is a size that no object exceeds when it is a pack, and all pushes of such
\* objects fit in a word.
Cap(K) == K \in Nat /\ ObjSizes \subseteq Small(K) /\ MaxPushes * (MaxObjs * K) < Word

\* The caps on size and number of packs give such a size.
LEMMA CapExists == \E K \in Nat : Cap(K)
  <1>1. /\ ObjSizes \subseteq Nat \ {0} /\ Overhead \in Nat /\ Word \in Nat \ {0}
        /\ MaxObjs \in Nat \ {0} /\ MaxPushes \in Nat \ {0}
    BY SizesAssumption
  <1>2. CASE ObjSizes = {}
    <2>1. MaxPushes * (MaxObjs * 0) < Word
      BY <1>1
    <2>2. Cap(0)
      BY <1>2, <2>1 DEF Cap
    <2>3. QED BY <2>2
  <1>3. CASE ObjSizes # {}
    <2>1. ASSUME NEW x \in ObjSizes PROVE x \in 0..Word /\ MaxPushes * (MaxObjs * (x + Overhead)) < Word
      <3> DEFINE k == x + Overhead
                 c == MaxPushes * MaxObjs
      <3>1. x \in Nat /\ k \in Nat /\ x <= k
        BY <1>1
      <3>2. c * k < Word
        BY WordAssumption
      <3> HIDE DEF k
      <3>3. c * k = MaxPushes * (MaxObjs * k)
        BY <1>1, <3>1
      <3>4. c \in Nat /\ c >= 1
        BY <1>1
      <3> HIDE DEF c
      <3>5. c * k >= k
        <4>1. PICK d \in Nat : c = d + 1
          BY <3>4
        <4>2. c * k = d * k + k /\ d * k \in Nat
          BY <3>1, <4>1
        <4>3. QED BY <3>1, <4>2
      <3>6. c * k \in Nat
        BY <3>1, <3>4
      <3>7. x <= Word
        BY <1>1, <3>1, <3>2, <3>5, <3>6
      <3>8. QED BY <1>1, <3>1, <3>2, <3>3, <3>7 DEF k
    <2>2. PICK x \in ObjSizes : \A y \in ObjSizes : y <= x
      <3>1. ObjSizes \in SUBSET (0..Word)
        BY <2>1
      <3>2. QED BY <1>1, <1>3, <3>1, GreatestElement
    <2>3. ObjSizes \subseteq Small(x + Overhead)
      BY <1>1, <2>2 DEF Small
    <2>4. x + Overhead \in Nat
      BY <1>1
    <2>5. Cap(x + Overhead)
      BY <2>1, <2>3, <2>4 DEF Cap
    <2>6. QED BY <2>4, <2>5
  <1>4. QED BY <1>2, <1>3

\* The sizes of packs that the host takes.
Fitting == {p \in PackSizes : limit # 0 => p <= limit}

\* s is a manifest's packs after the pushes so far.
Manifest(s, K) ==
    /\ s \in Ordered(Fitting) /\ Len(s) <= MaxPacks
    /\ Total(s) <= pushes * (MaxObjs * K)

\* Without a limit the first push has one pack, and no published pack is too small.
Progressing ==
    limit = 0 => Progression(live, factor) /\ (live = <<>> => Len(plan) <= 1)

PackInv(K) ==
    /\ limit \in Limits /\ factor \in Factors /\ pushes \in 0..MaxPushes
    /\ Manifest(live, K) /\ Manifest(plan, K)
    /\ Progressing

\* What the invariant says of a manifest's packs.
LEMMA ManifestFacts ==
    ASSUME NEW K \in Nat, Cap(K), pushes \in 0..MaxPushes, NEW s, Manifest(s, K)
    PROVE  /\ Fitting \in SUBSET Nat /\ PackSizes \in SUBSET Nat
           /\ s \in Ordered(PackSizes) /\ s \in Seq(PackSizes) /\ s \in Seq(Nat)
           /\ Len(s) \in Nat /\ Total(s) \in Nat /\ Total(s) < Word
  <1>1. Fitting \in SUBSET Nat /\ PackSizes \in SUBSET Nat /\ Fitting \subseteq PackSizes
    BY DEF Fitting, PackSizes
  <1>2. s \in Seq(Fitting) /\ InOrder(s)
    BY DEF Manifest, Ordered
  <1>3. s \in Seq(PackSizes) /\ s \in Seq(Nat)
    BY <1>1, <1>2, SeqMonotonic
  <1>4. Len(s) \in Nat /\ Total(s) \in Nat
    BY <1>3, SumsType
  <1>5. Total(s) < Word
    <2> DEFINE M == MaxObjs * K
    <2>1. M \in Nat /\ pushes \in Nat /\ pushes <= MaxPushes /\ MaxPushes \in Nat
      BY SizesAssumption
    <2>2. MaxPushes * M < Word /\ Total(s) <= pushes * M
      BY DEF Cap, Manifest
    <2> HIDE DEF M
    <2>3. pushes * M <= MaxPushes * M
      <3>1. PICK d \in Nat : MaxPushes = pushes + d
        <4>1. MaxPushes - pushes \in Nat /\ MaxPushes = pushes + (MaxPushes - pushes)
          BY <2>1
        <4>2. QED BY <4>1
      <3>2. MaxPushes * M = pushes * M + d * M /\ d * M \in Nat /\ pushes * M \in Nat
        BY <2>1, <3>1
      <3>3. QED BY <3>2
    <2>4. pushes * M \in Nat /\ MaxPushes * M \in Nat /\ Word \in Nat
      BY <2>1, SizesAssumption
    <2>5. QED BY <1>4, <2>2, <2>3, <2>4
  <1>6. QED BY <1>1, <1>2, <1>3, <1>4, <1>5 DEF Ordered

-----------------------------------------------------------------------------
(* The steps *)

\* What a push builds.
LEMMA BuiltOfObjects ==
    ASSUME NEW K \in Nat, Cap(K), limit \in Limits, NEW n \in 1..MaxObjs,
           NEW objs \in [1..n -> ObjSizes], NEW packs \in BuildPacks(objs)
    PROVE  /\ objs \in Seq(Small(K)) /\ objs \in Seq(Nat) /\ Len(objs) = n
           /\ Built(packs, n, K) /\ SplitBudget(limit) \in Nat
           /\ \/ /\ packs = Encrypted(<<Total(objs)>>)
                 /\ limit = 0 \/ Total(objs) + Overhead <= limit \/ SplitBudget(limit) = 0
              \/ /\ limit # 0 /\ SplitBudget(limit) # 0
                 /\ \E s \in SplitObjects(objs, SplitBudget(limit)) : packs = Encrypted(s)
  <1>1. n \in Nat /\ n >= 1 /\ limit \in Nat /\ ObjSizes \subseteq Small(K)
    BY SizesAssumption DEF Cap
  <1>2. objs \in Seq(Small(K)) /\ Len(objs) = n
    <2>1. objs \in [1..n -> Small(K)]
      BY <1>1
    <2>2. QED BY <1>1, <2>1, FunctionIsSequence
  <1>3. objs \in Seq(Nat)
    BY <1>1, <1>2, TotalBound
  <1>4. SplitBudget(limit) \in Nat
    BY <1>1, SizesAssumption DEF SplitBudget
  <1>5. \/ /\ packs = Encrypted(<<Total(objs)>>)
           /\ limit = 0 \/ Total(objs) + Overhead <= limit \/ SplitBudget(limit) = 0
        \/ /\ limit # 0 /\ SplitBudget(limit) # 0
           /\ \E s \in SplitObjects(objs, SplitBudget(limit)) : packs = Encrypted(s)
    BY Zenon DEF BuildPacks
  <1>6. Built(packs, n, K)
    <2>1. CASE packs = Encrypted(<<Total(objs)>>)
      BY <1>1, <1>2, <2>1, SinglePack
    <2>2. CASE \E s \in SplitObjects(objs, SplitBudget(limit)) : packs = Encrypted(s)
      BY <1>1, <1>2, <1>4, <2>2, SplitPacks
    <2>3. QED BY <1>5, <2>1, <2>2
  <1>7. QED BY <1>2, <1>3, <1>4, <1>5, <1>6

\* What a push may upload.
LEMMA PlannedPacks ==
    ASSUME NEW K \in Nat, Cap(K), limit \in Limits, NEW n \in 1..MaxObjs,
           NEW objs \in [1..n -> ObjSizes], NEW packs \in BuildPacks(objs), ~TooLarge(packs)
    PROVE  /\ packs \in Seq(Fitting) /\ Len(packs) \in Nat /\ Len(packs) >= 1
           /\ Total(packs) \in Nat /\ Total(packs) <= MaxObjs * K
           /\ limit = 0 => Len(packs) = 1
  <1>1. /\ packs \in Seq(PackSizes) /\ Len(packs) >= 1 /\ Total(packs) <= n * K
        /\ objs \in Seq(Small(K)) /\ Len(objs) = n
    BY BuiltOfObjects DEF Built
  <1>2. /\ Len(packs) \in Nat /\ DOMAIN packs = 1..Len(packs) /\ Total(packs) \in Nat
        /\ \A i \in 1..Len(packs) : packs[i] \in PackSizes
    <2>1. packs \in Seq(Nat)
      BY <1>1, SeqMonotonic DEF PackSizes
    <2>2. QED BY <1>1, <2>1, LenProperties, ElementOfSeq, SumsType
  <1>3. packs \in Seq(Fitting)
    <2>1. ASSUME NEW i \in 1..Len(packs) PROVE packs[i] \in Fitting
      <3>1. packs[i] \in Range(packs)
        BY <1>2 DEF Range
      <3>2. limit # 0 => ~(packs[i] > limit)
        BY <3>1 DEF TooLarge
      <3>3. limit \in Nat /\ packs[i] \in Nat
        BY <1>2, SizesAssumption DEF PackSizes
      <3>4. QED BY <1>2, <3>2, <3>3 DEF Fitting
    <2>2. packs \in [1..Len(packs) -> Fitting]
      BY <1>1, <1>2, <2>1, LenProperties
    <2>3. QED BY <1>2, <2>2, FunctionIsSequence
  <1>4. Total(packs) <= MaxObjs * K
    <2>1. PICK d \in Nat : MaxObjs = n + d
      <3>1. MaxObjs - n \in Nat /\ MaxObjs = n + (MaxObjs - n)
        BY SizesAssumption
      <3>2. QED BY <3>1
    <2>2. n \in Nat
      OBVIOUS
    <2>3. MaxObjs * K = n * K + d * K /\ n * K \in Nat /\ d * K \in Nat
      BY <2>1, <2>2
    <2>4. QED BY <1>1, <1>2, <2>3
  <1>5. limit = 0 => Len(packs) = 1
    <2>1. SUFFICES ASSUME limit = 0 PROVE Len(packs) = 1
      OBVIOUS
    <2>2. packs = Encrypted(<<Total(objs)>>)
      BY <2>1, BuiltOfObjects
    <2> DEFINE one == <<Total(objs)>>
    <2>3. Total(objs) \in Nat
      BY <1>1, TotalBound
    <2>4. one \in Seq(Nat) /\ Len(one) = 1
      BY <2>3
    <2> HIDE DEF one
    <2>5. Len(Encrypted(one)) = 1
      BY <2>4, EncryptedPacks
    <2>6. QED BY <2>2, <2>5 DEF one
  <1>6. QED BY <1>1, <1>2, <1>3, <1>4, <1>5

\* One push more leaves room for what a push adds.
LEMMA OnePushMore ==
    ASSUME NEW K \in Nat, NEW p \in Nat, NEW x \in Nat, NEW y \in Nat,
           x <= p * (MaxObjs * K), y <= MaxObjs * K
    PROVE  x + y <= (p + 1) * (MaxObjs * K) /\ x <= (p + 1) * (MaxObjs * K)
  <1> DEFINE M == MaxObjs * K
  <1>1. M \in Nat
    BY SizesAssumption
  <1>2. x <= p * M /\ y <= M
    OBVIOUS
  <1> HIDE DEF M
  <1>3. (p + 1) * M = p * M + M /\ p * M \in Nat
    BY <1>1
  <1>4. x + y <= (p + 1) * M /\ x <= (p + 1) * M
    BY <1>1, <1>2, <1>3
  <1>5. QED BY <1>4 DEF M

\* Planning a push keeps the invariant.
LEMMA PlanKeeps ==
    ASSUME NEW K \in Nat, Cap(K), PackInv(K), PlanPush
    PROVE  PackInv(K)'
  <1>1. /\ limit \in Limits /\ factor \in Factors /\ pushes \in 0..MaxPushes
        /\ Manifest(live, K) /\ Manifest(plan, K) /\ Progressing
    BY DEF PackInv
  <1>2. /\ plan = <<>> /\ pushes < MaxPushes /\ pushes' = pushes + 1
        /\ limit' = limit /\ factor' = factor /\ live' = live
    BY DEF PlanPush
  <1>3. /\ pushes \in Nat /\ pushes' \in 0..MaxPushes /\ Fitting' = Fitting
    BY <1>1, <1>2, SizesAssumption DEF Fitting
  <1>4. /\ Fitting \in SUBSET Nat /\ live \in Ordered(Fitting) /\ Len(live) \in Nat
        /\ Total(live) \in Nat /\ Total(live) <= pushes * (MaxObjs * K) /\ Len(live) <= MaxPacks
    BY <1>1, ManifestFacts DEF Manifest
  <1>5. Manifest(live, K)'
    <2>1. 0 \in Nat /\ 0 <= MaxObjs * K
      BY SizesAssumption
    <2>2. Total(live) <= (pushes + 1) * (MaxObjs * K)
      BY <1>3, <1>4, <2>1, OnePushMore
    <2>3. QED BY <1>2, <1>3, <1>4, <2>2 DEF Manifest
  <1>6. Manifest(plan, K)' /\ (limit' = 0 /\ live' = <<>> => Len(plan') <= 1)
    <2>1. PICK n \in 1..MaxObjs : \E objs \in [1..n -> ObjSizes] : \E packs \in BuildPacks(objs) :
              \/ plan' = plan
              \/ /\ ~TooLarge(packs) /\ ManifestHolds(Len(live) + Len(packs))
                 /\ plan' = InsertAll(live, packs)
      BY Zenon DEF PlanPush
    <2>2. PICK objs \in [1..n -> ObjSizes] : \E packs \in BuildPacks(objs) :
              \/ plan' = plan
              \/ /\ ~TooLarge(packs) /\ ManifestHolds(Len(live) + Len(packs))
                 /\ plan' = InsertAll(live, packs)
      BY <2>1
    <2>3. PICK packs \in BuildPacks(objs) :
              \/ plan' = plan
              \/ /\ ~TooLarge(packs) /\ ManifestHolds(Len(live) + Len(packs))
                 /\ plan' = InsertAll(live, packs)
      BY <2>2
    <2>4. CASE plan' = plan
      <3>1. /\ plan' \in Ordered(Fitting) /\ Len(plan') = 0 /\ Total(plan') = 0
        BY <1>2, <1>4, <2>4, FewPacks
      <3>2. 0 <= MaxPacks /\ 0 <= (pushes + 1) * (MaxObjs * K)
        BY <1>3, SizesAssumption
      <3>3. QED BY <1>2, <1>3, <3>1, <3>2 DEF Manifest
    <2>5. CASE /\ ~TooLarge(packs) /\ ManifestHolds(Len(live) + Len(packs))
               /\ plan' = InsertAll(live, packs)
      <3>1. /\ packs \in Seq(Fitting) /\ Len(packs) \in Nat /\ Total(packs) \in Nat
            /\ Total(packs) <= MaxObjs * K /\ (limit = 0 => Len(packs) = 1)
        BY <1>1, <2>5, PlannedPacks
      <3>2. /\ plan' \in Ordered(Fitting) /\ Len(plan') = Len(live) + Len(packs)
            /\ Total(plan') = Total(live) + Total(packs)
        BY <1>4, <2>5, <3>1, InsertAllKeeps
      <3>3. Len(plan') <= MaxPacks
        BY <2>5, <3>2 DEF ManifestHolds
      <3>4. Total(plan') <= (pushes + 1) * (MaxObjs * K)
        BY <1>3, <1>4, <3>1, <3>2, OnePushMore
      <3>5. limit' = 0 /\ live' = <<>> => Len(plan') <= 1
        <4>1. SUFFICES ASSUME limit = 0, live = <<>> PROVE Len(plan') <= 1
          BY <1>2
        <4>2. Len(live) = 0 /\ Len(packs) = 1
          BY <1>4, <3>1, <4>1
        <4>3. QED BY <3>2, <4>2
      <3>6. QED BY <1>2, <1>3, <3>2, <3>3, <3>4, <3>5 DEF Manifest
    <2>6. QED BY <2>3, <2>4, <2>5
  <1>7. Progressing'
    <2>1. Progression(live, factor)' <=> Progression(live, factor)
      BY <1>2 DEF Progression
    <2>2. QED BY <1>1, <1>2, <1>6, <2>1 DEF Progressing
  <1>8. QED BY <1>1, <1>2, <1>3, <1>5, <1>6, <1>7 DEF PackInv

-----------------------------------------------------------------------------
(* Consolidation restores the progression *)

\* Products grow with their factors.
LEMMA ProductsGrow ==
    ASSUME NEW f \in Nat, NEW x \in Nat, NEW y \in Nat, x <= y
    PROVE  f * x \in Nat /\ f * x <= f * y /\ (f # 0 => x <= f * x)
  <1>1. PICK d \in Nat : y = x + d
    <2>1. y - x \in Nat /\ y = x + (y - x)
      OBVIOUS
    <2>2. QED BY <2>1
  <1>2. f * y = f * x + f * d /\ f * x \in Nat /\ f * d \in Nat
    BY <1>1
  <1>3. f # 0 => x <= f * x
    <2>1. SUFFICES ASSUME f # 0 PROVE x <= f * x
      OBVIOUS
    <2>2. PICK e \in Nat : f = e + 1
      <3>1. f - 1 \in Nat /\ f = (f - 1) + 1
        BY <2>1
      <3>2. QED BY <3>1
    <2>3. f * x = e * x + x /\ e * x \in Nat
      BY <2>2
    <2>4. QED BY <2>3
  <1>4. QED BY <1>2, <1>3

\* m is the first of t, and the others are o.
First(t, m, o) ==
    /\ Len(t) = Len(o) + 1 /\ t[1] = m
    /\ \A i \in 1..Len(o) : t[i + 1] = o[i]

\* What is no larger than the first goes first, and the others follow.
LEMMA InsertFirst ==
    ASSUME NEW P \in SUBSET Nat, NEW o \in Ordered(P), NEW m \in P,
           Len(o) >= 1 => m <= o[1]
    PROVE  First(Insert(o, m), m, o)
  <1> DEFINE t == Insert(o, m)
  <1>1. /\ o \in Seq(P) /\ InOrder(o) /\ Len(o) \in Nat /\ m \in Nat
        /\ \A i \in 1..Len(o) : o[i] \in Nat
    <2>1. o \in Seq(P) /\ InOrder(o)
      BY DEF Ordered
    <2>2. QED BY <2>1, LenProperties, ElementOfSeq
  <1>2. PICK k \in 0..Len(o) : InsertedAt(o, m, t, k)
    BY InsertPlace
  <1> HIDE DEF t
  <1>3. ASSUME NEW i \in 1..k PROVE o[i] = m /\ t[i] = m
    <2>1. i \in 1..Len(o) /\ 1 \in 1..Len(o) /\ 1 <= i
      BY <1>1
    <2>2. o[1] <= o[i] /\ m <= o[1]
      BY <1>1, <2>1 DEF InOrder
    <2>3. o[i] <= m /\ t[i] = o[i]
      BY <1>2 DEF InsertedAt
    <2>4. QED BY <1>1, <2>1, <2>2, <2>3
  <1>4. t[k + 1] = m
    BY <1>2 DEF InsertedAt
  <1>5. t[1] = m
    BY <1>2, <1>3, <1>4
  <1>6. ASSUME NEW i \in 1..Len(o) PROVE t[i + 1] = o[i]
    <2>1. CASE i > k
      <3>1. i \in (k + 1)..Len(o)
        BY <1>1, <2>1
      <3>2. QED BY <1>2, <3>1 DEF InsertedAt
    <2>2. CASE i = k
      <3>1. i \in 1..k
        BY <1>1, <2>2
      <3>2. QED BY <1>3, <1>4, <2>2, <3>1
    <2>3. CASE i < k
      <3>1. i \in 1..k /\ i + 1 \in 1..k
        BY <1>1, <2>3
      <3>2. QED BY <1>3, <3>1
    <2>4. QED BY <1>1, <2>1, <2>2, <2>3
  <1>7. Len(t) = Len(o) + 1
    BY <1>2 DEF InsertedAt
  <1>8. QED BY <1>5, <1>6, <1>7 DEF t, First

\* One merge restores the progression.
LEMMA OneMergeRestores ==
    ASSUME NEW s \in Ordered(PackSizes), NEW f \in Nat \ {0}, NEW k \in 2..Len(s),
           MergeTo(s, f, k), NEW m \in PackSizes, m <= Sums(s)[k]
    PROVE  Progression(Insert(SubSeq(s, k + 1, Len(s)), m), f)
  <1> DEFINE o == SubSeq(s, k + 1, Len(s))
             t == Insert(o, m)
             r == Len(s) - k
  <1>1. PackSizes \in SUBSET Nat /\ m \in Nat
    BY DEF PackSizes
  <1>2. /\ s \in Seq(Nat) /\ Len(s) \in Nat /\ r \in Nat /\ k \in 0..Len(s) /\ k \in Nat
        /\ \A i \in 0..Len(s) : Sums(s)[i] \in Nat
        /\ \A i \in 1..Len(s) : s[i] \in Nat
    <2>1. s \in Seq(Nat)
      BY <1>1, SeqMonotonic DEF Ordered
    <2>2. QED BY <2>1, SumsType
  <1>3. /\ o \in Ordered(PackSizes) /\ o \in Seq(Nat) /\ Len(o) = r
        /\ \A i \in 1..r : o[i] = s[k + i]
        /\ \A i \in 0..r : Sums(o)[i] + Sums(s)[k] = Sums(s)[k + i]
    <2>1. PartedAt(PackSizes, s, k, SubSeq(s, 1, k), o)
      BY <1>1, <1>2, Parting
    <2> HIDE DEF o
    <2>2. o \in Ordered(PackSizes)
      BY <2>1 DEF PartedAt
    <2>3. o \in Seq(Nat)
      BY <1>1, <2>2, SeqMonotonic DEF Ordered
    <2>4. QED BY <2>1, <2>2, <2>3 DEF PartedAt
  <1>4. ASSUME NEW i \in 1..r
        PROVE  /\ o[i] \in Nat /\ o[i] >= f * Sums(s)[k + (i - 1)]
               /\ Sums(s)[k + (i - 1)] \in Nat
    <2>1. /\ k + i \in (k + 1)..Len(s) /\ k + i - 1 = k + (i - 1) /\ k + i \in 1..Len(s)
          /\ k + (i - 1) \in 0..Len(s)
      BY <1>2
    <2>2. s[k + i] >= f * Sums(s)[k + i - 1]
      BY <2>1 DEF MergeTo
    <2>3. QED BY <1>2, <1>3, <2>1, <2>2
  <1> HIDE DEF o, t
  <1>5. Len(o) >= 1 => m <= o[1]
    <2>1. SUFFICES ASSUME r >= 1 PROVE m <= o[1]
      BY <1>3
    <2>2. 1 \in 1..r /\ k + (1 - 1) = k
      BY <1>2, <2>1
    <2> DEFINE cum == Sums(s)[k]
    <2>3. o[1] \in Nat /\ o[1] >= f * cum /\ cum \in Nat /\ m <= cum
      BY <1>4, <2>2
    <2> HIDE DEF cum
    <2>4. cum <= f * cum /\ f * cum \in Nat
      BY <2>3, ProductsGrow
    <2>5. QED BY <1>1, <2>3, <2>4
  <1>6. /\ t \in Seq(Nat) /\ Len(t) = r + 1 /\ t[1] = m /\ \A i \in 1..r : t[i + 1] = o[i]
    <2>1. t \in Seq(PackSizes)
      BY <1>1, <1>3, InsertPlace DEF t
    <2>2. t \in Seq(Nat)
      BY <1>1, <2>1, SeqMonotonic
    <2>3. PackSizes \in SUBSET Nat /\ o \in Ordered(PackSizes)
      BY <1>1, <1>3
    <2>4. First(t, m, o)
      BY <1>5, <2>3, InsertFirst DEF t
    <2>5. Len(t) = r + 1 /\ t[1] = m /\ \A i \in 1..r : t[i + 1] = o[i]
      BY <1>3, <2>4, Zenon DEF First
    <2>6. QED BY <2>2, <2>5
  <1> HIDE DEF r
  <1>7. ASSUME NEW i \in 0..r PROVE Sums(t)[1 + i] = m + Sums(o)[i] /\ Sums(o)[i] \in Nat
    <2>1. Alike(t, 1, o, 0, i)
      <3>1. 1 + i <= Len(t) /\ 0 + i <= Len(o)
        BY <1>2, <1>3, <1>6
      <3>2. \A j \in 1..i : t[1 + j] = o[0 + j]
        <4>1. SUFFICES ASSUME NEW j \in 1..i PROVE t[1 + j] = o[0 + j]
          OBVIOUS
        <4>2. j \in 1..r /\ 1 + j = j + 1 /\ 0 + j = j
          BY <1>2
        <4>3. QED BY <1>6, <4>2
      <3>3. QED BY <3>1, <3>2 DEF Alike
    <2>2. Sums(t)[1 + i] + Sums(o)[0] = Sums(o)[0 + i] + Sums(t)[1]
      BY <1>3, <1>6, <2>1, SameSums
    <2>3. Sums(o)[0] = 0 /\ 0 + i = i /\ Sums(o)[i] \in Nat /\ Sums(t)[1 + i] \in Nat
      <3>1. i \in 0..Len(o) /\ 1 + i \in 0..Len(t)
        BY <1>2, <1>3, <1>6
      <3>2. QED BY <1>3, <1>6, <3>1, SumsType
    <2>4. Sums(t)[1] = m
      <3>1. 1 \in 1..Len(t)
        BY <1>2, <1>6
      <3>2. Sums(t)[0] = 0 /\ Sums(t)[1] = Sums(t)[1 - 1] + t[1]
        BY <1>6, <3>1, SumsType
      <3>3. QED BY <1>1, <1>6, <3>2
    <2>5. QED BY <1>1, <2>2, <2>3, <2>4
  <1>8. ASSUME NEW i \in 2..Len(t) PROVE t[i] >= f * Sums(t)[i - 1]
    <2> DEFINE j == i - 1
               h == j - 1
    <2>1. j \in 1..r /\ j + 1 = i /\ h \in 0..r /\ 1 + h = j
      BY <1>2, <1>6
    <2> HIDE DEF j, h
    <2> DEFINE big == Sums(s)[k + h]
               small == Sums(t)[j]
    <2>2. t[i] = o[j] /\ o[j] \in Nat /\ o[j] >= f * big /\ big \in Nat
      <3>1. h = j - 1
        BY DEF h
      <3>2. QED BY <1>4, <1>6, <2>1, <3>1
    <2>3. small = m + Sums(o)[h] /\ Sums(o)[h] \in Nat /\ Sums(o)[h] + Sums(s)[k] = big
      BY <1>3, <1>7, <2>1
    <2> DEFINE y == Sums(o)[h]
               z == Sums(s)[k]
    <2>4. z \in Nat /\ m <= z /\ m \in Nat
      BY <1>1, <1>2
    <2> HIDE DEF big, small
    <2>5. small \in Nat /\ small <= big
      <3>1. small = m + y /\ y \in Nat /\ y + z = big
        BY <2>3
      <3> HIDE DEF y, z
      <3>2. QED BY <2>4, <3>1
    <2>6. f * small <= f * big /\ f * small \in Nat /\ f * big \in Nat
      BY <2>2, <2>5, ProductsGrow
    <2>7. t[i] >= f * small
      BY <2>2, <2>6
    <2>8. QED BY <2>7 DEF small, j
  <1>9. QED BY <1>8 DEF Progression, t, o

\* What is shown of the packs a push prepares.
Restored(s, f) ==
    LET v == Victims(s, f)
        rest == SubSeq(s, Len(v) + 1, Len(s))
    IN  /\ Progression(s, f) <=> v = <<>>
        /\ v # <<>> =>
              /\ v[Len(v)] < f * Total(Front(v))
              /\ \A m \in MergedSizes(v) : Progression(Insert(rest, m), f)

\* The victims are needed and enough.
LEMMA VictimsAreRight ==
    ASSUME NEW s \in Ordered(PackSizes), Total(s) < Word, NEW f \in Nat \ {0}
    PROVE  Restored(s, f)
  <1> DEFINE v == Victims(s, f)
             rest == SubSeq(s, Len(v) + 1, Len(s))
  <1>1. PackSizes \in SUBSET Nat /\ s \in Seq(Nat) /\ Len(s) \in Nat
    <2>1. PackSizes \in SUBSET Nat
      BY DEF PackSizes
    <2>2. s \in Seq(Nat)
      BY <2>1, SeqMonotonic DEF Ordered
    <2>3. QED BY <2>1, <2>2, LenProperties
  <1>2. CASE v = <<>> /\ Progression(s, f)
    BY <1>2 DEF Restored
  <1>3. CASE \E k \in 2..Len(s) : MergeTo(s, f, k)
    <2>1. PICK k \in 2..Len(s) : MergeTo(s, f, k)
      BY <1>3
    <2>2. k \in 0..Len(s) /\ k \in Nat /\ k >= 2
      BY <1>1
    <2>3. PartedAt(PackSizes, s, k, v, SubSeq(s, k + 1, Len(s)))
      BY <1>1, <2>1, <2>2, Parting DEF MergeTo
    <2>4. s[k] < f * Sums(s)[k - 1]
      BY <2>1 DEF MergeTo
    <2> HIDE DEF v
    <2>5. /\ v \in Ordered(PackSizes) /\ v \in Seq(PackSizes) /\ Len(v) = k /\ v[k] = s[k]
          /\ Sums(v)[k - 1] = Sums(s)[k - 1] /\ Total(v) = Sums(s)[k]
      <3>1. k \in 1..k /\ k - 1 \in 0..k /\ k \in 0..k
        BY <2>2
      <3>2. QED BY <2>3, <3>1 DEF PartedAt, Ordered, Total
    <2>6. ~Progression(s, f)
      <3> DEFINE p == f * Sums(s)[k - 1]
      <3>1. k - 1 \in 0..Len(s) /\ k \in 1..Len(s)
        BY <1>1
      <3>2. Sums(s)[k - 1] \in Nat /\ s[k] \in Nat
        BY <1>1, <3>1, SumsType
      <3>3. p \in Nat /\ s[k] < p
        BY <2>4, <3>2, ProductsGrow
      <3> HIDE DEF p
      <3>4. ~(s[k] >= p)
        BY <3>2, <3>3
      <3>5. QED BY <3>4 DEF Progression, p
    <2>7. v # <<>>
      BY <2>2, <2>5
    <2>8. v[Len(v)] < f * Total(Front(v))
      <3>1. k - 1 \in 0..Len(v) /\ Front(v) = SubSeq(v, 1, k - 1)
        BY <2>2, <2>5 DEF Front
      <3>2. PartedAt(PackSizes, v, k - 1, Front(v), SubSeq(v, k - 1 + 1, Len(v)))
        BY <1>1, <2>5, <3>1, Parting
      <3>3. k - 1 \in 0..(k - 1)
        BY <2>2
      <3>4. Total(Front(v)) = Sums(v)[k - 1]
        BY <3>2, <3>3 DEF PartedAt, Total
      <3>5. QED BY <2>4, <2>5, <3>4
    <2>9. ASSUME NEW m \in MergedSizes(v) PROVE Progression(Insert(SubSeq(s, k + 1, Len(s)), m), f)
      <3>1. m \in PackSizes /\ m <= Sums(s)[k]
        BY <2>2, <2>5, MergedBounds
      <3>2. QED BY <2>1, <3>1, OneMergeRestores
    <2>10. QED BY <2>5, <2>6, <2>7, <2>8, <2>9, Zenon DEF Restored, v
  <1>4. QED BY <1>1, <1>2, <1>3, VictimsFacts

\* Publishing a push keeps the invariant.
LEMMA PublishKeeps ==
    ASSUME NEW K \in Nat, Cap(K), PackInv(K), Publish
    PROVE  PackInv(K)'
  <1>1. /\ limit \in Limits /\ factor \in Factors /\ pushes \in 0..MaxPushes
        /\ limit \in Nat /\ factor \in Nat /\ pushes \in Nat
        /\ Manifest(live, K) /\ Manifest(plan, K) /\ Progressing
    BY SizesAssumption DEF PackInv
  <1>2. /\ plan # <<>> /\ plan' = <<>>
        /\ limit' = limit /\ factor' = factor /\ pushes' = pushes
    BY DEF Publish
  <1>3. Fitting' = Fitting
    BY <1>2 DEF Fitting
  <1>4. /\ Fitting \in SUBSET Nat /\ PackSizes \in SUBSET Nat
        /\ plan \in Ordered(Fitting) /\ plan \in Ordered(PackSizes) /\ plan \in Seq(Nat)
        /\ Len(plan) \in Nat /\ Len(plan) <= MaxPacks
        /\ Total(plan) \in Nat /\ Total(plan) < Word /\ Total(plan) <= pushes * (MaxObjs * K)
    BY <1>1, ManifestFacts DEF Manifest
  <1> DEFINE M == pushes * (MaxObjs * K)
  <1>5. M \in Nat
    BY <1>1, SizesAssumption
  <1> HIDE DEF M
  <1>6. Manifest(plan, K)'
    <2>1. plan' \in Ordered(Fitting) /\ Len(plan') = 0 /\ Total(plan') = 0
      BY <1>2, <1>4, FewPacks
    <2>2. 0 <= MaxPacks /\ 0 <= M
      BY <1>5, SizesAssumption
    <2>3. QED BY <1>2, <1>3, <2>1, <2>2 DEF Manifest, M
  <1>7. /\ Manifest(live, K)'
        /\ limit' = 0 => Progression(live', factor')
    <2>1. CASE ~Consolidates /\ live' = plan
      <3>1. Manifest(live, K)'
        BY <1>1, <1>2, <1>3, <2>1 DEF Manifest
      <3>2. limit = 0 => Progression(plan, factor)
        <4>1. SUFFICES ASSUME limit = 0 PROVE Progression(plan, factor)
          OBVIOUS
        <4>2. CASE live = <<>>
          <5>1. Len(plan) <= 1
            BY <1>1, <4>1, <4>2 DEF Progressing
          <5>2. 2..Len(plan) = {}
            BY <1>4, <5>1
          <5>3. QED BY <5>2, Zenon DEF Progression
        <4>3. CASE factor = 0
          <5>1. ASSUME NEW i \in 2..Len(plan) PROVE plan[i] >= factor * Sums(plan)[i - 1]
            <6>1. i \in 1..Len(plan) /\ i - 1 \in 0..Len(plan)
              BY <1>4
            <6> DEFINE cum == Sums(plan)[i - 1]
            <6>2. plan[i] \in Nat /\ cum \in Nat
              BY <1>4, <6>1, SumsType
            <6> HIDE DEF cum
            <6>3. factor * cum = 0
              BY <4>3, <6>2
            <6>4. QED BY <6>2, <6>3 DEF cum
          <5>2. QED BY <5>1 DEF Progression
        <4>4. CASE live # <<>> /\ factor # 0
          <5>1. ~WouldExceed(Victims(plan, factor))
            BY <4>1 DEF WouldExceed
          <5>2. ~(Len(Victims(plan, factor)) >= 2)
            BY <2>1, <4>4, <5>1 DEF Consolidates
          <5>3. ASSUME NEW k \in 2..Len(plan), MergeTo(plan, factor, k) PROVE FALSE
            <6>1. k \in 0..Len(plan) /\ k >= 2
              BY <1>4
            <6>2. PartedAt(PackSizes, plan, k, SubSeq(plan, 1, k), SubSeq(plan, k + 1, Len(plan)))
              BY <1>4, <6>1, Parting
            <6>3. Len(Victims(plan, factor)) = k
              BY <5>3, <6>2 DEF PartedAt, MergeTo
            <6>4. QED BY <5>2, <6>1, <6>3
          <5>4. QED BY <1>1, <1>4, <4>4, <5>3, VictimsFacts
        <4>5. QED BY <4>2, <4>3, <4>4
      <3>3. QED BY <1>2, <2>1, <3>1, <3>2
    <2>2. CASE /\ Consolidates
               /\ \E m \in MergedSizes(Victims(plan, factor)) :
                     live' = Insert(SubSeq(plan, Len(Victims(plan, factor)) + 1, Len(plan)), m)
      <3> DEFINE v == Victims(plan, factor)
                 o == SubSeq(plan, Len(v) + 1, Len(plan))
      <3>1. factor # 0 /\ Len(v) >= 2 /\ ~WouldExceed(v)
        BY <2>2 DEF Consolidates
      <3>2. PICK m \in MergedSizes(v) : live' = Insert(o, m)
        BY <2>2
      <3>3. v # <<>>
        BY <3>1
      <3>4. PICK k \in 2..Len(plan) : MergeTo(plan, factor, k)
        BY <1>1, <1>4, <3>3, VictimsFacts
      <3>5. k \in 0..Len(plan) /\ k \in Nat /\ k >= 2 /\ v = SubSeq(plan, 1, k)
        BY <1>4, <3>4 DEF MergeTo
      <3>6. PartedAt(Fitting, plan, k, v, SubSeq(plan, k + 1, Len(plan)))
        BY <1>4, <3>5, Parting
      <3> HIDE DEF v
      <3>7. /\ v \in Ordered(Fitting) /\ Len(v) = k /\ Total(v) = Sums(plan)[k]
            /\ o = SubSeq(plan, k + 1, Len(plan))
        <4>1. k \in 0..k
          BY <3>5
        <4>2. QED BY <3>6, <4>1 DEF PartedAt, Total
      <3> HIDE DEF o
      <3>8. /\ o \in Ordered(Fitting) /\ Len(o) = Len(plan) - k
            /\ Total(o) + Sums(plan)[k] = Total(plan) /\ Total(o) \in Nat
        <4>1. PartedAt(Fitting, plan, k, v, o)
          BY <3>6, <3>7, Zenon
        <4>2. /\ Len(plan) - k \in 0..(Len(plan) - k) /\ k + (Len(plan) - k) = Len(plan)
          BY <1>4, <3>5
        <4>3. o \in Ordered(Fitting) /\ Len(o) = Len(plan) - k
          BY <4>1 DEF PartedAt
        <4>4. Sums(o)[Len(plan) - k] + Sums(plan)[k] = Sums(plan)[k + (Len(plan) - k)]
          BY <4>1, <4>2 DEF PartedAt
        <4>5. Total(o) + Sums(plan)[k] = Total(plan)
          BY <4>2, <4>3, <4>4, Zenon DEF Total
        <4>6. o \in Seq(Nat)
          BY <1>4, <4>3, SeqMonotonic DEF Ordered
        <4>7. QED BY <4>3, <4>5, <4>6, SumsType
      <3>9. m \in PackSizes /\ m \in Nat /\ m <= Total(v) /\ Total(v) \in Nat
        <4>1. v \in Seq(PackSizes) /\ v \in Seq(Nat) /\ Len(v) >= 1
          <5>1. Fitting \subseteq PackSizes
            BY DEF Fitting
          <5>2. QED BY <1>4, <3>5, <3>7, <5>1, SeqMonotonic DEF Ordered
        <4>2. m \in PackSizes /\ m <= Total(v)
          BY <3>2, <4>1, MergedBounds
        <4>3. QED BY <4>1, <4>2, SumsType DEF PackSizes
      <3>10. m \in Fitting
        <4>1. limit # 0 => ~(Total(v) > limit)
          BY <3>1 DEF WouldExceed
        <4>2. limit # 0 => m <= limit
          BY <1>1, <3>9, <4>1
        <4>3. QED BY <3>9, <4>2 DEF Fitting
      <3>11. /\ live' \in Ordered(Fitting) /\ Len(live') = Len(o) + 1
             /\ Total(live') = Total(o) + m
        BY <1>4, <3>2, <3>8, <3>10, InsertKeeps
      <3>12. Len(live') <= MaxPacks /\ Total(live') <= M
        <4> DEFINE all == Total(plan)
                   merged == Total(v)
                   kept == Total(o)
                   count == Len(plan)
        <4>1. /\ all \in Nat /\ all <= M /\ merged \in Nat /\ kept \in Nat
              /\ kept + merged = all /\ m \in Nat /\ m <= merged /\ Total(live') = kept + m
          BY <1>4, <3>7, <3>8, <3>9, <3>11 DEF M
        <4>2. /\ count \in Nat /\ count <= MaxPacks /\ MaxPacks \in Nat
              /\ k \in 0..count /\ k >= 2 /\ Len(live') = (count - k) + 1
          BY <1>4, <3>5, <3>8, <3>11, SizesAssumption
        <4> HIDE DEF all, merged, kept, count
        <4>3. Total(live') <= M
          BY <1>5, <4>1
        <4>4. Len(live') <= MaxPacks
          BY <4>2
        <4>5. QED BY <4>3, <4>4
      <3>13. Manifest(live, K)'
        BY <1>2, <1>3, <3>11, <3>12 DEF Manifest, M
      <3>14. Progression(live', factor)
        BY <1>1, <1>4, <3>1, <3>2, <3>4, <3>7, <3>9, OneMergeRestores
      <3>15. QED BY <1>2, <3>13, <3>14
    <2>3. QED BY <2>1, <2>2, Zenon DEF Publish
  <1>8. Progressing'
    <2>1. Len(plan') <= 1
      BY <1>2
    <2>2. Progression(live, factor)' <=> Progression(live', factor')
      BY DEF Progression
    <2>3. QED BY <1>7, <2>1, <2>2 DEF Progressing
  <1>9. QED BY <1>1, <1>2, <1>6, <1>7, <1>8 DEF PackInv

\* A full repack keeps the invariant.
LEMMA RepackKeeps ==
    ASSUME NEW K \in Nat, Cap(K), PackInv(K), RepackAll
    PROVE  PackInv(K)'
  <1>1. /\ limit \in Limits /\ factor \in Factors /\ pushes \in 0..MaxPushes
        /\ limit \in Nat /\ pushes \in Nat
        /\ Manifest(live, K) /\ Manifest(plan, K) /\ Progressing
    BY SizesAssumption DEF PackInv
  <1>2. /\ plan = <<>> /\ plan' = plan /\ live # <<>>
        /\ limit' = limit /\ factor' = factor /\ pushes' = pushes
    BY DEF RepackAll
  <1>3. Fitting' = Fitting
    BY <1>2 DEF Fitting
  <1>4. /\ Fitting \in SUBSET Nat /\ live \in Seq(PackSizes) /\ live \in Seq(Nat) /\ Len(live) >= 1
        /\ Total(live) \in Nat /\ Total(live) <= pushes * (MaxObjs * K)
    <2>1. /\ Fitting \in SUBSET Nat /\ live \in Seq(PackSizes) /\ live \in Seq(Nat)
          /\ Len(live) \in Nat /\ Total(live) \in Nat
      BY <1>1, ManifestFacts
    <2>2. Len(live) >= 1
      BY <1>2, <2>1, EmptySeq
    <2>3. QED BY <1>1, <2>1, <2>2 DEF Manifest
  <1>5. PICK m \in MergedSizes(live) :
            live' = live \/ (~TooLarge(<<m>>) /\ live' = <<m>>)
    BY Zenon DEF RepackAll
  <1>6. Manifest(plan, K)'
    BY <1>1, <1>2, <1>3 DEF Manifest
  <1>7. CASE live' = live
    <2>1. Manifest(live, K)'
      BY <1>1, <1>2, <1>3, <1>7 DEF Manifest
    <2>2. Progressing'
      BY <1>1, <1>2, <1>7 DEF Progressing, Progression
    <2>3. QED BY <1>1, <1>2, <1>6, <2>1, <2>2 DEF PackInv
  <1>8. CASE ~TooLarge(<<m>>) /\ live' = <<m>>
    <2>1. m \in PackSizes /\ m \in Nat /\ m <= Total(live)
      BY <1>4, MergedBounds DEF PackSizes
    <2>2. m \in Fitting
      <3>1. m \in Range(<<m>>)
        <4>1. 1 \in DOMAIN <<m>> /\ <<m>>[1] = m
          OBVIOUS
        <4>2. QED BY <4>1, Zenon DEF Range
      <3>2. limit # 0 => ~(m > limit)
        BY <1>8, <3>1 DEF TooLarge
      <3>3. QED BY <1>1, <2>1, <3>2 DEF Fitting
    <2>3. live' \in Ordered(Fitting) /\ Len(live') = 1 /\ Total(live') = m
      BY <1>4, <1>8, <2>2, FewPacks
    <2>4. Total(live') <= pushes * (MaxObjs * K)
      <3> DEFINE M == pushes * (MaxObjs * K)
      <3>1. M \in Nat
        BY <1>1, SizesAssumption
      <3>2. Total(live) <= M
        BY <1>4
      <3> HIDE DEF M
      <3>3. Total(live') <= M
        BY <1>4, <2>1, <2>3, <3>1, <3>2
      <3>4. QED BY <3>3 DEF M
    <2>5. Len(live') <= MaxPacks
      BY <2>3, SizesAssumption
    <2>6. Manifest(live, K)'
      BY <1>2, <1>3, <2>3, <2>4, <2>5 DEF Manifest
    <2>7. Progressing'
      <3>1. Progression(live', factor')
        BY <2>3 DEF Progression
      <3>2. live' # <<>>
        BY <2>3
      <3>3. QED BY <3>1, <3>2 DEF Progressing, Progression
    <2>8. QED BY <1>1, <1>2, <1>6, <2>6, <2>7 DEF PackInv
  <1>9. QED BY <1>5, <1>7, <1>8

\* Before the first push there are no packs.
LEMMA InitKeeps ==
    ASSUME NEW K \in Nat, Cap(K), PackInit
    PROVE  PackInv(K)
  <1>1. Fitting \in SUBSET Nat
    BY DEF Fitting, PackSizes
  <1>2. /\ <<>> \in Ordered(Fitting) /\ Len(<<>>) = 0 /\ Total(<<>>) = 0
    BY <1>1, FewPacks
  <1>3. 0 <= 0 * (MaxObjs * K) /\ 0 <= MaxPacks /\ 0 \in 0..MaxPushes
    BY SizesAssumption
  <1>4. /\ live = <<>> /\ plan = <<>> /\ pushes = 0 /\ limit \in Limits /\ factor \in Factors
    BY DEF PackInit
  <1>5. Manifest(live, K) /\ Manifest(plan, K)
    BY <1>2, <1>3, <1>4 DEF Manifest
  <1>6. Progressing
    BY <1>2, <1>4 DEF Progressing, Progression
  <1>7. QED BY <1>3, <1>4, <1>5, <1>6 DEF PackInv

\* Every step keeps the invariant.
LEMMA StepKeeps ==
    ASSUME NEW K \in Nat, Cap(K), PackInv(K), [PackNext]_packVars
    PROVE  PackInv(K)'
  <1>1. CASE PlanPush
    BY <1>1, PlanKeeps
  <1>2. CASE Publish
    BY <1>2, PublishKeeps
  <1>3. CASE RepackAll
    BY <1>3, RepackKeeps
  <1>4. CASE UNCHANGED packVars
    BY <1>4 DEF packVars, PackInv, Manifest, Progressing, Progression, Fitting
  <1>5. QED BY <1>1, <1>2, <1>3, <1>4 DEF PackNext

\* Some cap makes the invariant hold.
Packed == \E K \in Nat : Cap(K) /\ PackInv(K)

\* The invariant always holds.
THEOREM AlwaysPacked == PackSpec => []Packed
  <1>1. PackInit => Packed
    <2>1. SUFFICES ASSUME PackInit PROVE Packed
      OBVIOUS
    <2>2. PICK K \in Nat : Cap(K)
      BY CapExists
    <2>3. QED BY <2>1, <2>2, InitKeeps DEF Packed
  <1>2. Packed /\ [PackNext]_packVars => Packed'
    <2>1. SUFFICES ASSUME Packed, [PackNext]_packVars PROVE Packed'
      OBVIOUS
    <2>2. PICK K \in Nat : Cap(K) /\ PackInv(K)
      BY <2>1 DEF Packed
    <2>3. PackInv(K)'
      BY <2>1, <2>2, StepKeeps
    <2>4. QED BY <2>2, <2>3 DEF Packed, Cap, Small
  <1>3. QED BY <1>1, <1>2, PTL DEF PackSpec

-----------------------------------------------------------------------------
(* Theorems *)

\* The packs of every manifest are within the caps that validatePacks sets, and their
\* total is below a word, so that summing sizes never wraps.
THEOREM PacksInCaps == PackSpec => []PackTypeOK
  <1>1. Packed => PackTypeOK
    <2>1. SUFFICES ASSUME NEW K \in Nat, Cap(K), PackInv(K) PROVE PackTypeOK
      BY DEF Packed
    <2>2. Manifest(live, K) /\ Manifest(plan, K) /\ pushes \in 0..MaxPushes
      BY <2>1 DEF PackInv
    <2>3. Total(live) < Word /\ Total(plan) < Word
      BY <2>1, <2>2, ManifestFacts
    <2>4. QED BY <2>2, <2>3 DEF PackTypeOK, Manifest
  <1>2. QED BY <1>1, AlwaysPacked, PTL

\* Victims picks nothing when the progression holds; otherwise the largest pack it
\* picks had to merge, and maybeConsolidate's one merge restores the progression,
\* although smaller compares in two words.
THEOREM OneMergeIsEnough == PackSpec => []VictimsRestore
  <1>1. Packed => VictimsRestore
    <2>1. SUFFICES ASSUME NEW K \in Nat, Cap(K), PackInv(K), factor # 0 PROVE VictimsRestore
      BY DEF Packed, VictimsRestore
    <2>2. Manifest(plan, K) /\ pushes \in 0..MaxPushes /\ factor \in Nat \ {0}
      BY <2>1, SizesAssumption DEF PackInv
    <2>3. plan \in Ordered(PackSizes) /\ Total(plan) < Word
      BY <2>1, <2>2, ManifestFacts
    <2>4. Restored(plan, factor)
      BY <2>2, <2>3, VictimsAreRight
    <2>5. \A s : Geometric(s) <=> Progression(s, factor)
      BY DEF Geometric, Progression
    <2>6. QED BY <2>4, <2>5, Zenon DEF Restored, VictimsRestore
  <1>2. QED BY <1>1, AlwaysPacked, PTL

\* Every pack of the remote fits the host's limit: checkPackLimit, splitEncryptPacks
\* and consolidationWouldExceed leave no way past it, for splits, merges and repacks.
THEOREM PacksFit == PackSpec => []NeverOverLimit
  <1>1. Packed => NeverOverLimit
    <2>1. SUFFICES ASSUME NEW K \in Nat, Cap(K), PackInv(K), limit # 0, NEW p \in Range(live)
                   PROVE  p <= limit
      BY DEF Packed, NeverOverLimit
    <2>2. live \in Seq(Fitting)
      BY <2>1 DEF PackInv, Manifest, Ordered
    <2>3. p \in Fitting
      BY <2>1, <2>2, RangeOfSeq
    <2>4. QED BY <2>1, <2>3 DEF Fitting
  <1>2. QED BY <1>1, AlwaysPacked, PTL

\* A pack of one object is as large as the object.
LEMMA TotalOfOne ==
    ASSUME NEW u \in Seq(Nat), Len(u) = 1
    PROVE  Total(u) = u[1] /\ u[1] \in Nat
  <1>1. 1 \in 1..Len(u)
    OBVIOUS
  <1>2. /\ Sums(u)[0] = 0 /\ Sums(u)[1] = Sums(u)[1 - 1] + u[1] /\ u[1] \in Nat
    BY <1>1, SumsType
  <1>3. Sums(u)[1] = u[1]
    BY <1>2
  <1>4. QED BY <1>2, <1>3 DEF Total

\* The same for a stretch of one object.
LEMMA OneObject ==
    ASSUME NEW s \in Seq(Nat), NEW m \in Nat, m + 1 \in 1..Len(s)
    PROVE  Total(SubSeq(s, m + 1, m + 1)) = s[m + 1]
  <1> DEFINE n == m + 1
             u == SubSeq(s, m + 1, n)
  <1>1. n \in m..Len(s) /\ n - m = 1 /\ 1 \in 1..(n - m)
    OBVIOUS
  <1> HIDE DEF n
  <1>2. u \in Seq(Nat) /\ Len(u) = n - m /\ \A i \in 1..(n - m) : u[i] = s[m + i]
    BY <1>1, Stretch
  <1> HIDE DEF u
  <1>3. Len(u) = 1 /\ u[1] = s[m + 1]
    BY <1>1, <1>2
  <1>4. Total(u) = s[m + 1]
    BY <1>2, <1>3, TotalOfOne
  <1>5. QED BY <1>4 DEF u, n

\* A split has a pack over the limit only if it holds one object.
LEMMA OnlyFilesAreTooLarge ==
    ASSUME NEW objs \in Seq(Nat), NEW s \in SplitObjects(objs, SplitBudget(limit)),
           limit \in Nat, SplitBudget(limit) \in Nat \ {0}, TooLarge(Encrypted(s))
    PROVE  \E x \in Range(objs) : x + Overhead > limit
  <1>1. PICK L \in 1..Len(objs) : \E c \in [0..L -> 0..Len(objs)] :
            SplitAt(objs, SplitBudget(limit), s, L, c)
    BY SplitsAreStretches
  <1>2. PICK c \in [0..L -> 0..Len(objs)] : SplitAt(objs, SplitBudget(limit), s, L, c)
    BY <1>1
  <1>3. /\ s \in Seq(Nat) /\ Len(s) = L /\ L \in Nat
        /\ Len(objs) \in Nat /\ DOMAIN objs = 1..Len(objs)
    BY <1>2, LenProperties DEF SplitAt
  <1> DEFINE e == Encrypted(s)
  <1>4. e \in Seq(Nat) /\ DOMAIN e = 1..L /\ \A i \in 1..L : e[i] = s[i] + Overhead
    <2>1. e \in Seq(Nat) /\ Len(e) = L /\ \A i \in 1..L : e[i] = s[i] + Overhead
      BY <1>3, EncryptedPacks
    <2>2. QED BY <2>1, LenProperties
  <1>5. PICK i \in 1..L : e[i] > limit
    BY <1>4 DEF TooLarge, Range
  <1>6. s[i] \in Nat /\ s[i] + Overhead > limit
    BY <1>3, <1>4, <1>5, ElementOfSeq
  <1> DEFINE m == c[i - 1]
             n == c[i]
             u == SubSeq(objs, m + 1, n)
  <1>7. /\ m \in 0..Len(objs) /\ n \in 0..Len(objs) /\ m < n /\ s[i] = Total(u)
        /\ s[i] <= SplitBudget(limit) \/ n = m + 1
    <2>1. i - 1 \in 0..L /\ i \in 0..L
      BY <1>3
    <2>2. QED BY <1>2, <2>1 DEF SplitAt
  <1> HIDE DEF e, m, n
  <1>8. ~(s[i] <= SplitBudget(limit))
    <2>1. SplitBudget(limit) + Overhead <= limit
      BY SizesAssumption DEF SplitBudget
    <2>2. Overhead \in Nat
      BY SizesAssumption
    <2> DEFINE budget == SplitBudget(limit)
    <2>3. budget \in Nat /\ budget + Overhead <= limit
      BY <2>1
    <2> HIDE DEF budget
    <2> DEFINE size == s[i]
    <2>4. size \in Nat /\ size + Overhead > limit
      BY <1>6
    <2> HIDE DEF size
    <2>5. ~(size <= budget)
      BY <2>2, <2>3, <2>4
    <2>6. QED BY <2>5 DEF budget, size
  <1>9. n = m + 1 /\ m \in Nat /\ n \in m..Len(objs) /\ n \in 1..Len(objs)
    BY <1>3, <1>7, <1>8
  <1>10. Total(u) = objs[n]
    <2>1. m \in Nat /\ m + 1 \in 1..Len(objs) /\ n = m + 1
      BY <1>3, <1>9
    <2> HIDE DEF u
    <2>2. Total(SubSeq(objs, m + 1, m + 1)) = objs[m + 1]
      BY <2>1, OneObject
    <2>3. QED BY <2>1, <2>2, Zenon DEF u
  <1>11. objs[n] \in Range(objs)
    BY <1>3, <1>9 DEF Range
  <1>12. QED BY <1>6, <1>7, <1>10, <1>11

\* A push that is refused for its size has a file that is too large.
LEMMA RefusedRightly ==
    ASSUME NEW K \in Nat, Cap(K), PackInv(K), PlanPush
    PROVE  TooLargeMeansOneFile'
  <1>1. limit \in Limits /\ limit \in Nat /\ limit' = limit
    BY SizesAssumption DEF PackInv, PlanPush
  <1>2. SUFFICES ASSUME outcome' = "too_large"
                 PROVE  SplitBudget(limit') = 0 \/ \E x \in Range(sent') : x + Overhead > limit'
    BY DEF TooLargeMeansOneFile
  <1>3. PICK n \in 1..MaxObjs : \E objs \in [1..n -> ObjSizes] : \E packs \in BuildPacks(objs) :
            sent' = objs /\ TooLarge(packs)
    <2>1. "too_large" # "invalid" /\ "too_large" # "planned"
      OBVIOUS
    <2>2. QED BY <1>2, <2>1, Zenon DEF PlanPush
  <1>4. PICK objs \in [1..n -> ObjSizes] : \E packs \in BuildPacks(objs) :
            sent' = objs /\ TooLarge(packs)
    BY <1>3
  <1>5. PICK packs \in BuildPacks(objs) : sent' = objs /\ TooLarge(packs)
    BY <1>4
  <1>6. /\ objs \in Seq(Small(K)) /\ objs \in Seq(Nat) /\ Len(objs) = n /\ n >= 1
        /\ SplitBudget(limit) \in Nat
        /\ \/ /\ packs = Encrypted(<<Total(objs)>>)
              /\ limit = 0 \/ Total(objs) + Overhead <= limit \/ SplitBudget(limit) = 0
           \/ /\ limit # 0 /\ SplitBudget(limit) # 0
              /\ \E s \in SplitObjects(objs, SplitBudget(limit)) : packs = Encrypted(s)
    BY <1>1, BuiltOfObjects
  <1>7. CASE SplitBudget(limit) = 0
    BY <1>1, <1>7
  <1>8. CASE packs = Encrypted(<<Total(objs)>>) /\ (limit = 0 \/ Total(objs) + Overhead <= limit)
    <2> DEFINE one == <<Total(objs)>>
    <2>1. Total(objs) \in Nat /\ Overhead \in Nat
      BY <1>6, SumsType, SizesAssumption
    <2>2. one \in Seq(Nat) /\ Len(one) = 1 /\ one[1] = Total(objs) /\ packs = Encrypted(one)
      BY <1>8, <2>1
    <2> HIDE DEF one
    <2>3. /\ packs \in Seq(Nat) /\ Len(packs) = 1
          /\ packs[1] = Total(objs) + Overhead
      <3>1. 1 \in 1..Len(one)
        BY <2>2
      <3>2. QED BY <2>2, <3>1, EncryptedPacks
    <2>4. DOMAIN packs = 1..1
      BY <2>3, LenProperties
    <2>5. ~TooLarge(packs)
      BY <1>1, <1>8, <2>1, <2>3, <2>4 DEF TooLarge, Range
    <2>6. QED BY <1>5, <2>5
  <1>9. CASE /\ limit # 0 /\ SplitBudget(limit) # 0
             /\ \E s \in SplitObjects(objs, SplitBudget(limit)) : packs = Encrypted(s)
    BY <1>1, <1>5, <1>6, <1>9, OnlyFilesAreTooLarge
  <1>10. QED BY <1>6, <1>7, <1>8, <1>9

\* buildPacks refuses a push for its size only if one file is too large, or the limit
\* is too small to split at all: splitBudget leaves room for what encryption adds.
THEOREM RefusalMeansOneFile == PackSpec => []TooLargeMeansOneFile
  <1>1. PackInit => TooLargeMeansOneFile
    BY DEF PackInit, TooLargeMeansOneFile
  <1>2. Packed /\ TooLargeMeansOneFile /\ [PackNext]_packVars => TooLargeMeansOneFile'
    <2>1. SUFFICES ASSUME Packed, TooLargeMeansOneFile, [PackNext]_packVars
                   PROVE  TooLargeMeansOneFile'
      OBVIOUS
    <2>2. CASE PlanPush
      BY <2>1, <2>2, RefusedRightly DEF Packed
    <2>3. CASE Publish
      BY <2>3 DEF Publish, TooLargeMeansOneFile
    <2>4. CASE RepackAll
      <3>1. outcome' # "too_large"
        BY <2>4, Zenon DEF RepackAll
      <3>2. QED BY <3>1 DEF TooLargeMeansOneFile
    <2>5. CASE UNCHANGED packVars
      BY <2>1, <2>5 DEF packVars, TooLargeMeansOneFile
    <2>6. QED BY <2>1, <2>2, <2>3, <2>4, <2>5 DEF PackNext
  <1>3. QED BY <1>1, <1>2, AlwaysPacked, PTL DEF PackSpec

\* Power is the last of the powers.
LEMMA PowerIs ==
    ASSUME NEW b \in Nat, NEW n \in Nat
    PROVE  \E power \in [0..n -> Nat] :
               /\ power[0] = 1 /\ \A i \in 1..n : power[i] = power[i - 1] * b
               /\ Power(b, n) = power[n]
  <1> DEFINE step == [i \in 1..n |-> [x \in Nat |-> x * b]]
  <1>1. \A i \in 1..n : \A x \in Nat : x * b \in Nat
    OBVIOUS
  <1>2. step \in [1..n -> [Nat -> Nat]] /\ \A i \in 1..n : \A x \in Nat : step[i][x] = x * b
    BY <1>1
  <1> HIDE DEF step
  <1>3. PICK f \in [0..n -> Nat] : f[0] = 1 /\ \A i \in 1..n : f[i] = f[i - 1] * b
    <2>1. PICK f \in [0..n -> Nat] : f[0] = 1 /\ \A i \in 1..n : f[i] = step[i][f[i - 1]]
      <3>1. Solvable(Nat, n, 1, step)
        BY <1>2, RecursionExists
      <3>2. QED BY <3>1 DEF Solvable
    <2>2. \A i \in 1..n : f[i - 1] \in Nat
      BY <2>1
    <2>3. \A i \in 1..n : step[i][f[i - 1]] = f[i - 1] * b
      BY <1>2, <2>2, Zenon
    <2>4. QED BY <2>1, <2>3, Zenon
  <1> DEFINE power == CHOOSE g : g = [i \in 0..n |-> IF i = 0 THEN 1 ELSE g[i - 1] * b]
  <1>4. f = [i \in 0..n |-> IF i = 0 THEN 1 ELSE f[i - 1] * b]
    BY <1>3
  <1>5. power = [i \in 0..n |-> IF i = 0 THEN 1 ELSE power[i - 1] * b]
    BY <1>4, Zenon
  <1>6. Power(b, n) = power[n]
    BY Zenon DEF Power
  <1> HIDE DEF power
  <1>7. power[0] = 1 /\ \A i \in 1..n : power[i] = power[i - 1] * b
    BY <1>5
  <1>8. \A i \in 0..n : power[i] \in Nat
    <2> DEFINE T == {i \in 0..n : power[i] \in Nat}
    <2>1. 0 \in T
      BY <1>7
    <2>2. ASSUME NEW i \in 1..n, i - 1 \in T PROVE i \in T
      <3>1. power[i - 1] \in Nat /\ power[i] = power[i - 1] * b
        BY <1>7, <2>2
      <3> DEFINE x == power[i - 1]
      <3>2. x \in Nat /\ power[i] = x * b
        BY <3>1
      <3> HIDE DEF x
      <3>3. power[i] \in Nat
        BY <3>2
      <3>4. QED BY <3>3
    <2> HIDE DEF T
    <2>3. \A i \in 1..n : i - 1 \in T => i \in T
      BY <2>2
    <2>4. 0..n \subseteq T
      BY <2>1, <2>3, UpTo
    <2>5. QED BY <2>4 DEF T
  <1>9. power \in [0..n -> Nat]
    BY <1>5, <1>8
  <1>10. QED BY <1>6, <1>7, <1>9

\* Packs in progression grow exponentially.
LEMMA ProgressionGrows ==
    ASSUME NEW s \in Seq(PackSizes), NEW f \in Nat, Progression(s, f), NEW n \in 1..Len(s)
    PROVE  Power(f + 1, n - 1) <= Sums(s)[n]
  <1>1. /\ s \in Seq(Nat) /\ Len(s) \in Nat
        /\ \A i \in 1..Len(s) : s[i] \in Nat /\ s[i] >= 1
    <2>1. s \in Seq(Nat)
      BY SeqMonotonic DEF PackSizes
    <2>2. \A i \in 1..Len(s) : s[i] \in PackSizes
      BY ElementOfSeq
    <2>3. QED BY <2>1, <2>2, LenProperties, SizesAssumption DEF PackSizes
  <1>2. /\ Sums(s)[0] = 0 /\ \A i \in 0..Len(s) : Sums(s)[i] \in Nat
        /\ \A i \in 1..Len(s) : Sums(s)[i] = Sums(s)[i - 1] + s[i]
    BY <1>1, SumsType
  <1>3. f + 1 \in Nat /\ n - 1 \in Nat
    BY <1>1
  <1>4. PICK power \in [0..(n - 1) -> Nat] :
            /\ power[0] = 1 /\ \A i \in 1..(n - 1) : power[i] = power[i - 1] * (f + 1)
            /\ Power(f + 1, n - 1) = power[n - 1]
    BY <1>3, PowerIs
  <1> DEFINE T == {i \in 0..(n - 1) : power[i] <= Sums(s)[i + 1]}
  <1>5. 0 \in T
    <2>1. 1 \in 1..Len(s)
      BY <1>1
    <2>2. Sums(s)[1] = Sums(s)[1 - 1] + s[1] /\ s[1] \in Nat /\ s[1] >= 1
      BY <1>1, <1>2, <2>1
    <2>3. Sums(s)[1] = s[1]
      BY <1>2, <2>2
    <2>4. power[0] <= Sums(s)[1]
      BY <1>4, <2>2, <2>3
    <2>5. 0 \in 0..(n - 1) /\ 0 + 1 = 1
      BY <1>3
    <2>6. QED BY <2>4, <2>5
  <1>6. ASSUME NEW i \in 1..(n - 1), i - 1 \in T PROVE i \in T
    <2> DEFINE x == power[i - 1]
               cum == Sums(s)[i]
               next == s[i + 1]
    <2>1. x <= cum /\ power[i] = x * (f + 1)
      BY <1>4, <1>6
    <2>2. /\ i + 1 \in 2..Len(s) /\ i + 1 \in 1..Len(s) /\ i + 1 - 1 = i
          /\ i \in 0..Len(s) /\ i - 1 \in 0..(n - 1)
      <3>1. n \in Nat /\ n <= Len(s) /\ i \in Nat /\ i >= 1 /\ i <= n - 1
        BY <1>1
      <3>2. QED BY <1>1, <3>1
    <2>3. x \in Nat /\ cum \in Nat /\ next \in Nat
      BY <1>1, <1>2, <1>4, <2>2
    <2>4. next >= f * cum
      <3> DEFINE j == i + 1
      <3>1. j \in 2..Len(s) /\ j - 1 = i
        BY <2>2
      <3> HIDE DEF j
      <3>2. s[j] >= f * Sums(s)[j - 1]
        BY <3>1 DEF Progression
      <3>3. QED BY <3>1, <3>2, Zenon DEF j
    <2>5. Sums(s)[i + 1] = cum + next
      BY <1>2, <2>2
    <2> HIDE DEF x, cum, next
    <2>6. f * x <= f * cum /\ f * x \in Nat /\ f * cum \in Nat
      BY <2>1, <2>3, ProductsGrow
    <2>7. x * (f + 1) = f * x + x
      BY <2>3
    <2>8. power[i] <= Sums(s)[i + 1]
      <3> DEFINE p == f * x
                 q == f * cum
      <3>1. p <= q /\ p \in Nat /\ q \in Nat /\ next >= q /\ power[i] = p + x
        BY <2>1, <2>4, <2>6, <2>7
      <3> HIDE DEF p, q
      <3>2. p + x <= cum + next
        BY <2>1, <2>3, <3>1
      <3>3. QED BY <2>5, <3>1, <3>2
    <2>9. QED BY <2>8
  <1>7. n - 1 \in T
    <2> HIDE DEF T
    <2>1. \A i \in 1..(n - 1) : i - 1 \in T => i \in T
      BY <1>6
    <2>2. 0..(n - 1) \subseteq T
      BY <1>3, <1>5, <2>1, UpTo
    <2>3. QED BY <1>3, <2>2
  <1>8. n - 1 + 1 = n
    BY <1>1
  <1>9. QED BY <1>4, <1>7, <1>8

\* Without a limit the packs of the remote are logarithmically many in their total,
\* which bounds verifyReusedPackBlob's reads: Victims keeps published manifests geometric.
THEOREM LogarithmicallyMany == PackSpec => []LogarithmicWithoutLimit
  <1>1. Packed => LogarithmicWithoutLimit
    <2>1. SUFFICES ASSUME NEW K \in Nat, Cap(K), PackInv(K), limit = 0,
                          NEW n \in 1..Len(live), factor # 0
                   PROVE  Power(factor + 1, n - 1) <= Sums(live)[n]
      <3>1. 0 + 1 = 1 /\ \A n \in 1..Len(live) : n - 1 - 0 = n - 1
        OBVIOUS
      <3>2. QED BY <3>1 DEF Packed, LogarithmicWithoutLimit, Logarithmic
    <2>2. /\ Manifest(live, K) /\ pushes \in 0..MaxPushes /\ factor \in Nat
          /\ Progression(live, factor)
      BY <2>1, SizesAssumption DEF PackInv, Progressing
    <2>3. live \in Seq(PackSizes)
      BY <2>1, <2>2, ManifestFacts
    <2>4. QED BY <2>2, <2>3, ProgressionGrows
  <1>2. QED BY <1>1, AlwaysPacked, PTL

=============================================================================
