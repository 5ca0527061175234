---------------------------- MODULE MerkleProofs ----------------------------
(***************************************************************************)
(* What the audit log's Merkle proofs are worth, for logs of any length    *)
(* and any proof handed over: VerifyConsistency accepts only extensions,   *)
(* it accepts the log's own proof of every one, and an inclusion proof     *)
(* convinces of one leaf.                                                  *)
(*                                                                         *)
(* Merkle's algorithms recurse over slices of the leaves, and the loops of *)
(* VerifyConsistency climb both trees level by level.  The proofs first    *)
(* show that such a recursion has a solution, by induction over sets of    *)
(* naturals; then they follow the climb, where a level's nodes cover       *)
(* slices whose lengths are powers of two, all but the last one.           *)
(***************************************************************************)
EXTENDS Merkle, WellFoundedInduction, TLAPS

-----------------------------------------------------------------------------
(* Induction over the naturals. *)

(* A set of naturals has a least element. *)
LEMMA LeastNumber ==
    ASSUME NEW T, T \subseteq Nat, T # {}
    PROVE  \E x \in T : \A y \in T : x <= y
<1> DEFINE R == OpToRel(<, Nat)
<1>1. IsWellFoundedOn(R, Nat)
  BY NatLessThanWellFounded, Zenon
<1>2. \A x, y \in Nat : y < x => <<y, x>> \in R
  BY DEF OpToRel
<1> HIDE DEF R
<1>3. PICK x \in T : \A y \in T : ~(<<y, x>> \in R)
  BY <1>1, WFMin, Zenon
<1>4. \A y \in T : x <= y
  <2> TAKE y \in T
  <2>1. x \in Nat /\ y \in Nat /\ ~(y < x)
    BY <1>2, <1>3, Zenon
  <2> QED BY <2>1
<1> QED BY <1>4

(* Induction, over a set in the place of a predicate. *)
LEMMA Induction ==
    ASSUME NEW T, 0 \in T, \A n \in Nat : n \in T => n + 1 \in T
    PROVE  \A n \in Nat : n \in T
<1> SUFFICES ASSUME NEW m \in Nat, m \notin T PROVE FALSE
  OBVIOUS
<1>1. PICK n \in Nat \ T : \A y \in Nat \ T : n <= y
  BY LeastNumber, Zenon
<1>2. n - 1 \in Nat /\ n - 1 \in T
  BY <1>1
<1> QED BY <1>1, <1>2

(* ... with the hypothesis for every smaller number. *)
LEMMA StrongInduction ==
    ASSUME NEW T, \A n \in Nat : (\A k \in 0 .. n - 1 : k \in T) => n \in T
    PROVE  \A n \in Nat : n \in T
<1> SUFFICES ASSUME NEW m \in Nat, m \notin T PROVE FALSE
  OBVIOUS
<1>1. PICK n \in Nat \ T : \A y \in Nat \ T : n <= y
  BY LeastNumber, Zenon
<1>2. \A k \in 0 .. n - 1 : k \in T
  BY <1>1
<1> QED BY <1>1, <1>2

-----------------------------------------------------------------------------
(* The recursive definitions.  Each is a function f with f[n] = Step(c, f, n), *)
(* where c says which one and with which parameters; Step reads f below n, so  *)
(* there is such a function and the definition is one.                         *)

ShlStep(f, i) == IF i = 0 THEN 1 ELSE 2 * f[i - 1]

RootStep(d, root, n) ==
    [lo \in Nat |->
        IF n = 0 THEN <<"empty">>
        ELSE IF n = 1 THEN hashLeaf(d[lo + 1])
        ELSE hashNode(root[lp2(n)][lo], root[n - lp2(n)][lo + lp2(n)])]

PathStep(d, path, n) ==
    [lo \in Nat |-> [m \in Nat |->
        IF n <= 1 THEN <<>>
        ELSE IF m < lp2(n)
        THEN Append(path[lp2(n)][lo][m], SliceRoot(d)[n - lp2(n)][lo + lp2(n)])
        ELSE Append(path[n - lp2(n)][lo + lp2(n)][m - lp2(n)], SliceRoot(d)[lp2(n)][lo])]]

FromStep(leafHash, proof, from, size) ==
    [index \in Nat |-> [len \in Nat |->
        IF index >= size \/ (size = 1) # (len = 0) THEN Invalid
        ELSE IF size = 1 THEN leafHash
        ELSE LET left == index < lp2(size)
                 below == IF left THEN from[lp2(size)][index][len - 1]
                          ELSE from[size - lp2(size)][index - lp2(size)][len - 1]
             IN IF below = Invalid THEN Invalid
                ELSE IF left THEN hashNode(below, proof[len])
                ELSE hashNode(proof[len], below)]]

SubStep(d, proof, n) ==
    [lo \in Nat |-> [m \in Nat |-> [b \in {0, 1} |->
        IF m = n \/ n <= 1 THEN IF b = 1 THEN <<>> ELSE <<SliceRoot(d)[n][lo]>>
        ELSE IF m <= lp2(n)
        THEN Append(proof[lp2(n)][lo][m][b], SliceRoot(d)[n - lp2(n)][lo + lp2(n)])
        ELSE Append(proof[n - lp2(n)][lo + lp2(n)][m - lp2(n)][0],
                    SliceRoot(d)[lp2(n)][lo])]]]

OddStep(above, node) ==
    [l \in Nat |-> IF node % 2 = 1 THEN above[node \div 2][l \div 2] ELSE <<node, l>>]

TurnStep(proof, s, turns, i) == IF i = 0 THEN s ELSE Turn(proof, turns[i - 1])

Step(c, f, n) ==
    IF c[1] = "Shl" THEN ShlStep(f, n)
    ELSE IF c[1] = "SliceRoot" THEN RootStep(c[2], f, n)
    ELSE IF c[1] = "inclusionPath" THEN PathStep(c[2], f, n)
    ELSE IF c[1] = "rootFromInclusion" THEN FromStep(c[2], c[3], f, n)
    ELSE IF c[1] = "subproof" THEN SubStep(c[2], f, n)
    ELSE IF c[1] = "AboveOdd" THEN OddStep(f, n)
    ELSE TurnStep(c[2], c[3], f, n)

ReadsBelow(c) ==
    \A n \in Nat : \A f, g :
        (\A k \in 0 .. n - 1 : f[k] = g[k]) => Step(c, f, n) = Step(c, g, n)

Solves(c, f) == f = [n \in Nat |-> Step(c, f, n)]

SolvesBelow(c, f, m) == f = [n \in 0 .. m - 1 |-> Step(c, f, n)]

LEMMA SolutionsBelow ==
    ASSUME NEW c, ReadsBelow(c)
    PROVE  \A m \in Nat : \E f : SolvesBelow(c, f, m)
<1> DEFINE T == {m \in Nat : \E f : SolvesBelow(c, f, m)}
<1>1. 0 \in T
  <2> DEFINE f == [n \in {} |-> n]
  <2>1. SolvesBelow(c, f, 0)
    BY DEF SolvesBelow
  <2> QED BY <2>1
<1>2. ASSUME NEW m \in Nat, NEW f, SolvesBelow(c, f, m) PROVE m + 1 \in T
  <2> DEFINE g == [n \in 0 .. (m + 1) - 1 |-> Step(c, f, n)]
  <2>1. \A k \in 0 .. m - 1 : f[k] = g[k]
    <3> TAKE k \in 0 .. m - 1
    <3>1. f[k] = Step(c, f, k)
      BY <1>2 DEF SolvesBelow
    <3>2. k \in 0 .. (m + 1) - 1
      OBVIOUS
    <3> QED BY <3>1, <3>2
  <2>2. ASSUME NEW n \in 0 .. (m + 1) - 1 PROVE Step(c, f, n) = Step(c, g, n)
    <3> HIDE DEF g
    <3>1. n \in Nat /\ \A k \in 0 .. n - 1 : f[k] = g[k]
      BY <2>1
    <3> QED BY <3>1 DEF ReadsBelow
  <2>3. SolvesBelow(c, g, m + 1)
    BY <2>2 DEF SolvesBelow
  <2> QED BY <2>3
<1>3. \A m \in Nat : m \in T => m + 1 \in T
  BY <1>2
<1> HIDE DEF T
<1>4. \A m \in Nat : m \in T
  BY <1>1, <1>3, Induction
<1> QED BY <1>4 DEF T

LEMMA SolutionsAgree ==
    ASSUME NEW c, ReadsBelow(c), NEW i \in Nat, NEW j \in Nat,
           NEW f, SolvesBelow(c, f, i), NEW g, SolvesBelow(c, g, j)
    PROVE  \A n \in Nat : n < i /\ n < j => f[n] = g[n]
<1> DEFINE T == {n \in Nat : n < i /\ n < j => f[n] = g[n]}
<1>1. ASSUME NEW n \in Nat, \A k \in 0 .. n - 1 : k \in T PROVE n \in T
  <2> SUFFICES ASSUME n < i, n < j PROVE f[n] = g[n]
    OBVIOUS
  <2>1. \A k \in 0 .. n - 1 : f[k] = g[k]
    BY <1>1
  <2>2. Step(c, f, n) = Step(c, g, n)
    BY <2>1 DEF ReadsBelow
  <2>3. f[n] = Step(c, f, n)
    BY DEF SolvesBelow
  <2>4. g[n] = Step(c, g, n)
    BY DEF SolvesBelow
  <2> QED BY <2>2, <2>3, <2>4
<1> HIDE DEF T
<1>2. \A n \in Nat : n \in T
  BY <1>1, StrongInduction
<1> QED BY <1>2 DEF T

(* The recursive definition has a solution. *)
LEMMA HasSolution ==
    ASSUME NEW c, ReadsBelow(c)
    PROVE  \E f : Solves(c, f)
<1> DEFINE part(n) == CHOOSE f : SolvesBelow(c, f, n + 1)
<1> DEFINE f == [n \in Nat |-> part(n)[n]]
<1>1. \A n \in Nat : SolvesBelow(c, part(n), n + 1)
  BY SolutionsBelow
<1> HIDE DEF part
<1>2. ASSUME NEW n \in Nat PROVE f[n] = Step(c, f, n)
  <2>1. \A k \in 0 .. n - 1 : part(n)[k] = f[k]
    <3> TAKE k \in 0 .. n - 1
    <3>1. part(n)[k] = part(k)[k]
      BY <1>1, SolutionsAgree
    <3> QED BY <3>1
  <2>2. part(n)[n] = Step(c, part(n), n)
    BY <1>1 DEF SolvesBelow
  <2>3. f[n] = part(n)[n]
    OBVIOUS
  <2> HIDE DEF f
  <2>4. Step(c, part(n), n) = Step(c, f, n)
    BY <2>1 DEF ReadsBelow
  <2> QED BY <2>2, <2>3, <2>4
<1>3. f = [n \in Nat |-> f[n]]
  OBVIOUS
<1> HIDE DEF f
<1>4. Solves(c, f)
  BY <1>2, <1>3 DEF Solves
<1> QED BY <1>4

-----------------------------------------------------------------------------
(* Powers of two. *)

LEMMA ShlUnfold == \A i \in Nat : Shl[i] = IF i = 0 THEN 1 ELSE 2 * Shl[i - 1]
<1> DEFINE c == <<"Shl">>
<1>1. \A f, i : Step(c, f, i) = ShlStep(f, i)
  BY DEF Step
<1> HIDE DEF c
<1>4. ReadsBelow(c)
  BY <1>1 DEF ReadsBelow, ShlStep
<1>2. \E f : f = [i \in Nat |-> IF i = 0 THEN 1 ELSE 2 * f[i - 1]]
  BY <1>1, <1>4, HasSolution DEF Solves, ShlStep
<1>3. Shl = [i \in Nat |-> IF i = 0 THEN 1 ELSE 2 * Shl[i - 1]]
  BY <1>2 DEF Shl
<1> QED BY <1>3

LEMMA ShlType ==
    /\ Shl[0] = 1
    /\ \A i \in Nat : Shl[i] \in Nat /\ Shl[i] > i /\ Shl[i + 1] = 2 * Shl[i]
<1>1. Shl[0] = 1 /\ \A i \in Nat : Shl[i + 1] = 2 * Shl[i]
  BY ShlUnfold
<1> DEFINE T == {i \in Nat : Shl[i] \in Nat /\ Shl[i] > i}
<1>2. 0 \in T /\ \A i \in Nat : i \in T => i + 1 \in T
  BY <1>1
<1> HIDE DEF T
<1>3. \A i \in Nat : i \in T
  BY <1>2, Induction
<1> QED BY <1>1, <1>3 DEF T

LEMMA ShlMonotonic == \A i, j \in Nat : i < j => 2 * Shl[i] <= Shl[j]
<1> SUFFICES ASSUME NEW i \in Nat PROVE \A j \in Nat : i < j => 2 * Shl[i] <= Shl[j]
  OBVIOUS
<1> DEFINE T == {j \in Nat : i < j => 2 * Shl[i] <= Shl[j]}
<1>1. 0 \in T
  OBVIOUS
<1>2. ASSUME NEW j \in Nat, j \in T PROVE j + 1 \in T
  <2>1. /\ Shl[j + 1] = 2 * Shl[j] /\ Shl[j] \in Nat
        /\ Shl[i + 1] = 2 * Shl[i] /\ Shl[i] \in Nat
    BY ShlType
  <2> QED BY <1>2, <2>1
<1> HIDE DEF T
<1>3. \A j \in Nat : j \in T
  BY <1>1, <1>2, Induction
<1> QED BY <1>3 DEF T

(* The split of a slice: where it is, and what it depends on. *)
LEMMA SplitAt ==
    ASSUME NEW n \in Nat, NEW i \in Nat, Shl[i] < n, n <= Shl[i + 1]
    PROVE  lp2(n) = Shl[i]
<1>1. i \in 0 .. n
  BY ShlType
<1> DEFINE j == CHOOSE j \in 0 .. n : Shl[j] < n /\ n <= Shl[j + 1]
<1>2. j \in 0 .. n /\ Shl[j] < n /\ n <= Shl[j + 1]
  BY <1>1
<1>3. lp2(n) = Shl[j]
  BY DEF lp2
<1> HIDE DEF j
<1>4. /\ Shl[i] \in Nat /\ Shl[j] \in Nat /\ Shl[i + 1] = 2 * Shl[i]
      /\ Shl[j + 1] = 2 * Shl[j] /\ j \in Nat
  BY <1>2, ShlType
<1>5. ~(i < j) /\ ~(j < i)
  BY <1>2, <1>4, ShlMonotonic
<1> QED BY <1>3, <1>4, <1>5

LEMMA Split ==
    ASSUME NEW n \in Nat, n >= 2
    PROVE  /\ lp2(n) \in Nat /\ lp2(n) > 0 /\ lp2(n) < n
           /\ n - lp2(n) \in Nat /\ n - lp2(n) > 0 /\ n - lp2(n) < n
<1> DEFINE T == {i \in Nat : n <= Shl[i]}
<1>1. n \in T
  BY ShlType
<1>2. PICK i \in T : \A j \in T : i <= j
  BY <1>1, LeastNumber, Zenon
<1>3. i - 1 \in Nat /\ Shl[i - 1] < n
  BY <1>2, ShlType
<1>4. n <= Shl[(i - 1) + 1]
  BY <1>2, <1>3
<1>5. lp2(n) = Shl[i - 1]
  BY <1>3, <1>4, SplitAt
<1>6. Shl[i - 1] \in Nat /\ Shl[i - 1] > 0
  BY <1>3, ShlType
<1> QED BY <1>3, <1>5, <1>6

-----------------------------------------------------------------------------
(* The recursive definitions, unfolded. *)

LEMMA RootUnfold ==
    ASSUME NEW d, NEW n \in Nat, NEW lo \in Nat
    PROVE  SliceRoot(d)[n][lo] =
               IF n = 0 THEN <<"empty">>
               ELSE IF n = 1 THEN hashLeaf(d[lo + 1])
               ELSE hashNode(SliceRoot(d)[lp2(n)][lo], SliceRoot(d)[n - lp2(n)][lo + lp2(n)])
<1>1. ASSUME NEW k \in Nat, NEW f, NEW g, \A j \in 0 .. k - 1 : f[j] = g[j]
      PROVE  RootStep(d, f, k) = RootStep(d, g, k)
  <2>1. CASE k < 2
    BY <2>1 DEF RootStep
  <2>2. CASE k >= 2
    <3>1. lp2(k) \in 0 .. k - 1 /\ k - lp2(k) \in 0 .. k - 1
      BY <2>2, Split
    <3> QED BY <1>1, <3>1 DEF RootStep
  <2> QED BY <2>1, <2>2
<1> DEFINE c == <<"SliceRoot", d>>
<1>7. \A f, k : Step(c, f, k) = RootStep(d, f, k)
  BY DEF Step
<1> HIDE DEF c
<1>2. ReadsBelow(c)
  BY <1>1, <1>7 DEF ReadsBelow
<1>3. \E f : f = [k \in Nat |-> RootStep(d, f, k)]
  BY <1>2, <1>7, HasSolution DEF Solves
<1>4. SliceRoot(d) = [k \in Nat |-> RootStep(d, SliceRoot(d), k)]
  BY <1>3, Zenon DEF SliceRoot, RootStep
<1>5. SliceRoot(d)[n] = RootStep(d, SliceRoot(d), n)
  BY <1>4
<1> QED BY <1>5 DEF RootStep

LEMMA RootCases ==
    ASSUME NEW d
    PROVE  \A n, lo \in Nat :
               /\ n = 0 => SliceRoot(d)[n][lo] = <<"empty">>
               /\ n = 1 => SliceRoot(d)[n][lo] = hashLeaf(d[lo + 1])
               /\ n > 1 => SliceRoot(d)[n][lo] =
                     hashNode(SliceRoot(d)[lp2(n)][lo], SliceRoot(d)[n - lp2(n)][lo + lp2(n)])
<1> TAKE n, lo \in Nat
<1> DEFINE r == hashNode(SliceRoot(d)[lp2(n)][lo], SliceRoot(d)[n - lp2(n)][lo + lp2(n)])
<1>1. SliceRoot(d)[n][lo] =
          IF n = 0 THEN <<"empty">> ELSE IF n = 1 THEN hashLeaf(d[lo + 1]) ELSE r
  BY RootUnfold
<1> HIDE DEF r
<1>2. /\ n = 0 => SliceRoot(d)[n][lo] = <<"empty">>
      /\ n = 1 => SliceRoot(d)[n][lo] = hashLeaf(d[lo + 1])
      /\ n > 1 => SliceRoot(d)[n][lo] = r
  BY <1>1
<1> QED BY <1>2 DEF r

(* inclusionPath, split. *)
PathSplit(d, n, lo, m) ==
    IF m < lp2(n)
    THEN Append(inclusionPath(d)[lp2(n)][lo][m], SliceRoot(d)[n - lp2(n)][lo + lp2(n)])
    ELSE Append(inclusionPath(d)[n - lp2(n)][lo + lp2(n)][m - lp2(n)], SliceRoot(d)[lp2(n)][lo])

LEMMA PathUnfold ==
    ASSUME NEW d, NEW n \in Nat, NEW lo \in Nat, NEW m \in Nat
    PROVE  inclusionPath(d)[n][lo][m] = IF n <= 1 THEN <<>> ELSE PathSplit(d, n, lo, m)
<1>1. ASSUME NEW k \in Nat, NEW f, NEW g, \A j \in 0 .. k - 1 : f[j] = g[j]
      PROVE  PathStep(d, f, k) = PathStep(d, g, k)
  <2>1. CASE k < 2
    BY <2>1 DEF PathStep
  <2>2. CASE k >= 2
    <3>1. lp2(k) \in 0 .. k - 1 /\ k - lp2(k) \in 0 .. k - 1
      BY <2>2, Split
    <3> QED BY <1>1, <3>1 DEF PathStep
  <2> QED BY <2>1, <2>2
<1> DEFINE c == <<"inclusionPath", d>>
<1>7. \A f, k : Step(c, f, k) = PathStep(d, f, k)
  BY DEF Step
<1> HIDE DEF c
<1>2. ReadsBelow(c)
  BY <1>1, <1>7 DEF ReadsBelow
<1>3. \E f : f = [k \in Nat |-> PathStep(d, f, k)]
  BY <1>2, <1>7, HasSolution DEF Solves
<1>4. inclusionPath(d) = [k \in Nat |-> PathStep(d, inclusionPath(d), k)]
  BY <1>3, Zenon DEF inclusionPath, PathStep
<1>5. inclusionPath(d)[n] = PathStep(d, inclusionPath(d), n)
  BY <1>4
<1>6. inclusionPath(d)[n][lo][m] =
          IF n <= 1 THEN <<>>
          ELSE IF m < lp2(n)
          THEN Append(inclusionPath(d)[lp2(n)][lo][m], SliceRoot(d)[n - lp2(n)][lo + lp2(n)])
          ELSE Append(inclusionPath(d)[n - lp2(n)][lo + lp2(n)][m - lp2(n)], SliceRoot(d)[lp2(n)][lo])
  BY <1>5 DEF PathStep
<1> QED BY <1>6 DEF PathSplit

(* rootFromInclusion, split. *)
FromSplit(leafHash, proof, size, index, len) ==
    LET from == rootFromInclusion(leafHash, proof)
        left == index < lp2(size)
        below == IF left THEN from[lp2(size)][index][len - 1]
                 ELSE from[size - lp2(size)][index - lp2(size)][len - 1]
    IN IF below = Invalid THEN Invalid
       ELSE IF left THEN hashNode(below, proof[len])
       ELSE hashNode(proof[len], below)

LEMMA FromUnfold ==
    ASSUME NEW leafHash, NEW proof, NEW size \in Nat, NEW index \in Nat, NEW len \in Nat
    PROVE  rootFromInclusion(leafHash, proof)[size][index][len] =
               IF index >= size \/ (size = 1) # (len = 0) THEN Invalid
               ELSE IF size = 1 THEN leafHash
               ELSE FromSplit(leafHash, proof, size, index, len)
<1> DEFINE c == <<"rootFromInclusion", leafHash, proof>>
           from == rootFromInclusion(leafHash, proof)
<1>1. ASSUME NEW k \in Nat, NEW f, NEW g, \A j \in 0 .. k - 1 : f[j] = g[j]
      PROVE  FromStep(leafHash, proof, f, k) = FromStep(leafHash, proof, g, k)
  <2>1. CASE k < 2
    BY <2>1 DEF FromStep
  <2>2. CASE k >= 2
    <3>1. lp2(k) \in 0 .. k - 1 /\ k - lp2(k) \in 0 .. k - 1
      BY <2>2, Split
    <3> QED BY <1>1, <3>1 DEF FromStep
  <2> QED BY <2>1, <2>2
<1>2. \A f, k : Step(c, f, k) = FromStep(leafHash, proof, f, k)
  BY DEF Step
<1> HIDE DEF c
<1>3. ReadsBelow(c)
  BY <1>1, <1>2 DEF ReadsBelow
<1>4. \E f : f = [k \in Nat |-> Step(c, f, k)]
  BY <1>3, HasSolution DEF Solves
<1>5. \E f : f = [k \in Nat |-> FromStep(leafHash, proof, f, k)]
  BY <1>2, <1>4
<1>6. from = [k \in Nat |-> FromStep(leafHash, proof, from, k)]
  BY <1>5, Zenon DEF rootFromInclusion, FromStep
<1> HIDE DEF from
<1>7. from[size] = FromStep(leafHash, proof, from, size)
  BY <1>6
<1>8. from[size][index][len] =
          IF index >= size \/ (size = 1) # (len = 0) THEN Invalid
          ELSE IF size = 1 THEN leafHash
          ELSE LET left == index < lp2(size)
                   below == IF left THEN from[lp2(size)][index][len - 1]
                            ELSE from[size - lp2(size)][index - lp2(size)][len - 1]
               IN IF below = Invalid THEN Invalid
                  ELSE IF left THEN hashNode(below, proof[len])
                  ELSE hashNode(proof[len], below)
  BY <1>7 DEF FromStep
<1> QED BY <1>8 DEF FromSplit, from

-----------------------------------------------------------------------------
(* A root determines its leaves, and depends on nothing else. *)

Agree(d, e, lo, n) == \A i \in lo + 1 .. lo + n : d[i] = e[i]

LEMMA HashesDiffer ==
    /\ \A x, y : hashLeaf(x) = hashLeaf(y) <=> x = y
    /\ \A x, y, u, v : hashNode(x, y) = hashNode(u, v) <=> x = u /\ y = v
    /\ \A x, y : hashNode(x, y) # Invalid
    /\ \A x : hashLeaf(x) # Invalid
BY DEF hashLeaf, hashNode, Invalid

LEMMA RootDetermines ==
    ASSUME NEW d, NEW e
    PROVE  \A n, lo \in Nat : SliceRoot(d)[n][lo] = SliceRoot(e)[n][lo] <=> Agree(d, e, lo, n)
<1> DEFINE T == {n \in Nat : \A lo \in Nat :
                     SliceRoot(d)[n][lo] = SliceRoot(e)[n][lo] <=> Agree(d, e, lo, n)}
<1>1. ASSUME NEW n \in Nat, \A k \in 0 .. n - 1 : k \in T PROVE n \in T
  <2> SUFFICES ASSUME NEW lo \in Nat
               PROVE  SliceRoot(d)[n][lo] = SliceRoot(e)[n][lo] <=> Agree(d, e, lo, n)
    OBVIOUS
  <2>1. CASE n = 0
    <3>1. SliceRoot(d)[n][lo] = SliceRoot(e)[n][lo]
      BY <2>1, RootUnfold
    <3> QED BY <2>1, <3>1 DEF Agree
  <2>2. CASE n = 1
    <3>1. SliceRoot(d)[n][lo] = hashLeaf(d[lo + 1]) /\ SliceRoot(e)[n][lo] = hashLeaf(e[lo + 1])
      BY <2>2, RootUnfold
    <3>2. Agree(d, e, lo, n) <=> d[lo + 1] = e[lo + 1]
      BY <2>2 DEF Agree
    <3> QED BY <3>1, <3>2, HashesDiffer
  <2>3. CASE n >= 2
    <3> DEFINE k == lp2(n)
    <3>1. /\ k \in Nat /\ k > 0 /\ k < n
          /\ n - k \in Nat /\ n - k > 0 /\ n - k < n
      BY <2>3, Split
    <3>2. /\ SliceRoot(d)[n][lo] = hashNode(SliceRoot(d)[k][lo], SliceRoot(d)[n - k][lo + k])
          /\ SliceRoot(e)[n][lo] = hashNode(SliceRoot(e)[k][lo], SliceRoot(e)[n - k][lo + k])
      BY <2>3, RootUnfold
    <3> HIDE DEF k
    <3>3. SliceRoot(d)[k][lo] = SliceRoot(e)[k][lo] <=> Agree(d, e, lo, k)
      BY <1>1, <3>1
    <3>4. SliceRoot(d)[n - k][lo + k] = SliceRoot(e)[n - k][lo + k]
              <=> Agree(d, e, lo + k, n - k)
      BY <1>1, <3>1
    <3>5. Agree(d, e, lo, n) <=> Agree(d, e, lo, k) /\ Agree(d, e, lo + k, n - k)
      BY <3>1 DEF Agree
    <3> QED BY <3>2, <3>3, <3>4, <3>5, HashesDiffer
  <2> QED BY <2>1, <2>2, <2>3
<1> HIDE DEF T
<1>2. \A n \in Nat : n \in T
  BY <1>1, StrongInduction
<1> QED BY <1>2 DEF T

-----------------------------------------------------------------------------
(* The levels of a tree over N leaves: at level h, node j stands for the  *)
(* leaves from Off(j, h), Shl[h] of them or as many as there are.         *)

Off(j, h) == j * Shl[h]

Width(N, h, j) == IF N <= Off(j, h) + Shl[h] THEN N - Off(j, h) ELSE Shl[h]

Lev(d, N, h, j) == SliceRoot(d)[Width(N, h, j)][Off(j, h)]

(* l is the last node of level h. *)
LastAt(N, h, l) == Off(l, h) < N /\ N <= Off(l, h) + Shl[h]

LEMMA Doubled == ASSUME NEW a \in Nat, NEW w \in Nat PROVE a * (2 * w) = (2 * a) * w
OBVIOUS

LEMMA AddedOne == ASSUME NEW a \in Nat, NEW w \in Nat PROVE (a + 1) * w = a * w + w
OBVIOUS

LEMMA Times == ASSUME NEW a \in Nat, NEW w \in Nat PROVE a * w \in Nat
OBVIOUS

LEMMA OffNat == ASSUME NEW j \in Nat, NEW h \in Nat PROVE Off(j, h) \in Nat /\ Off(0, h) = 0
<1>1. Shl[h] \in Nat
  BY ShlType
<1>2. j * Shl[h] \in Nat
  BY <1>1, Times
<1> QED BY <1>1, <1>2 DEF Off

LEMMA OffNext == ASSUME NEW j \in Nat, NEW h \in Nat PROVE Off(j + 1, h) = Off(j, h) + Shl[h]
<1>1. Shl[h] \in Nat
  BY ShlType
<1> QED BY <1>1, AddedOne DEF Off

LEMMA OffGrows ==
    ASSUME NEW h \in Nat
    PROVE  \A j, l \in Nat : j < l => Off(j, h) + Shl[h] <= Off(l, h)
<1> SUFFICES ASSUME NEW j \in Nat
             PROVE  \A l \in Nat : j < l => Off(j, h) + Shl[h] <= Off(l, h)
  OBVIOUS
<1>1. Shl[h] \in Nat
  BY ShlType
<1> DEFINE T == {l \in Nat : j < l => Off(j, h) + Shl[h] <= Off(l, h)}
<1>2. 0 \in T
  OBVIOUS
<1>3. ASSUME NEW l \in Nat, l \in T PROVE l + 1 \in T
  <2>1. Off(l + 1, h) = Off(l, h) + Shl[h]
    BY OffNext
  <2>2. Off(l, h) \in Nat /\ Off(j, h) \in Nat
    BY OffNat, Zenon
  <2>3. CASE j < l
    BY <1>1, <1>3, <2>1, <2>2, <2>3
  <2>4. CASE j = l
    BY <1>1, <2>1, <2>2, <2>4
  <2>5. CASE ~(j < l) /\ j # l
    BY <2>5
  <2> QED BY <2>3, <2>4, <2>5
<1> HIDE DEF T
<1>4. \A l \in Nat : l \in T
  BY <1>2, <1>3, Induction
<1> QED BY <1>4 DEF T

LEMMA OffHalf ==
    ASSUME NEW j \in Nat, NEW h \in Nat
    PROVE  /\ j \div 2 \in Nat
           /\ j % 2 = 0 => Off(j \div 2, h + 1) = Off(j, h)
           /\ j % 2 = 1 => /\ j - 1 \in Nat
                           /\ Off(j \div 2, h + 1) = Off(j - 1, h)
                           /\ Off(j, h) = Off(j - 1, h) + Shl[h]
           /\ j % 2 \in {0, 1}
<1>1. j \div 2 \in Nat /\ j % 2 \in {0, 1} /\ (j % 2 = 0 => 2 * (j \div 2) = j)
      /\ (j % 2 = 1 => 2 * (j \div 2) = j - 1 /\ j - 1 \in Nat)
  OBVIOUS
<1>2. Shl[h] \in Nat /\ Shl[h + 1] = 2 * Shl[h]
  BY ShlType
<1>3. Off(j \div 2, h + 1) = (2 * (j \div 2)) * Shl[h]
  BY <1>1, <1>2, Doubled DEF Off
<1>4. j % 2 = 0 => Off(j \div 2, h + 1) = Off(j, h)
  BY <1>1, <1>3 DEF Off
<1>5. j % 2 = 1 => Off(j \div 2, h + 1) = Off(j - 1, h)
  BY <1>1, <1>3 DEF Off
<1>6. j % 2 = 1 => Off((j - 1) + 1, h) = Off(j - 1, h) + Shl[h]
  BY <1>1, OffNext
<1> QED BY <1>1, <1>4, <1>5, <1>6

(* The last node of the next level. *)
LEMMA LastUp ==
    ASSUME NEW N \in Nat, NEW h \in Nat, NEW l \in Nat, LastAt(N, h, l)
    PROVE  LastAt(N, h + 1, l \div 2)
<1> DEFINE o == Off(l, h)
           w == Shl[h]
<1>1. w \in Nat /\ Shl[h + 1] = 2 * w
  BY ShlType
<1>2. o \in Nat /\ o < N /\ N <= o + w
  BY OffNat DEF LastAt
<1>3. \/ Off(l \div 2, h + 1) = o
      \/ /\ Off(l - 1, h) \in Nat
         /\ Off(l \div 2, h + 1) = Off(l - 1, h)
         /\ o = Off(l - 1, h) + w
  BY OffHalf, OffNat, Zenon
<1> HIDE DEF o, w
<1>4. Off(l \div 2, h + 1) < N /\ N <= Off(l \div 2, h + 1) + 2 * w
  BY <1>1, <1>2, <1>3
<1> QED BY <1>1, <1>4 DEF LastAt

(* An inner node, and the last one when it has no sibling. *)
LEMMA NodeAbove ==
    ASSUME NEW d, NEW N \in Nat, NEW h \in Nat, NEW j \in Nat, j % 2 = 0
    PROVE  /\ Off(j + 1, h) < N =>
                  Lev(d, N, h + 1, j \div 2) = hashNode(Lev(d, N, h, j), Lev(d, N, h, j + 1))
           /\ LastAt(N, h, j) => Lev(d, N, h + 1, j \div 2) = Lev(d, N, h, j)
<1> DEFINE o == Off(j, h)
           w == Shl[h]
<1>1. w \in Nat /\ w > 0 /\ Shl[h + 1] = 2 * w
  BY ShlType
<1>2. o \in Nat /\ Off(j \div 2, h + 1) = o /\ Off(j + 1, h) = o + w
  BY OffNat, OffHalf, OffNext, Zenon
<1> HIDE DEF o, w
<1>3. ASSUME o + w < N
      PROVE  Lev(d, N, h + 1, j \div 2) = hashNode(Lev(d, N, h, j), Lev(d, N, h, j + 1))
  <2> DEFINE n == Width(N, h + 1, j \div 2)
  <2>1. n = IF N <= o + 2 * w THEN N - o ELSE 2 * w
    BY <1>1, <1>2 DEF Width
  <2> HIDE DEF n
  <2>2. n \in Nat /\ w < n /\ n <= 2 * w /\ n >= 2
    BY <1>1, <1>2, <1>3, <2>1
  <2>3. lp2(n) = w
    BY <1>1, <2>2, SplitAt DEF w
  <2>4. SliceRoot(d)[n][o] = hashNode(SliceRoot(d)[w][o], SliceRoot(d)[n - w][o + w])
    BY <1>2, <2>2, <2>3, RootUnfold
  <2>5. Width(N, h, j) = w
    BY <1>1, <1>2, <1>3 DEF Width, o, w
  <2>6. Width(N, h, j + 1) = n - w
    BY <1>1, <1>2, <2>1 DEF Width, w
  <2>7. Lev(d, N, h + 1, j \div 2) = SliceRoot(d)[n][o]
    BY <1>2 DEF Lev, n
  <2>8. Lev(d, N, h, j) = SliceRoot(d)[w][o]
    BY <2>5 DEF Lev, o
  <2>9. Lev(d, N, h, j + 1) = SliceRoot(d)[n - w][o + w]
    BY <1>2, <2>6 DEF Lev
  <2> QED BY <2>4, <2>7, <2>8, <2>9
<1>4. ASSUME LastAt(N, h, j)
      PROVE  Lev(d, N, h + 1, j \div 2) = Lev(d, N, h, j)
  <2>1. o < N /\ N <= o + w
    BY <1>4 DEF LastAt, o, w
  <2>2. Width(N, h + 1, j \div 2) = N - o
    BY <1>1, <1>2, <2>1 DEF Width
  <2>3. Width(N, h, j) = N - o
    BY <1>1, <1>2, <2>1 DEF Width, o, w
  <2> QED BY <1>2, <2>2, <2>3 DEF Lev, o
<1> QED BY <1>2, <1>3, <1>4

-----------------------------------------------------------------------------
(* VerifyConsistency's loops. *)

LEMMA AboveOddUnfold ==
    ASSUME NEW node \in Nat, NEW l \in Nat
    PROVE  AboveOdd[node][l] =
               IF node % 2 = 1 THEN AboveOdd[node \div 2][l \div 2] ELSE <<node, l>>
<1>1. ASSUME NEW k \in Nat, NEW f, NEW g, \A j \in 0 .. k - 1 : f[j] = g[j]
      PROVE  OddStep(f, k) = OddStep(g, k)
  <2>1. k % 2 = 1 => k \div 2 \in 0 .. k - 1
    OBVIOUS
  <2> QED BY <1>1, <2>1 DEF OddStep
<1> DEFINE c == <<"AboveOdd">>
<1>7. \A f, k : Step(c, f, k) = OddStep(f, k)
  BY DEF Step
<1> HIDE DEF c
<1>2. ReadsBelow(c)
  BY <1>1, <1>7 DEF ReadsBelow
<1>3. \E f : f = [k \in Nat |-> OddStep(f, k)]
  BY <1>2, <1>7, HasSolution DEF Solves
<1>4. AboveOdd = [k \in Nat |-> OddStep(AboveOdd, k)]
  BY <1>3, Zenon DEF AboveOdd, OddStep
<1>5. AboveOdd[node] = OddStep(AboveOdd, node)
  BY <1>4
<1> QED BY <1>5 DEF OddStep

LEMMA ClimbUnfold ==
    ASSUME NEW proof, NEW s
    PROVE  /\ Climb(proof, s)[0] = s
           /\ \A i \in Nat : Climb(proof, s)[i + 1] = Turn(proof, Climb(proof, s)[i])
<1> DEFINE c == <<"Climb", proof, s>>
           turns == Climb(proof, s)
<1>1. \A f, i : Step(c, f, i) = IF i = 0 THEN s ELSE Turn(proof, f[i - 1])
  BY DEF Step, TurnStep
<1> HIDE DEF c
<1>2. ReadsBelow(c)
  BY <1>1 DEF ReadsBelow
<1>3. \E f : f = [i \in Nat |-> Step(c, f, i)]
  BY <1>2, HasSolution DEF Solves
<1>4. \E f : f = [i \in Nat |-> IF i = 0 THEN s ELSE Turn(proof, f[i - 1])]
  BY <1>1, <1>3
<1>5. turns = [i \in Nat |-> IF i = 0 THEN s ELSE Turn(proof, turns[i - 1])]
  BY <1>4 DEF Climb
<1> HIDE DEF turns
<1>6. \A i \in Nat : turns[i] = IF i = 0 THEN s ELSE Turn(proof, turns[i - 1])
  BY <1>5
<1>7. turns[0] = s /\ \A i \in Nat : turns[i + 1] = Turn(proof, turns[i])
  BY <1>6
<1> QED BY <1>7 DEF turns

(* The loops are at level h of both trees, on the last node of the old one. *)
At(m, n, h, s) ==
    /\ s.node \in Nat /\ s.last \in Nat
    /\ LastAt(m, h, s.node) /\ LastAt(n, h, s.last)

(* What the climb has rebuilt is right: the node of the old tree over d, that *)
(* of the new one over e, and left of it the leaves agree.                    *)
Sits(d, m, e, n, h, s) ==
    /\ s.fr = Lev(d, m, h, s.node)
    /\ s.sr = Lev(e, n, h, s.node)
    /\ Agree(d, e, 0, Off(s.node, h))

LEMMA AtOrder ==
    ASSUME NEW m \in Nat, NEW n \in Nat, m <= n, NEW h \in Nat, NEW s, At(m, n, h, s)
    PROVE  s.node <= s.last
<1> SUFFICES ASSUME s.last < s.node PROVE FALSE
  BY DEF At
<1>1. Off(s.last, h) + Shl[h] <= Off(s.node, h)
  BY OffGrows DEF At
<1>2. Off(s.last, h) \in Nat /\ Off(s.node, h) \in Nat /\ Shl[h] \in Nat
  BY OffNat, ShlType, Zenon DEF At
<1> QED BY <1>1, <1>2 DEF At, LastAt

LEMMA TurnMoves ==
    ASSUME NEW m \in Nat, NEW n \in Nat, m <= n, NEW h \in Nat, NEW s, At(m, n, h, s), NEW proof
    PROVE  LET t == Turn(proof, s)
           IN  /\ t.node = s.node \div 2 /\ t.last = s.last \div 2
               /\ At(m, n, h + 1, t)
<1> DEFINE t == Turn(proof, s)
<1>1. s.node \in Nat /\ s.last \in Nat /\ s.node <= s.last
  BY AtOrder DEF At
<1>2. t.node = s.node \div 2 /\ t.last = s.last \div 2
  <2>1. CASE s.last = 0
    <3>1. t = s
      BY <2>1 DEF Turn
    <3> QED BY <1>1, <2>1, <3>1
  <2>2. CASE s.last # 0
    BY <2>2 DEF Turn
  <2> QED BY <2>1, <2>2
<1>3. LastAt(m, h + 1, s.node \div 2) /\ LastAt(n, h + 1, s.last \div 2)
  BY LastUp DEF At
<1>4. s.node \div 2 \in Nat /\ s.last \div 2 \in Nat
  BY <1>1
<1> HIDE DEF t
<1>5. At(m, n, h + 1, t)
  BY <1>2, <1>3, <1>4 DEF At
<1> QED BY <1>2, <1>5 DEF t

(* The hashes a turn computes, by where the node is. *)
LEMMA TurnHashes ==
    ASSUME NEW s, s.node \in Nat, s.last \in Nat, s.node <= s.last, NEW proof
    PROVE  LET t == Turn(proof, s)
               x == Item(proof, s.p)
           IN  /\ s.node % 2 = 1 => /\ t.fr = hashNode(x, s.fr)
                                    /\ t.sr = hashNode(x, s.sr)
                                    /\ t.p = s.p + 1
               /\ s.node % 2 = 0 /\ s.node < s.last => /\ t.fr = s.fr
                                                       /\ t.sr = hashNode(s.sr, x)
                                                       /\ t.p = s.p + 1
               /\ s.node % 2 = 0 /\ s.node = s.last => t.fr = s.fr /\ t.sr = s.sr /\ t.p = s.p
<1> DEFINE t == Turn(proof, s)
           x == Item(proof, s.p)
<1> HIDE DEF x
<1>1. CASE s.last = 0
  <2>1. t = s
    BY <1>1 DEF Turn
  <2>2. s.node = 0
    BY <1>1
  <2> QED BY <1>1, <2>1, <2>2
<1>2. CASE s.last # 0
  <2>1. s.node = 0 => s.node < s.last
    BY <1>2
  <2>2. ASSUME s.node % 2 = 1
        PROVE  t.fr = hashNode(x, s.fr) /\ t.sr = hashNode(x, s.sr) /\ t.p = s.p + 1
    BY <1>2, <2>2 DEF Turn, x
  <2>3. ASSUME s.node % 2 = 0, s.node < s.last
        PROVE  t.fr = s.fr /\ t.sr = hashNode(s.sr, x) /\ t.p = s.p + 1
    BY <1>2, <2>3 DEF Turn, x
  <2>4. ASSUME s.node % 2 = 0, s.node = s.last
        PROVE  t.fr = s.fr /\ t.sr = s.sr /\ t.p = s.p
    BY <1>2, <2>1, <2>4 DEF Turn
  <2> QED BY <2>2, <2>3, <2>4 DEF x
<1> QED BY <1>1, <1>2

(* Left of an odd node is a full one. *)
LEMMA LeftIsFull ==
    ASSUME NEW d, NEW N \in Nat, NEW h \in Nat, NEW j \in Nat, j % 2 = 1, Off(j, h) < N
    PROVE  /\ Lev(d, N, h, j - 1) = SliceRoot(d)[Shl[h]][Off(j - 1, h)]
           /\ Lev(d, N, h + 1, j \div 2) = hashNode(Lev(d, N, h, j - 1), Lev(d, N, h, j))
<1>1. /\ j - 1 \in Nat /\ (j - 1) % 2 = 0 /\ (j - 1) \div 2 = j \div 2 /\ (j - 1) + 1 = j
  OBVIOUS
<1>2. Off(j, h) = Off(j - 1, h) + Shl[h] /\ Off(j - 1, h) \in Nat /\ Shl[h] \in Nat
  BY <1>1, OffHalf, OffNat, ShlType, Zenon
<1>3. Width(N, h, j - 1) = Shl[h]
  BY <1>2 DEF Width
<1>4. Lev(d, N, h + 1, (j - 1) \div 2) = hashNode(Lev(d, N, h, j - 1), Lev(d, N, h, (j - 1) + 1))
  BY <1>1, NodeAbove
<1> QED BY <1>1, <1>3, <1>4 DEF Lev

(* Backwards: what a turn made right was right before it. *)
LEMMA TurnBack ==
    ASSUME NEW d, NEW e, NEW m \in Nat, NEW n \in Nat, m <= n, NEW h \in Nat,
           NEW s, At(m, n, h, s), NEW proof, Sits(d, m, e, n, h + 1, Turn(proof, s))
    PROVE  Sits(d, m, e, n, h, s)
<1> DEFINE t == Turn(proof, s)
           x == Item(proof, s.p)
           a == s.node
           b == s.last
<1>1. a \in Nat /\ b \in Nat /\ a <= b /\ LastAt(m, h, a) /\ LastAt(n, h, b)
  BY AtOrder DEF At
<1>2. t.node = a \div 2 /\ t.last = b \div 2
  BY TurnMoves
<1>3. /\ t.fr = Lev(d, m, h + 1, a \div 2)
      /\ t.sr = Lev(e, n, h + 1, a \div 2)
      /\ Agree(d, e, 0, Off(a \div 2, h + 1))
  BY <1>2 DEF Sits
<1>4. /\ a % 2 = 1 => t.fr = hashNode(x, s.fr) /\ t.sr = hashNode(x, s.sr)
      /\ a % 2 = 0 /\ a < b => t.fr = s.fr /\ t.sr = hashNode(s.sr, x)
      /\ a % 2 = 0 /\ a = b => t.fr = s.fr /\ t.sr = s.sr
  BY <1>1, TurnHashes
<1> HIDE DEF t, x, a, b
<1>5. Off(a, h) \in Nat /\ Off(a, h) < m /\ Off(a, h) < n
  <2>1. Off(a, h) \in Nat
    BY <1>1, OffNat
  <2>2. Off(a, h) < m
    BY <1>1 DEF LastAt
  <2> QED BY <2>1, <2>2
<1>6. CASE a % 2 = 1
  <2> DEFINE o == Off(a - 1, h)
             w == Shl[h]
  <2>1. /\ Off(a \div 2, h + 1) = o /\ Off(a, h) = o + w
        /\ o \in Nat /\ w \in Nat
    BY <1>1, <1>6, OffHalf, OffNat, ShlType, Zenon
  <2>2. /\ Lev(d, m, h, a - 1) = SliceRoot(d)[w][o]
        /\ Lev(d, m, h + 1, a \div 2) = hashNode(Lev(d, m, h, a - 1), Lev(d, m, h, a))
    BY <1>1, <1>5, <1>6, LeftIsFull
  <2>X. /\ Lev(e, n, h, a - 1) = SliceRoot(e)[w][o]
        /\ Lev(e, n, h + 1, a \div 2) = hashNode(Lev(e, n, h, a - 1), Lev(e, n, h, a))
    BY <1>1, <1>5, <1>6, LeftIsFull
  <2> HIDE DEF o, w
  <2>3. /\ s.fr = Lev(d, m, h, a) /\ s.sr = Lev(e, n, h, a)
        /\ Lev(d, m, h, a - 1) = x /\ Lev(e, n, h, a - 1) = x
    BY <1>3, <1>4, <1>6, <2>2, <2>X, HashesDiffer
  <2>4. Agree(d, e, o, w)
    <3>1. SliceRoot(d)[w][o] = SliceRoot(e)[w][o]
      BY <2>2, <2>3, <2>X
    <3> QED BY <2>1, <3>1, RootDetermines, Zenon
  <2>5. Agree(d, e, 0, o + w)
    BY <1>3, <2>1, <2>4 DEF Agree
  <2> QED BY <2>1, <2>3, <2>5 DEF Sits, a
<1>7. CASE a % 2 = 0 /\ a < b
  <2>1. Off(a \div 2, h + 1) = Off(a, h)
    BY <1>1, <1>7, OffHalf
  <2>2. Lev(d, m, h + 1, a \div 2) = Lev(d, m, h, a)
    BY <1>1, <1>7, NodeAbove
  <2>3. Off(a + 1, h) < n
    <3>1. Off(a, h) + Shl[h] <= Off(b, h) /\ Off(b, h) < n
      BY <1>1, <1>7, OffGrows DEF LastAt
    <3>2. Off(a + 1, h) = Off(a, h) + Shl[h] /\ Shl[h] \in Nat /\ Off(b, h) \in Nat
      BY <1>1, OffNext, ShlType, OffNat, Zenon
    <3> QED BY <1>5, <3>1, <3>2
  <2>4. Lev(e, n, h + 1, a \div 2) = hashNode(Lev(e, n, h, a), Lev(e, n, h, a + 1))
    BY <1>1, <1>7, <2>3, NodeAbove
  <2>5. s.fr = Lev(d, m, h, a) /\ s.sr = Lev(e, n, h, a)
    BY <1>3, <1>4, <1>7, <2>2, <2>4, HashesDiffer
  <2> QED BY <1>3, <2>1, <2>5 DEF Sits, a
<1>8. CASE a % 2 = 0 /\ a = b
  <2>1. Off(a \div 2, h + 1) = Off(a, h)
    BY <1>1, <1>8, OffHalf
  <2>2. LastAt(m, h, a) /\ LastAt(n, h, a)
    BY <1>1, <1>8
  <2>3. /\ Lev(d, m, h + 1, a \div 2) = Lev(d, m, h, a)
        /\ Lev(e, n, h + 1, a \div 2) = Lev(e, n, h, a)
    BY <1>1, <1>8, <2>2, NodeAbove
  <2>4. s.fr = Lev(d, m, h, a) /\ s.sr = Lev(e, n, h, a)
    BY <1>3, <1>4, <1>8, <2>3
  <2> QED BY <1>3, <2>1, <2>4 DEF Sits, a
<1>9. a % 2 = 1 \/ a % 2 = 0
  BY <1>1
<1> QED BY <1>1, <1>6, <1>7, <1>8, <1>9

(* Where the first loop stops: on the last node of some level of the old *)
(* tree, a left one, with nothing missing below it.                      *)
Rests(m, n, above) ==
    \E g, node, l \in Nat :
        /\ above = <<node, l>>
        /\ node % 2 = 0
        /\ LastAt(m, g, node) /\ LastAt(n, g, l)
        /\ m = Off(node, g) + Shl[g]

LEMMA AboveOddRests ==
    ASSUME NEW m \in Nat, NEW n \in Nat
    PROVE  \A a, b, h \in Nat :
               LastAt(m, h, a) /\ LastAt(n, h, b) /\ m = Off(a, h) + Shl[h] =>
                   Rests(m, n, AboveOdd[a][b])
<1> DEFINE P(a) == \A b, h \in Nat :
                       LastAt(m, h, a) /\ LastAt(n, h, b) /\ m = Off(a, h) + Shl[h] =>
                           Rests(m, n, AboveOdd[a][b])
           T == {a \in Nat : P(a)}
<1>1. ASSUME NEW a \in Nat, \A k \in 0 .. a - 1 : k \in T PROVE a \in T
  <2> SUFFICES ASSUME NEW b \in Nat, NEW h \in Nat,
                      LastAt(m, h, a), LastAt(n, h, b), m = Off(a, h) + Shl[h]
               PROVE  Rests(m, n, AboveOdd[a][b])
    OBVIOUS
  <2>1. CASE a % 2 = 0
    <3>1. AboveOdd[a][b] = <<a, b>>
      <4>1. a % 2 # 1
        BY <2>1
      <4> QED BY <4>1, AboveOddUnfold, Zenon
    <3> QED BY <2>1, <3>1 DEF Rests
  <2>2. CASE a % 2 = 1
    <3>1. AboveOdd[a][b] = AboveOdd[a \div 2][b \div 2]
      BY <2>2, AboveOddUnfold, Zenon
    <3>2. LastAt(m, h + 1, a \div 2) /\ LastAt(n, h + 1, b \div 2)
      BY LastUp
    <3>3. m = Off(a \div 2, h + 1) + Shl[h + 1]
      <4>1. Off(a, h) = Off(a \div 2, h + 1) + Shl[h] /\ a - 1 \in Nat
        BY <2>2, OffHalf
      <4>2. Shl[h] \in Nat /\ Shl[h + 1] = 2 * Shl[h] /\ Off(a \div 2, h + 1) \in Nat
        <5>1. a \div 2 \in Nat /\ h + 1 \in Nat
          OBVIOUS
        <5>2. Off(a \div 2, h + 1) \in Nat
          BY <5>1, OffNat, Zenon
        <5> QED BY <5>2, ShlType
      <4> QED BY <4>1, <4>2
    <3>4. a \div 2 \in 0 .. a - 1 /\ b \div 2 \in Nat /\ h + 1 \in Nat
      BY <2>2
    <3>5. P(a \div 2)
      BY <1>1, <3>4
    <3> HIDE DEF P
    <3> QED BY <3>1, <3>2, <3>3, <3>4, <3>5 DEF P
  <2>3. a % 2 = 0 \/ a % 2 = 1
    OBVIOUS
  <2> QED BY <2>1, <2>2, <2>3
<1> HIDE DEF T
<1>2. \A a \in Nat : a \in T
  BY <1>1, StrongInduction
<1> QED BY <1>2 DEF T

LEMMA StartRests ==
    ASSUME NEW m \in Nat, NEW n \in Nat, 0 < m, m <= n
    PROVE  Rests(m, n, AboveOdd[m - 1][n - 1])
<1>1. m - 1 \in Nat /\ n - 1 \in Nat /\ 0 \in Nat
  OBVIOUS
<1>2. Shl[0] = 1 /\ Off(m - 1, 0) = m - 1 /\ Off(n - 1, 0) = n - 1
  BY ShlType DEF Off
<1>3. LastAt(m, 0, m - 1) /\ LastAt(n, 0, n - 1) /\ m = Off(m - 1, 0) + Shl[0]
  BY <1>2 DEF LastAt
<1> QED BY <1>1, <1>3, AboveOddRests, Zenon

LEMMA ClimbsAt ==
    ASSUME NEW m \in Nat, NEW n \in Nat, m <= n, NEW g \in Nat, NEW s, At(m, n, g, s), NEW proof
    PROVE  \A i \in Nat : At(m, n, g + i, Climb(proof, s)[i])
<1> DEFINE c == Climb(proof, s)
           T == {i \in Nat : At(m, n, g + i, c[i])}
<1>1. c[0] = s /\ \A i \in Nat : c[i + 1] = Turn(proof, c[i])
  BY ClimbUnfold
<1> HIDE DEF c
<1>2. 0 \in T
  BY <1>1
<1>3. ASSUME NEW i \in Nat, i \in T PROVE i + 1 \in T
  <2>1. At(m, n, (g + i) + 1, Turn(proof, c[i]))
    BY <1>3, TurnMoves
  <2>2. (g + i) + 1 = g + (i + 1)
    OBVIOUS
  <2> QED BY <1>1, <2>1, <2>2
<1> HIDE DEF T
<1>4. \A i \in Nat : i \in T
  BY <1>2, <1>3, Induction
<1> QED BY <1>4 DEF T, c

(* After n turns the climb is at the roots. *)
LEMMA RootLevel ==
    ASSUME NEW d, NEW N \in Nat, NEW h \in Nat, N <= h
    PROVE  Width(N, h, 0) = N /\ Lev(d, N, h, 0) = SliceRoot(d)[N][0]
<1>1. Shl[h] \in Nat /\ Shl[h] > h /\ Off(0, h) = 0
  BY ShlType, OffNat, Zenon
<1>2. Width(N, h, 0) = N
  BY <1>1 DEF Width
<1> QED BY <1>1, <1>2 DEF Lev

LEMMA EndsAtRoots ==
    ASSUME NEW m \in Nat, NEW n \in Nat, m <= n, NEW h \in Nat, n <= h, NEW s, At(m, n, h, s)
    PROVE  s.node = 0
<1>1. Shl[h] \in Nat /\ Shl[h] > h /\ Off(0, h) = 0
  BY ShlType, OffNat
<1>2. s.last = 0
  <2> SUFFICES ASSUME 0 < s.last PROVE FALSE
    BY DEF At
  <2>1. s.last \in Nat /\ Off(s.last, h) < n
    BY DEF At, LastAt
  <2>2. Off(0, h) + Shl[h] <= Off(s.last, h) /\ Off(s.last, h) \in Nat
    BY <2>1, OffGrows, OffNat, Zenon
  <2> QED BY <1>1, <2>1, <2>2
<1> QED BY <1>2, AtOrder DEF At

(* VerifyConsistency is sound: whatever proof is given, a root it accepts as *)
(* an extension of an earlier root is over leaves that begin with the        *)
(* earlier ones.                                                             *)
THEOREM ConsistencyIsSound ==
    ASSUME NEW d, NEW e, NEW m \in Nat, NEW n \in Nat, 0 < m, m <= n, NEW proof,
           VerifyConsistency(m, n, proof, SliceRoot(d)[m][0], SliceRoot(e)[n][0])
    PROVE  Agree(d, e, 0, m)
<1>1. CASE m = n
  <2>1. SliceRoot(d)[m][0] = SliceRoot(e)[m][0]
    BY <1>1 DEF VerifyConsistency
  <2> QED BY <2>1, RootDetermines
<1>2. CASE m < n
  <2> DEFINE s == Start(m, n, proof, SliceRoot(d)[m][0])
             c == Climb(proof, s)
  <2>1. c[n].fr = SliceRoot(d)[m][0] /\ c[n].sr = SliceRoot(e)[n][0]
    BY <1>2 DEF VerifyConsistency
  <2>2. c[0] = s /\ \A i \in Nat : c[i + 1] = Turn(proof, c[i])
    BY ClimbUnfold
  <2>3. PICK g, node, l \in Nat :
                 /\ AboveOdd[m - 1][n - 1] = <<node, l>>
                 /\ node % 2 = 0
                 /\ LastAt(m, g, node) /\ LastAt(n, g, l)
                 /\ m = Off(node, g) + Shl[g]
    BY StartRests, Zenon DEF Rests
  <2>4. s.node = node /\ s.last = l /\ s.fr = s.sr
    BY <2>3 DEF Start
  <2> HIDE DEF s
  <2>5. At(m, n, g, s)
    BY <2>3, <2>4 DEF At
  <2>6. \A i \in Nat : At(m, n, g + i, c[i])
    BY <2>5, ClimbsAt
  <2> HIDE DEF c
  <2>7. Sits(d, m, e, n, g + n, c[n])
    <3>1. /\ c[n].node = 0
          /\ Lev(d, m, g + n, 0) = SliceRoot(d)[m][0]
          /\ Lev(e, n, g + n, 0) = SliceRoot(e)[n][0]
      <4>1. At(m, n, g + n, c[n]) /\ g + n \in Nat /\ m <= g + n /\ n <= g + n
        BY <2>6
      <4> QED BY <4>1, EndsAtRoots, RootLevel
    <3>2. Off(0, g + n) = 0
      BY OffNat
    <3>3. Agree(d, e, 0, 0)
      BY DEF Agree
    <3> QED BY <2>1, <3>1, <3>2, <3>3 DEF Sits
  <2> DEFINE T == {k \in Nat : k <= n => Sits(d, m, e, n, g + (n - k), c[n - k])}
  <2>8. 0 \in T
    BY <2>7
  <2>9. ASSUME NEW k \in Nat, k \in T PROVE k + 1 \in T
    <3> SUFFICES ASSUME k + 1 <= n
                 PROVE  Sits(d, m, e, n, g + (n - (k + 1)), c[n - (k + 1)])
      OBVIOUS
    <3> DEFINE i == n - (k + 1)
    <3>1. i \in Nat /\ i + 1 = n - k /\ g + i \in Nat /\ (g + i) + 1 = g + (n - k)
      OBVIOUS
    <3>2. Sits(d, m, e, n, g + (n - k), c[n - k])
      BY <2>9
    <3> HIDE DEF i
    <3>3. Sits(d, m, e, n, (g + i) + 1, Turn(proof, c[i]))
      BY <2>2, <3>1, <3>2
    <3>4. Sits(d, m, e, n, g + i, c[i])
      BY <2>6, <3>1, <3>3, TurnBack
    <3> QED BY <3>4 DEF i
  <2> HIDE DEF T
  <2>10. \A k \in Nat : k \in T
    BY <2>8, <2>9, Induction
  <2>11. Sits(d, m, e, n, g, s)
    <3>1. Sits(d, m, e, n, g + (n - n), c[n - n])
      BY <2>10 DEF T
    <3>2. g + (n - n) = g /\ n - n = 0
      OBVIOUS
    <3> QED BY <2>2, <3>1, <3>2
  <2> DEFINE o == Off(node, g)
             w == Shl[g]
  <2>12. o \in Nat /\ w \in Nat /\ m = o + w
    BY <2>3, OffNat, ShlType, Zenon
  <2>13. Lev(d, m, g, node) = SliceRoot(d)[w][o] /\ Lev(e, n, g, node) = SliceRoot(e)[w][o]
    <3>1. Width(m, g, node) = w /\ Width(n, g, node) = w
      BY <2>12 DEF Width
    <3> QED BY <3>1 DEF Lev
  <2>14. Agree(d, e, 0, o) /\ SliceRoot(d)[w][o] = SliceRoot(e)[w][o]
    BY <2>4, <2>11, <2>13, Zenon DEF Sits
  <2> HIDE DEF o, w
  <2>15. Agree(d, e, o, w)
    BY <2>12, <2>14, RootDetermines, Zenon
  <2> QED BY <2>12, <2>14, <2>15 DEF Agree
<1> QED BY <1>1, <1>2

(* subproof at its base, and split. *)
SubBase(d, n, lo, b) == IF b = 1 THEN <<>> ELSE <<SliceRoot(d)[n][lo]>>

SubSplit(d, n, lo, m, b) ==
    IF m <= lp2(n)
    THEN Append(subproof(d)[lp2(n)][lo][m][b], SliceRoot(d)[n - lp2(n)][lo + lp2(n)])
    ELSE Append(subproof(d)[n - lp2(n)][lo + lp2(n)][m - lp2(n)][0], SliceRoot(d)[lp2(n)][lo])

LEMMA SubBaseIs ==
    ASSUME NEW d, NEW n, NEW lo
    PROVE  SubBase(d, n, lo, 1) = <<>> /\ SubBase(d, n, lo, 0) = <<SliceRoot(d)[n][lo]>>
BY DEF SubBase

LEMMA SubproofUnfold ==
    ASSUME NEW d
    PROVE  \A n, lo, m \in Nat, b \in {0, 1} :
               subproof(d)[n][lo][m][b] =
                   IF m = n \/ n <= 1 THEN SubBase(d, n, lo, b) ELSE SubSplit(d, n, lo, m, b)
<1> SUFFICES ASSUME NEW n \in Nat, NEW lo \in Nat, NEW m \in Nat, NEW b \in {0, 1}
             PROVE  subproof(d)[n][lo][m][b] =
                        IF m = n \/ n <= 1 THEN SubBase(d, n, lo, b) ELSE SubSplit(d, n, lo, m, b)
  OBVIOUS
<1>1. ASSUME NEW k \in Nat, NEW f, NEW g, \A j \in 0 .. k - 1 : f[j] = g[j]
      PROVE  SubStep(d, f, k) = SubStep(d, g, k)
  <2>1. CASE k < 2
    BY <2>1 DEF SubStep
  <2>2. CASE k >= 2
    <3>1. lp2(k) \in 0 .. k - 1 /\ k - lp2(k) \in 0 .. k - 1
      BY <2>2, Split
    <3> QED BY <1>1, <3>1 DEF SubStep
  <2> QED BY <2>1, <2>2
<1> DEFINE c == <<"subproof", d>>
<1>7. \A f, k : Step(c, f, k) = SubStep(d, f, k)
  BY DEF Step
<1> HIDE DEF c
<1>2. ReadsBelow(c)
  BY <1>1, <1>7 DEF ReadsBelow
<1>3. \E f : f = [k \in Nat |-> SubStep(d, f, k)]
  BY <1>2, <1>7, HasSolution DEF Solves
<1>4. subproof(d) = [k \in Nat |-> SubStep(d, subproof(d), k)]
  BY <1>3, Zenon DEF subproof, SubStep
<1>5. subproof(d)[n] = SubStep(d, subproof(d), n)
  BY <1>4
<1>6. subproof(d)[n][lo][m][b] =
          IF m = n \/ n <= 1 THEN IF b = 1 THEN <<>> ELSE <<SliceRoot(d)[n][lo]>>
          ELSE IF m <= lp2(n)
          THEN Append(subproof(d)[lp2(n)][lo][m][b], SliceRoot(d)[n - lp2(n)][lo + lp2(n)])
          ELSE Append(subproof(d)[n - lp2(n)][lo + lp2(n)][m - lp2(n)][0], SliceRoot(d)[lp2(n)][lo])
  <2>1. ASSUME NEW f
        PROVE  SubStep(d, f, n)[lo][m][b] =
                   IF m = n \/ n <= 1 THEN IF b = 1 THEN <<>> ELSE <<SliceRoot(d)[n][lo]>>
                   ELSE IF m <= lp2(n)
                   THEN Append(f[lp2(n)][lo][m][b], SliceRoot(d)[n - lp2(n)][lo + lp2(n)])
                   ELSE Append(f[n - lp2(n)][lo + lp2(n)][m - lp2(n)][0], SliceRoot(d)[lp2(n)][lo])
    BY DEF SubStep
  <2> QED BY <1>5, <2>1, Zenon
<1> QED BY <1>6 DEF SubBase, SubSplit

LEMMA SubproofWhole ==
    ASSUME NEW d, NEW n \in Nat, NEW lo \in Nat, NEW b \in {0, 1}
    PROVE  subproof(d)[n][lo][n][b] = SubBase(d, n, lo, b)
<1>1. \A m \in Nat : subproof(d)[n][lo][m][b] =
          IF m = n \/ n <= 1 THEN SubBase(d, n, lo, b) ELSE SubSplit(d, n, lo, m, b)
  BY SubproofUnfold
<1> QED BY <1>1

(* The proofs are sequences of roots of slices. *)
Hashes(d) == {SliceRoot(d)[x[1]][x[2]] : x \in Nat \X Nat}

LEMMA HashesHas == ASSUME NEW d, NEW n \in Nat, NEW lo \in Nat PROVE SliceRoot(d)[n][lo] \in Hashes(d)
<1>1. <<n, lo>> \in Nat \X Nat /\ <<n, lo>>[1] = n /\ <<n, lo>>[2] = lo
  OBVIOUS
<1> QED BY <1>1 DEF Hashes

LEMMA SubproofType ==
    ASSUME NEW d
    PROVE  \A n, lo, m \in Nat, b \in {0, 1} : subproof(d)[n][lo][m][b] \in Seq(Hashes(d))
<1> DEFINE T == {n \in Nat : \A lo, m \in Nat, b \in {0, 1} :
                     subproof(d)[n][lo][m][b] \in Seq(Hashes(d))}
<1>1. ASSUME NEW n \in Nat, \A k \in 0 .. n - 1 : k \in T PROVE n \in T
  <2> SUFFICES ASSUME NEW lo \in Nat, NEW m \in Nat, NEW b \in {0, 1}
               PROVE  subproof(d)[n][lo][m][b] \in Seq(Hashes(d))
    BY Zenon
  <2>1. CASE m = n \/ n <= 1
    <3>1. subproof(d)[n][lo][m][b] = SubBase(d, n, lo, b)
      BY <2>1, SubproofUnfold
    <3>2. SliceRoot(d)[n][lo] \in Hashes(d)
      BY HashesHas
    <3>3. <<>> \in Seq(Hashes(d)) /\ <<SliceRoot(d)[n][lo]>> \in Seq(Hashes(d))
      BY <3>2
    <3> QED BY <3>1, <3>3 DEF SubBase
  <2>2. CASE ~(m = n \/ n <= 1)
    <3> DEFINE k == lp2(n)
    <3>1. /\ k \in Nat /\ k > 0 /\ k < n
          /\ n - k \in Nat /\ n - k > 0 /\ n - k < n
      BY <2>2, Split
    <3>2. subproof(d)[n][lo][m][b] =
              IF m <= k
              THEN Append(subproof(d)[k][lo][m][b], SliceRoot(d)[n - k][lo + k])
              ELSE Append(subproof(d)[n - k][lo + k][m - k][0], SliceRoot(d)[k][lo])
      <4>1. subproof(d)[n][lo][m][b] = SubSplit(d, n, lo, m, b)
        BY <2>2, SubproofUnfold
      <4> QED BY <4>1 DEF SubSplit
    <3> HIDE DEF k
    <3>3. SliceRoot(d)[n - k][lo + k] \in Hashes(d) /\ SliceRoot(d)[k][lo] \in Hashes(d)
      BY <3>1, HashesHas
    <3>4. subproof(d)[k][lo][m][b] \in Seq(Hashes(d))
      BY <1>1, <3>1
    <3>5. ASSUME ~(m <= k) PROVE subproof(d)[n - k][lo + k][m - k][0] \in Seq(Hashes(d))
      <4>1. n - k \in 0 .. n - 1 /\ lo + k \in Nat /\ m - k \in Nat /\ 0 \in {0, 1}
        BY <3>1, <3>5
      <4>2. n - k \in T
        BY <1>1, <4>1
      <4> QED BY <4>1, <4>2
    <3> QED BY <3>2, <3>3, <3>4, <3>5
  <2> QED BY <2>1, <2>2
<1> HIDE DEF T
<1>2. \A n \in Nat : n \in T
  BY <1>1, StrongInduction
<1> QED BY <1>2 DEF T

-----------------------------------------------------------------------------
(* What the log has put into a proof when it comes to a node of level h. *)

PartProof(d, m, n, h, j) == subproof(d)[Width(n, h, j)][Off(j, h)][m - Off(j, h)][IF j = 0 THEN 1 ELSE 0]

Sibling(d, n, h, j) == IF j % 2 = 1 THEN Lev(d, n, h, j - 1) ELSE Lev(d, n, h, j + 1)

LEMMA SiblingOnLeft ==
    ASSUME NEW d, NEW n \in Nat, NEW h \in Nat, NEW j \in Nat, j % 2 = 1, Off(j, h) < n
    PROVE  Sibling(d, n, h, j) = SliceRoot(d)[Shl[h]][Off(j - 1, h)]
BY LeftIsFull DEF Sibling

(* The subtree of the old leaves under the node is not one of the log's own. *)
Broken(m, h, j) == j % 2 = 0 \/ m < Off(j, h) + Shl[h]

LEMMA BrokenUp ==
    ASSUME NEW m \in Nat, NEW h \in Nat, NEW j \in Nat, LastAt(m, h, j), Broken(m, h, j)
    PROVE  Broken(m, h + 1, j \div 2)
<1> DEFINE o == Off(j, h)
           w == Shl[h]
<1>1. w \in Nat /\ w > 0 /\ Shl[h + 1] = 2 * w
  BY ShlType
<1>2. o \in Nat /\ o < m /\ m <= o + w
  BY OffNat DEF LastAt
<1>3. j % 2 = 0 \/ m < o + w
  BY DEF Broken
<1>4. /\ j % 2 = 0 => Off(j \div 2, h + 1) = o
      /\ j % 2 = 1 => o = Off(j \div 2, h + 1) + w
      /\ j % 2 \in {0, 1}
  BY OffHalf
<1>5. Off(j \div 2, h + 1) \in Nat
  <2>1. j \div 2 \in Nat /\ h + 1 \in Nat
    OBVIOUS
  <2> QED BY <2>1, OffNat, Zenon
<1> HIDE DEF o, w
<1>6. m < Off(j \div 2, h + 1) + 2 * w
  BY <1>1, <1>2, <1>3, <1>4, <1>5
<1> QED BY <1>1, <1>6 DEF Broken

LEMMA PartProofType ==
    ASSUME NEW d, NEW m \in Nat, NEW n \in Nat, m <= n, NEW h \in Nat, NEW j \in Nat, LastAt(m, h, j)
    PROVE  /\ Width(n, h, j) \in Nat /\ Off(j, h) \in Nat /\ m - Off(j, h) \in Nat
           /\ PartProof(d, m, n, h, j) \in Seq(Hashes(d))
<1>1. Off(j, h) \in Nat /\ Shl[h] \in Nat /\ Off(j, h) < m
  BY OffNat, ShlType, Zenon DEF LastAt
<1>2. Width(n, h, j) \in Nat /\ m - Off(j, h) \in Nat
  BY <1>1 DEF Width
<1>3. (IF j = 0 THEN 1 ELSE 0) \in {0, 1}
  OBVIOUS
<1> QED BY <1>1, <1>2, <1>3, SubproofType DEF PartProof

(* One level up, the proof is longer by the sibling's root, if there is one. *)
LEMMA PartProofUp ==
    ASSUME NEW d, NEW m \in Nat, NEW n \in Nat, m < n, NEW h \in Nat,
           NEW j \in Nat, NEW l \in Nat, LastAt(m, h, j), LastAt(n, h, l), j <= l, Broken(m, h, j)
    PROVE  PartProof(d, m, n, h + 1, j \div 2) =
               IF j % 2 = 0 /\ j = l THEN PartProof(d, m, n, h, j)
               ELSE Append(PartProof(d, m, n, h, j), Sibling(d, n, h, j))
<1> DEFINE o == Off(j, h)
           w == Shl[h]
           u == Off(j \div 2, h + 1)
           big == Width(n, h + 1, j \div 2)
<1>1. w \in Nat /\ w > 0 /\ Shl[h + 1] = 2 * w
  BY ShlType
<1>2. o \in Nat /\ o < m /\ m <= o + w
  BY OffNat DEF LastAt
<1>3. j \div 2 \in Nat /\ h + 1 \in Nat /\ j % 2 \in {0, 1}
  OBVIOUS
<1>4. u \in Nat
  BY <1>3, OffNat, Zenon
<1>5. big = IF n <= u + 2 * w THEN n - u ELSE 2 * w
  BY <1>1 DEF Width
<1>6. Width(n, h, j) = IF n <= o + w THEN n - o ELSE w
  BY DEF Width
<1>7. CASE j % 2 = 0 /\ j = l
  <2>1. u = o
    BY <1>7, OffHalf
  <2>2. n <= o + w
    BY <1>7 DEF LastAt
  <2>3. j \div 2 = 0 <=> j = 0
    BY <1>7
  <2> HIDE DEF o, w, u, big
  <2>4. big = Width(n, h, j)
    BY <1>1, <1>2, <1>5, <1>6, <2>1, <2>2
  <2> QED BY <1>7, <2>1, <2>3, <2>4 DEF PartProof, o, u, big
<1>8. CASE j % 2 = 0 /\ j < l
  <2>1. u = o
    BY <1>8, OffHalf
  <2>2. o + w < n
    <3>1. o + w <= Off(l, h) /\ Off(l, h) < n /\ Off(l, h) \in Nat
      BY <1>8, OffGrows, OffNat, Zenon DEF LastAt
    <3> HIDE DEF o, w
    <3> QED BY <1>1, <1>2, <3>1
  <2> DEFINE b == IF j \div 2 = 0 THEN 1 ELSE 0
             c == IF j = 0 THEN 1 ELSE 0
  <2>3. b = c /\ b \in {0, 1}
    BY <1>8
  <2>4. Off(j + 1, h) = o + w
    BY OffNext
  <2> HIDE DEF o, w, u, big, b, c
  <2>5. /\ big \in Nat /\ w < big /\ big <= 2 * w /\ big > 1
        /\ m - o \in Nat /\ m - o # big /\ m - o <= w
        /\ Width(n, h, j) = w
        /\ big - w \in Nat
    BY <1>1, <1>2, <1>5, <1>6, <2>1, <2>2
  <2>6. lp2(big) = w
    BY <1>1, <2>5, SplitAt DEF w
  <2>7. subproof(d)[big][o][m - o][b] = SubSplit(d, big, o, m - o, b)
    BY <1>2, <2>3, <2>5, SubproofUnfold
  <2>8. SubSplit(d, big, o, m - o, b) =
            Append(subproof(d)[w][o][m - o][b], SliceRoot(d)[big - w][o + w])
    BY <2>5, <2>6, Zenon DEF SubSplit
  <2>9. Width(n, h, j + 1) = big - w
    BY <1>1, <1>2, <1>5, <2>1, <2>2, <2>4 DEF Width, w
  <2>10. Sibling(d, n, h, j) = SliceRoot(d)[big - w][o + w]
    BY <1>8, <2>4, <2>9 DEF Sibling, Lev
  <2>11. PartProof(d, m, n, h + 1, j \div 2) = subproof(d)[big][o][m - o][b]
    BY <2>1 DEF PartProof, big, u, b
  <2>12. PartProof(d, m, n, h, j) = subproof(d)[w][o][m - o][b]
    BY <2>3, <2>5 DEF PartProof, o, c
  <2>13. ~(j % 2 = 0 /\ j = l)
    BY <1>8
  <2> QED BY <2>7, <2>8, <2>10, <2>11, <2>12, <2>13, Zenon
<1>9. CASE j % 2 = 1
  <2>1. o = u + w /\ Off(j - 1, h) = u /\ j - 1 \in Nat
    BY <1>9, OffHalf
  <2>2. m < o + w
    BY <1>9 DEF Broken
  <2> DEFINE b == IF j \div 2 = 0 THEN 1 ELSE 0
  <2>3. b \in {0, 1} /\ j # 0
    BY <1>9
  <2> HIDE DEF o, w, u, big, b
  <2>4. /\ big \in Nat /\ w < big /\ big <= 2 * w /\ big > 1
        /\ m - u \in Nat /\ m - u # big /\ ~(m - u <= w)
        /\ Width(n, h, j) = big - w
        /\ (m - u) - w = m - o
    BY <1>1, <1>2, <1>4, <1>5, <1>6, <2>1, <2>2
  <2>5. lp2(big) = w
    BY <1>1, <2>4, SplitAt DEF w
  <2>6. subproof(d)[big][u][m - u][b] = SubSplit(d, big, u, m - u, b)
    BY <1>4, <2>3, <2>4, SubproofUnfold
  <2>7. SubSplit(d, big, u, m - u, b) =
            Append(subproof(d)[big - w][o][m - o][0], SliceRoot(d)[w][u])
    BY <2>1, <2>4, <2>5, Zenon DEF SubSplit
  <2>8. Sibling(d, n, h, j) = SliceRoot(d)[w][u]
    <3>1. Off(j, h) < n
      BY <1>2 DEF o
    <3>2. Sibling(d, n, h, j) = SliceRoot(d)[Shl[h]][Off(j - 1, h)]
      BY <1>9, <3>1, SiblingOnLeft, SMTT(20)
    <3> QED BY <2>1, <3>2, Zenon DEF w
  <2>9. PartProof(d, m, n, h + 1, j \div 2) = subproof(d)[big][u][m - u][b]
    BY DEF PartProof, big, u, b
  <2>10. PartProof(d, m, n, h, j) = subproof(d)[big - w][o][m - o][0]
    BY <2>3, <2>4 DEF PartProof, o
  <2>11. ~(j % 2 = 0 /\ j = l)
    BY <1>9
  <2> QED BY <2>6, <2>7, <2>8, <2>9, <2>10, <2>11, Zenon
<1> QED BY <1>3, <1>7, <1>8, <1>9

(* proof begins with the hashes of q. *)
Begins(q, proof) == Len(q) <= Len(proof) /\ \A i \in 1 .. Len(q) : q[i] = proof[i]

(* What the climb has rebuilt from the log's own proof. *)
Rebuilt(d, m, n, h, s) ==
    /\ s.fr = Lev(d, m, h, s.node)
    /\ s.sr = Lev(d, n, h, s.node)
    /\ s.p = Len(PartProof(d, m, n, h, s.node))

LEMMA BeginsAppend ==
    ASSUME NEW S, NEW q \in Seq(S), NEW x \in S, NEW proof \in Seq(S), Begins(Append(q, x), proof)
    PROVE  /\ Begins(q, proof) /\ Len(Append(q, x)) = Len(q) + 1
           /\ Item(proof, Len(q)) = x /\ proof[Len(q) + 1] = x
<1>1. Len(Append(q, x)) = Len(q) + 1 /\ Len(q) \in Nat /\ Len(proof) \in Nat
  OBVIOUS
<1>2. \A i \in 1 .. Len(q) : Append(q, x)[i] = q[i]
  OBVIOUS
<1>3. Append(q, x)[Len(q) + 1] = x
  OBVIOUS
<1> DEFINE r == Append(q, x)
<1> HIDE DEF r
<1>4. Len(r) = Len(q) + 1 /\ Begins(r, proof) /\ r[Len(q) + 1] = x
      /\ \A i \in 1 .. Len(q) : r[i] = q[i]
  BY <1>1, <1>2, <1>3 DEF r
<1>5. Begins(q, proof)
  BY <1>1, <1>4 DEF Begins
<1>6. Len(q) < Len(proof) /\ proof[Len(q) + 1] = x
  BY <1>1, <1>4 DEF Begins
<1> QED BY <1>1, <1>5, <1>6 DEF Item

LEMMA SiblingType ==
    ASSUME NEW d, NEW m \in Nat, NEW n \in Nat, m <= n, NEW h \in Nat, NEW j \in Nat, NEW l \in Nat,
           LastAt(m, h, j), LastAt(n, h, l), j % 2 = 1 \/ j < l
    PROVE  Sibling(d, n, h, j) \in Hashes(d)
<1>1. Off(j, h) \in Nat /\ Off(j, h) < m /\ Shl[h] \in Nat
  BY OffNat, ShlType, Zenon DEF LastAt
<1>2. CASE j % 2 = 1
  <2>1. j - 1 \in Nat /\ Off(j, h) < n
    BY <1>1, <1>2
  <2>2. Off(j - 1, h) \in Nat
    BY <2>1, OffNat, Zenon
  <2>3. Sibling(d, n, h, j) = SliceRoot(d)[Shl[h]][Off(j - 1, h)]
    BY <1>2, <2>1, LeftIsFull DEF Sibling
  <2> QED BY <1>1, <2>2, <2>3, HashesHas
<1>3. CASE j % 2 # 1 /\ j < l
  <2>1. Off(j + 1, h) = Off(j, h) + Shl[h] /\ Off(j + 1, h) <= Off(l, h) /\ Off(l, h) < n
    BY <1>3, OffNext, OffGrows DEF LastAt
  <2>2. Off(j + 1, h) \in Nat /\ Off(l, h) \in Nat
    BY <1>1, <2>1, OffNat
  <2>3. Width(n, h, j + 1) \in Nat
    BY <1>1, <2>1, <2>2 DEF Width
  <2>4. Sibling(d, n, h, j) = SliceRoot(d)[Width(n, h, j + 1)][Off(j + 1, h)]
    BY <1>3 DEF Sibling, Lev
  <2> QED BY <2>2, <2>3, <2>4, HashesHas
<1> QED BY <1>2, <1>3

(* A turn reads the sibling's root and rebuilds the next level. *)
LEMMA TurnRebuilds ==
    ASSUME NEW d, NEW m \in Nat, NEW n \in Nat, m < n, NEW h \in Nat, NEW s, At(m, n, h, s),
           Broken(m, h, s.node), NEW proof \in Seq(Hashes(d)),
           Begins(PartProof(d, m, n, h + 1, s.node \div 2), proof)
    PROVE  /\ Begins(PartProof(d, m, n, h, s.node), proof)
           /\ Rebuilt(d, m, n, h, s) => Rebuilt(d, m, n, h + 1, Turn(proof, s))
<1> DEFINE t == Turn(proof, s)
           x == Item(proof, s.p)
           a == s.node
           b == s.last
           q == PartProof(d, m, n, h, a)
           r == PartProof(d, m, n, h + 1, a \div 2)
           y == Sibling(d, n, h, a)
<1>1. a \in Nat /\ b \in Nat /\ a <= b /\ LastAt(m, h, a) /\ LastAt(n, h, b)
  BY AtOrder DEF At
<1>2. t.node = a \div 2
  BY TurnMoves
<1>3. /\ a % 2 = 1 => t.fr = hashNode(x, s.fr) /\ t.sr = hashNode(x, s.sr) /\ t.p = s.p + 1
      /\ a % 2 = 0 /\ a < b => t.fr = s.fr /\ t.sr = hashNode(s.sr, x) /\ t.p = s.p + 1
      /\ a % 2 = 0 /\ a = b => t.fr = s.fr /\ t.sr = s.sr /\ t.p = s.p
  BY <1>1, TurnHashes
<1>4. q \in Seq(Hashes(d))
  BY <1>1, PartProofType
<1>5. r = IF a % 2 = 0 /\ a = b THEN q ELSE Append(q, y)
  BY <1>1, PartProofUp
<1>6. Begins(r, proof)
  OBVIOUS
<1>7. Off(a, h) \in Nat /\ Off(a, h) < m
  BY <1>1, OffNat, Zenon DEF LastAt
<1>8. ASSUME ~(a % 2 = 0 /\ a = b)
      PROVE  Begins(q, proof) /\ Item(proof, Len(q)) = y /\ Len(r) = Len(q) + 1
  <2>1. a % 2 = 1 \/ a < b
    BY <1>1, <1>8
  <2>2. y \in Hashes(d)
    BY <1>1, <2>1, SiblingType
  <2> HIDE DEF q, y, r, a, b
  <2>3. r = Append(q, y) /\ Begins(Append(q, y), proof)
    BY <1>5, <1>6, <1>8
  <2> QED BY <1>4, <2>2, <2>3, BeginsAppend
<1>9. Rebuilt(d, m, n, h, s) <=> s.fr = Lev(d, m, h, a) /\ s.sr = Lev(d, n, h, a) /\ s.p = Len(q)
  BY DEF Rebuilt
<1>10. Rebuilt(d, m, n, h + 1, t) <=>
           /\ t.fr = Lev(d, m, h + 1, a \div 2)
           /\ t.sr = Lev(d, n, h + 1, a \div 2)
           /\ t.p = Len(r)
  BY <1>2 DEF Rebuilt
<1>11. x = Item(proof, s.p) /\ y = Sibling(d, n, h, a)
  OBVIOUS
<1> HIDE DEF t, x, a, b, q, r, y
<1>12. CASE a % 2 = 1
  <2>1. Begins(q, proof) /\ Item(proof, Len(q)) = y /\ Len(r) = Len(q) + 1
    BY <1>8, <1>12
  <2>2. /\ Lev(d, m, h, a - 1) = SliceRoot(d)[Shl[h]][Off(a - 1, h)]
        /\ Lev(d, m, h + 1, a \div 2) = hashNode(Lev(d, m, h, a - 1), Lev(d, m, h, a))
    <3>1. a \in Nat /\ a % 2 = 1 /\ Off(a, h) < m
      BY <1>1, <1>7, <1>12
    <3> QED BY <3>1, LeftIsFull, ZenonT(20)
  <2>3. Off(a, h) < n
    BY <1>7
  <2>4. /\ Lev(d, n, h, a - 1) = SliceRoot(d)[Shl[h]][Off(a - 1, h)]
        /\ Lev(d, n, h + 1, a \div 2) = hashNode(Lev(d, n, h, a - 1), Lev(d, n, h, a))
    <3>1. a \in Nat /\ a % 2 = 1
      BY <1>1, <1>12
    <3> QED BY <2>3, <3>1, LeftIsFull, ZenonT(20)
  <2>5. y = Lev(d, n, h, a - 1)
    BY <1>11, <1>12 DEF Sibling
  <2>6. ASSUME Rebuilt(d, m, n, h, s) PROVE Rebuilt(d, m, n, h + 1, t)
    BY <1>3, <1>9, <1>10, <1>11, <1>12, <2>1, <2>2, <2>4, <2>5, <2>6
  <2> QED BY <2>1, <2>6 DEF t, q, a
<1>13. CASE a % 2 = 0 /\ a < b
  <2>1. Begins(q, proof) /\ Item(proof, Len(q)) = y /\ Len(r) = Len(q) + 1
    BY <1>1, <1>8, <1>13
  <2>2. Lev(d, m, h + 1, a \div 2) = Lev(d, m, h, a)
    BY <1>1, <1>13, NodeAbove
  <2>3. Off(a + 1, h) < n
    <3>1. Off(a, h) + Shl[h] <= Off(b, h) /\ Off(b, h) < n
      BY <1>1, <1>13, OffGrows DEF LastAt
    <3>2. Off(a + 1, h) = Off(a, h) + Shl[h] /\ Shl[h] \in Nat /\ Off(b, h) \in Nat
      BY <1>1, OffNext, ShlType, OffNat, Zenon
    <3> QED BY <1>7, <3>1, <3>2
  <2>4. Lev(d, n, h + 1, a \div 2) = hashNode(Lev(d, n, h, a), Lev(d, n, h, a + 1))
    BY <1>1, <1>13, <2>3, NodeAbove
  <2>5. y = Lev(d, n, h, a + 1)
    BY <1>11, <1>13 DEF Sibling
  <2>6. ASSUME Rebuilt(d, m, n, h, s) PROVE Rebuilt(d, m, n, h + 1, t)
    BY <1>3, <1>9, <1>10, <1>11, <1>13, <2>1, <2>2, <2>4, <2>5, <2>6
  <2> QED BY <2>1, <2>6 DEF t, q, a
<1>14. CASE a % 2 = 0 /\ a = b
  <2>1. r = q
    BY <1>5, <1>14
  <2>2. LastAt(n, h, a)
    BY <1>1, <1>14
  <2>3. Lev(d, m, h + 1, a \div 2) = Lev(d, m, h, a) /\ Lev(d, n, h + 1, a \div 2) = Lev(d, n, h, a)
    BY <1>1, <1>14, <2>2, NodeAbove
  <2>4. ASSUME Rebuilt(d, m, n, h, s) PROVE Rebuilt(d, m, n, h + 1, t)
    BY <1>3, <1>9, <1>10, <1>14, <2>1, <2>3, <2>4
  <2> QED BY <1>6, <2>1, <2>4 DEF t, q, a
<1>15. a % 2 = 1 \/ a % 2 = 0
  BY <1>1
<1> QED BY <1>1, <1>12, <1>13, <1>14, <1>15

LEMMA StartIs ==
    ASSUME NEW m, NEW n, NEW proof, NEW root, NEW node, NEW l, AboveOdd[m - 1][n - 1] = <<node, l>>
    PROVE  LET s == Start(m, n, proof, root)
           IN /\ s.node = node
              /\ node > 0 => s.fr = Item(proof, 0) /\ s.sr = Item(proof, 0) /\ s.p = 1
              /\ node = 0 => s.fr = root /\ s.sr = root /\ s.p = 0
BY DEF Start

(* Where the climb starts, with the log's own proof. *)
LEMMA StartRebuilds ==
    ASSUME NEW d, NEW m \in Nat, NEW n \in Nat, m < n, NEW proof \in Seq(Hashes(d)),
           NEW g \in Nat, NEW node \in Nat, NEW l \in Nat,
           AboveOdd[m - 1][n - 1] = <<node, l>>,
           LastAt(m, g, node), m = Off(node, g) + Shl[g],
           Begins(PartProof(d, m, n, g, node), proof)
    PROVE  Rebuilt(d, m, n, g, Start(m, n, proof, SliceRoot(d)[m][0]))
<1> DEFINE s == Start(m, n, proof, SliceRoot(d)[m][0])
           o == Off(node, g)
           w == Shl[g]
           q == PartProof(d, m, n, g, node)
<1>1. /\ s.node = node
      /\ node > 0 => s.fr = Item(proof, 0) /\ s.sr = Item(proof, 0) /\ s.p = 1
      /\ node = 0 => s.fr = SliceRoot(d)[m][0] /\ s.sr = SliceRoot(d)[m][0] /\ s.p = 0
  BY StartIs
<1>2. o \in Nat /\ w \in Nat /\ m = o + w /\ m - o = w
  <2>1. o \in Nat /\ w \in Nat /\ m = o + w
    BY OffNat, ShlType, Zenon
  <2> HIDE DEF o, w
  <2> QED BY <2>1
<1>3. Width(m, g, node) = w /\ Width(n, g, node) = w
  <2>1. /\ Width(m, g, node) = IF m <= o + w THEN m - o ELSE w
        /\ Width(n, g, node) = IF n <= o + w THEN n - o ELSE w
    BY DEF Width
  <2> HIDE DEF o, w
  <2> QED BY <1>2, <2>1
<1>4. Lev(d, m, g, node) = SliceRoot(d)[w][o] /\ Lev(d, n, g, node) = SliceRoot(d)[w][o]
  BY <1>3 DEF Lev
<1> DEFINE b == IF node = 0 THEN 1 ELSE 0
<1>5. q = subproof(d)[w][o][m - o][b]
  BY <1>3 DEF PartProof
<1>6. b \in {0, 1} /\ (node > 0 => b = 0) /\ (node = 0 => b = 1)
  OBVIOUS
<1> HIDE DEF s, o, w, q, b
<1>7. q = SubBase(d, w, o, b)
  <2>1. subproof(d)[w][o][w][b] = SubBase(d, w, o, b)
    BY <1>2, <1>6, SubproofWhole
  <2> QED BY <1>2, <1>5, <2>1
<1>8. CASE node = 0
  <2>1. o = 0
    BY <1>8, OffNat DEF o
  <2>2. q = <<>> /\ Len(q) = 0 /\ m = w
    <3>1. b = 1
      BY <1>6, <1>8
    <3>2. q = <<>>
      BY <1>7, <3>1, SubBaseIs, Zenon
    <3> QED BY <1>2, <2>1, <3>2
  <2> QED BY <1>1, <1>4, <1>8, <2>1, <2>2 DEF Rebuilt, q, s
<1>9. CASE node > 0
  <2>1. q = <<SliceRoot(d)[w][o]>>
    <3>1. b = 0
      BY <1>6, <1>9
    <3> QED BY <1>7, <3>1, SubBaseIs, Zenon
  <2>2. Len(q) = 1 /\ q[1] = SliceRoot(d)[w][o]
    BY <2>1
  <2>3. 1 <= Len(proof) /\ proof[1] = q[1] /\ Len(proof) \in Nat
    BY <2>2 DEF Begins, q
  <2>4. Item(proof, 0) = SliceRoot(d)[w][o]
    BY <2>2, <2>3 DEF Item
  <2> QED BY <1>1, <1>4, <1>9, <2>2, <2>4, Zenon DEF Rebuilt, q, s
<1> QED BY <1>8, <1>9

(* The proof ConsistencyProof makes, for 0 < m < n. *)
LEMMA ConsistencyCompleteBetween ==
    ASSUME NEW d, NEW m \in Nat, NEW n \in Nat, 0 < m, m < n
    PROVE  VerifyConsistency(m, n, subproof(d)[n][0][m][1], SliceRoot(d)[m][0], SliceRoot(d)[n][0])
<1> DEFINE proof == subproof(d)[n][0][m][1]
           s == Start(m, n, proof, SliceRoot(d)[m][0])
           c == Climb(proof, s)
<1>1. proof \in Seq(Hashes(d))
  BY SubproofType, Zenon
<1> HIDE DEF proof
<1>2. c[0] = s /\ \A i \in Nat : c[i + 1] = Turn(proof, c[i])
  BY ClimbUnfold
<1>3. PICK g, node, l \in Nat :
               /\ AboveOdd[m - 1][n - 1] = <<node, l>>
               /\ node % 2 = 0
               /\ LastAt(m, g, node) /\ LastAt(n, g, l)
               /\ m = Off(node, g) + Shl[g]
  <2>1. Rests(m, n, AboveOdd[m - 1][n - 1])
    BY StartRests
  <2> QED BY <2>1 DEF Rests
<1>4. s.node = node /\ s.last = l
  BY <1>3 DEF Start
<1> HIDE DEF s
<1>5. At(m, n, g, s)
  BY <1>3, <1>4 DEF At
<1>6. \A i \in Nat : At(m, n, g + i, c[i])
  BY <1>5, ClimbsAt
<1> HIDE DEF c
<1>7. \A i \in Nat : c[i + 1].node = c[i].node \div 2
  <2> TAKE i \in Nat
  <2>1. At(m, n, g + i, c[i])
    BY <1>6
  <2>2. g + i \in Nat
    OBVIOUS
  <2>3. Turn(proof, c[i]).node = c[i].node \div 2
    BY <2>1, <2>2, TurnMoves
  <2> QED BY <1>2, <2>3
<1>8. \A i \in Nat : Broken(m, g + i, c[i].node)
  <2> DEFINE T == {i \in Nat : Broken(m, g + i, c[i].node)}
  <2>1. 0 \in T
    BY <1>2, <1>3, <1>4 DEF Broken
  <2>2. ASSUME NEW i \in Nat, i \in T PROVE i + 1 \in T
    <3>1. c[i].node \in Nat /\ LastAt(m, g + i, c[i].node)
      BY <1>6 DEF At
    <3>2. Broken(m, (g + i) + 1, c[i].node \div 2)
      BY <2>2, <3>1, BrokenUp
    <3>3. (g + i) + 1 = g + (i + 1)
      OBVIOUS
    <3> QED BY <1>7, <3>2, <3>3
  <2> HIDE DEF T
  <2>3. \A i \in Nat : i \in T
    BY <2>1, <2>2, Induction
  <2> QED BY <2>3 DEF T
<1>16. /\ g + n \in Nat /\ At(m, n, g + n, c[n])
       /\ c[n].node = 0
       /\ Lev(d, m, g + n, 0) = SliceRoot(d)[m][0]
       /\ Lev(d, n, g + n, 0) = SliceRoot(d)[n][0]
  <2>1. At(m, n, g + n, c[n]) /\ g + n \in Nat /\ m <= g + n /\ n <= g + n
    BY <1>6
  <2> QED BY <2>1, EndsAtRoots, RootLevel
<1> DEFINE Q(i) == PartProof(d, m, n, g + i, c[i].node)
<1>9. Q(n) = proof
  <2>1. c[n].node = 0 /\ At(m, n, g + n, c[n])
    BY <1>16
  <2>2. Off(0, g + n) = 0 /\ Shl[g + n] \in Nat /\ Shl[g + n] > g + n
    BY <1>16, OffNat, ShlType, Zenon
  <2>3. Width(n, g + n, 0) = n
    BY <1>16, <2>2 DEF Width
  <2>4. m - 0 = m
    OBVIOUS
  <2> QED BY <2>1, <2>2, <2>3, <2>4 DEF PartProof, proof
<1>10. ASSUME NEW i \in Nat, Begins(Q(i + 1), proof)
       PROVE  /\ Begins(Q(i), proof)
              /\ Rebuilt(d, m, n, g + i, c[i]) => Rebuilt(d, m, n, g + (i + 1), c[i + 1])
  <2>1. g + i \in Nat /\ g + (i + 1) = (g + i) + 1
    OBVIOUS
  <2>2. At(m, n, g + i, c[i]) /\ Broken(m, g + i, c[i].node)
    BY <1>6, <1>8
  <2>3. Begins(PartProof(d, m, n, (g + i) + 1, c[i].node \div 2), proof)
    BY <1>7, <1>10, <2>1
  <2>4. /\ Begins(PartProof(d, m, n, g + i, c[i].node), proof)
        /\ Rebuilt(d, m, n, g + i, c[i]) => Rebuilt(d, m, n, (g + i) + 1, Turn(proof, c[i]))
    BY <1>1, <2>1, <2>2, <2>3, TurnRebuilds
  <2> QED BY <1>2, <2>1, <2>4
<1> HIDE DEF Q
<1>11. \A i \in Nat : i <= n => Begins(Q(i), proof)
  <2> DEFINE T == {k \in Nat : k <= n => Begins(Q(n - k), proof)}
  <2>1. 0 \in T
    <3>1. n - 0 = n /\ Begins(proof, proof)
      BY <1>1 DEF Begins
    <3> QED BY <1>9, <3>1
  <2>2. ASSUME NEW k \in Nat, k \in T PROVE k + 1 \in T
    <3> SUFFICES ASSUME k + 1 <= n PROVE Begins(Q(n - (k + 1)), proof)
      OBVIOUS
    <3>1. n - (k + 1) \in Nat /\ (n - (k + 1)) + 1 = n - k
      OBVIOUS
    <3>2. Begins(Q(n - k), proof)
      BY <2>2
    <3> QED BY <1>10, <3>1, <3>2
  <2> HIDE DEF T
  <2>3. \A k \in Nat : k \in T
    BY <2>1, <2>2, Induction
  <2> TAKE i \in Nat
  <2> HAVE i <= n
  <2>4. n - i \in Nat /\ n - (n - i) = i /\ n - i <= n
    OBVIOUS
  <2> QED BY <2>3, <2>4 DEF T
<1>12. Rebuilt(d, m, n, g, s)
  <2>1. Q(0) = PartProof(d, m, n, g, node)
    BY <1>2, <1>4 DEF Q
  <2>2. Begins(PartProof(d, m, n, g, node), proof)
    BY <1>11, <2>1
  <2> QED BY <1>1, <1>3, <2>2, StartRebuilds, Zenon DEF s
<1>13. \A i \in Nat : i <= n => Rebuilt(d, m, n, g + i, c[i])
  <2> DEFINE T == {i \in Nat : i <= n => Rebuilt(d, m, n, g + i, c[i])}
  <2>1. 0 \in T
    BY <1>2, <1>12
  <2>2. ASSUME NEW i \in Nat, i \in T PROVE i + 1 \in T
    BY <1>10, <1>11, <2>2
  <2> HIDE DEF T
  <2>3. \A i \in Nat : i \in T
    BY <2>1, <2>2, Induction
  <2> QED BY <2>3 DEF T
<1>14. c[n].fr = SliceRoot(d)[m][0] /\ c[n].sr = SliceRoot(d)[n][0] /\ c[n].p = Len(proof)
  <2>1. Rebuilt(d, m, n, g + n, c[n]) /\ At(m, n, g + n, c[n])
    BY <1>6, <1>13
  <2>2. /\ c[n].node = 0
        /\ Lev(d, m, g + n, 0) = SliceRoot(d)[m][0]
        /\ Lev(d, n, g + n, 0) = SliceRoot(d)[n][0]
    BY <1>16
  <2>3. c[n].p = Len(Q(n))
    BY <2>1 DEF Rebuilt, Q
  <2> QED BY <1>9, <2>1, <2>2, <2>3 DEF Rebuilt
<1>15. VerifyConsistency(m, n, proof, SliceRoot(d)[m][0], SliceRoot(d)[n][0])
  BY <1>14 DEF VerifyConsistency, c, s
<1> QED BY <1>15 DEF proof

(* What ConsistencyProof returns convinces VerifyConsistency of every earlier *)
(* size of the log, whatever list the old root was made from as long as it    *)
(* holds the log's first leaves.                                              *)
THEOREM ConsistencyIsComplete ==
    ASSUME NEW S, NEW d \in Seq(S), NEW m \in 0 .. Len(d), NEW old, Agree(old, d, 0, m)
    PROVE  VerifyConsistency(m, Len(d), ConsistencyProof(d, m), SliceRoot(old)[m][0], Root(d))
<1> DEFINE n == Len(d)
<1>1. n \in Nat /\ m \in Nat /\ m <= n
  OBVIOUS
<1>2. SliceRoot(old)[m][0] = SliceRoot(d)[m][0]
  BY <1>1, RootDetermines
<1>3. Root(d) = SliceRoot(d)[n][0]
  BY DEF Root
<1>4. ConsistencyProof(d, m) = IF m \in {0, n} THEN <<>> ELSE subproof(d)[n][0][m][1]
  BY DEF ConsistencyProof
<1> HIDE DEF n
<1>5. CASE m = n
  <2>1. ConsistencyProof(d, m) = <<>>
    BY <1>4, <1>5
  <2> QED BY <1>2, <1>3, <1>5, <2>1 DEF VerifyConsistency, n
<1>6. CASE m = 0 /\ m # n
  <2>1. ConsistencyProof(d, m) = <<>>
    BY <1>4, <1>6
  <2> QED BY <1>6, <2>1 DEF VerifyConsistency, n
<1>7. CASE m # 0 /\ m # n
  <2>1. ConsistencyProof(d, m) = subproof(d)[n][0][m][1] /\ 0 < m /\ m < n
    BY <1>1, <1>4, <1>7
  <2>2. VerifyConsistency(m, n, subproof(d)[n][0][m][1], SliceRoot(d)[m][0], SliceRoot(d)[n][0])
    BY <1>1, <2>1, ConsistencyCompleteBetween
  <2> QED BY <1>2, <1>3, <2>1, <2>2 DEF n
<1> QED BY <1>5, <1>6, <1>7

-----------------------------------------------------------------------------
(* Inclusion. *)

LEMMA PathType ==
    ASSUME NEW d
    PROVE  \A n, lo, m \in Nat : inclusionPath(d)[n][lo][m] \in Seq(Hashes(d))
<1> DEFINE T == {n \in Nat : \A lo, m \in Nat : inclusionPath(d)[n][lo][m] \in Seq(Hashes(d))}
<1>1. ASSUME NEW n \in Nat, \A k \in 0 .. n - 1 : k \in T PROVE n \in T
  <2> SUFFICES ASSUME NEW lo \in Nat, NEW m \in Nat
               PROVE  inclusionPath(d)[n][lo][m] \in Seq(Hashes(d))
    OBVIOUS
  <2>1. CASE n <= 1
    <3>1. inclusionPath(d)[n][lo][m] = <<>>
      BY <2>1, PathUnfold
    <3> QED BY <3>1
  <2>2. CASE n > 1
    <3> DEFINE k == lp2(n)
    <3>1. /\ k \in Nat /\ k > 0 /\ k < n
          /\ n - k \in Nat /\ n - k > 0 /\ n - k < n
      BY <2>2, Split
    <3>2. inclusionPath(d)[n][lo][m] = PathSplit(d, n, lo, m)
      BY <2>2, PathUnfold
    <3>3. inclusionPath(d)[n][lo][m] =
              IF m < k
              THEN Append(inclusionPath(d)[k][lo][m], SliceRoot(d)[n - k][lo + k])
              ELSE Append(inclusionPath(d)[n - k][lo + k][m - k], SliceRoot(d)[k][lo])
      BY <3>2 DEF PathSplit
    <3> HIDE DEF k
    <3>4. SliceRoot(d)[n - k][lo + k] \in Hashes(d) /\ SliceRoot(d)[k][lo] \in Hashes(d)
      BY <3>1, HashesHas
    <3>5. inclusionPath(d)[k][lo][m] \in Seq(Hashes(d))
      <4>1. k \in T
        BY <1>1, <3>1
      <4> QED BY <4>1, Zenon
    <3>6. ASSUME ~(m < k) PROVE inclusionPath(d)[n - k][lo + k][m - k] \in Seq(Hashes(d))
      <4>1. n - k \in 0 .. n - 1 /\ lo + k \in Nat /\ m - k \in Nat
        BY <3>1, <3>6
      <4>2. n - k \in T
        BY <1>1, <4>1
      <4> QED BY <4>1, <4>2
    <3> QED BY <3>3, <3>4, <3>5, <3>6
  <2> QED BY <2>1, <2>2
<1> HIDE DEF T
<1>2. \A n \in Nat : n \in T
  BY <1>1, StrongInduction
<1> QED BY <1>2 DEF T

(* The root a leaf x and a path give for position m of a slice: the slice's *)
(* root exactly when x is the leaf there.                                   *)
Fits(d, proof, x, n, lo, m) ==
    Begins(inclusionPath(d)[n][lo][m], proof) =>
        LET got == rootFromInclusion(hashLeaf(x), proof)[n][m][Len(inclusionPath(d)[n][lo][m])]
        IN  got # Invalid /\ (got = SliceRoot(d)[n][lo] <=> x = d[lo + m + 1])

LEMMA PathFits ==
    ASSUME NEW d, NEW proof \in Seq(Hashes(d)), NEW x
    PROVE  \A n, lo, m \in Nat : m < n => Fits(d, proof, x, n, lo, m)
<1> DEFINE T == {n \in Nat : \A lo, m \in Nat : m < n => Fits(d, proof, x, n, lo, m)}
           from == rootFromInclusion(hashLeaf(x), proof)
<1>1. ASSUME NEW n \in Nat, \A k \in 0 .. n - 1 : k \in T PROVE n \in T
  <2> SUFFICES ASSUME NEW lo \in Nat, NEW m \in Nat, m < n PROVE Fits(d, proof, x, n, lo, m)
    OBVIOUS
  <2> DEFINE path == inclusionPath(d)[n][lo][m]
  <2> SUFFICES ASSUME Begins(path, proof)
               PROVE  /\ from[n][m][Len(path)] # Invalid
                      /\ from[n][m][Len(path)] = SliceRoot(d)[n][lo] <=> x = d[lo + m + 1]
    BY DEF Fits
  <2>1. CASE n = 1
    <3>1. path = <<>> /\ Len(path) = 0 /\ m = 0
      BY <2>1, PathUnfold
    <3>2. from[1][0][0] = hashLeaf(x)
      BY FromUnfold
    <3>3. SliceRoot(d)[n][lo] = hashLeaf(d[lo + 1])
      BY <2>1, RootCases, Zenon
    <3>4. lo + m + 1 = lo + 1
      BY <3>1
    <3> QED BY <2>1, <3>1, <3>2, <3>3, <3>4, HashesDiffer
  <2>2. CASE n > 1
    <3> DEFINE k == lp2(n)
    <3>1. /\ k \in Nat /\ k > 0 /\ k < n
          /\ n - k \in Nat /\ n - k > 0 /\ n - k < n
      BY <2>2, Split
    <3>2. path = PathSplit(d, n, lo, m)
      BY <2>2, PathUnfold
    <3>3. SliceRoot(d)[n][lo] = hashNode(SliceRoot(d)[k][lo], SliceRoot(d)[n - k][lo + k])
      BY <2>2, RootCases, Zenon
    <3>4. ASSUME NEW len \in Nat, len > 0
          PROVE  from[n][m][len] = FromSplit(hashLeaf(x), proof, n, m, len)
      <4>1. ~(m >= n) /\ n # 1 /\ len # 0
        BY <2>2, <3>4
      <4> QED BY <4>1, FromUnfold
    <3>5. CASE m < k
      <4> DEFINE q == inclusionPath(d)[k][lo][m]
                 y == SliceRoot(d)[n - k][lo + k]
                 below == from[k][m][Len(q)]
      <4>1. path = Append(q, y)
        BY <3>2, <3>5, Zenon DEF PathSplit
      <4>2. q \in Seq(Hashes(d)) /\ y \in Hashes(d)
        BY <3>1, PathType, HashesHas
      <4>3. Fits(d, proof, x, k, lo, m)
        BY <1>1, <3>1, <3>5
      <4>4. Begins(q, proof) => below # Invalid /\ (below = SliceRoot(d)[k][lo] <=> x = d[lo + m + 1])
        BY <4>3 DEF Fits
      <4>5. \A len \in Nat : len > 0 => FromSplit(hashLeaf(x), proof, n, m, len) =
                IF from[k][m][len - 1] = Invalid THEN Invalid
                ELSE hashNode(from[k][m][len - 1], proof[len])
        BY <3>5 DEF FromSplit
      <4> HIDE DEF path, q, y, below, from, k
      <4>6. /\ Begins(q, proof) /\ Len(path) = Len(q) + 1 /\ proof[Len(q) + 1] = y
            /\ Len(q) \in Nat
        BY <4>1, <4>2, BeginsAppend
      <4>7. from[n][m][Len(q) + 1] = hashNode(below, y)
        <5>1. Len(q) + 1 \in Nat /\ Len(q) + 1 > 0 /\ (Len(q) + 1) - 1 = Len(q)
          BY <4>6
        <5> QED BY <3>4, <4>4, <4>5, <4>6, <5>1 DEF below
      <4> QED BY <3>3, <4>4, <4>6, <4>7, HashesDiffer DEF y
    <3>6. CASE ~(m < k)
      <4> DEFINE q == inclusionPath(d)[n - k][lo + k][m - k]
                 y == SliceRoot(d)[k][lo]
                 below == from[n - k][m - k][Len(q)]
      <4>1. path = Append(q, y)
        BY <3>2, <3>6, Zenon DEF PathSplit
      <4>2. m - k \in Nat /\ lo + k \in Nat /\ m - k < n - k /\ n - k \in 0 .. n - 1
            /\ (lo + k) + (m - k) + 1 = lo + m + 1
        <5> HIDE DEF k
        <5> QED BY <3>1, <3>6
      <4>3. q \in Seq(Hashes(d)) /\ y \in Hashes(d)
        BY <3>1, <4>2, PathType, HashesHas, Zenon
      <4>4. Fits(d, proof, x, n - k, lo + k, m - k)
        BY <1>1, <4>2
      <4>5. Begins(q, proof) =>
                /\ below # Invalid
                /\ below = SliceRoot(d)[n - k][lo + k] <=> x = d[(lo + k) + (m - k) + 1]
        BY <4>4, Zenon DEF Fits
      <4>6. \A len \in Nat : len > 0 => FromSplit(hashLeaf(x), proof, n, m, len) =
                IF from[n - k][m - k][len - 1] = Invalid THEN Invalid
                ELSE hashNode(proof[len], from[n - k][m - k][len - 1])
        BY <3>6 DEF FromSplit
      <4> HIDE DEF path, q, y, below, from, k
      <4>7. /\ Begins(q, proof) /\ Len(path) = Len(q) + 1 /\ proof[Len(q) + 1] = y
            /\ Len(q) \in Nat
        BY <4>1, <4>3, BeginsAppend
      <4>8. from[n][m][Len(q) + 1] = hashNode(y, below)
        <5>1. Len(q) + 1 \in Nat /\ Len(q) + 1 > 0 /\ (Len(q) + 1) - 1 = Len(q)
          BY <4>7
        <5> QED BY <3>4, <4>5, <4>6, <4>7, <5>1 DEF below
      <4>9. d[(lo + k) + (m - k) + 1] = d[lo + m + 1]
        BY <4>2
      <4> QED BY <3>3, <4>5, <4>7, <4>8, <4>9, HashesDiffer DEF y
    <3> QED BY <3>5, <3>6
  <2> HIDE DEF T, path, from
  <2>3. n = 1 \/ n > 1
    OBVIOUS
  <2> QED BY <2>1, <2>2, <2>3
<1> HIDE DEF T
<1>2. \A n \in Nat : n \in T
  BY <1>1, StrongInduction
<1> QED BY <1>2 DEF T

(* What InclusionProof returns convinces VerifyInclusion of the leaf at its *)
(* index, and of no other.                                                  *)
THEOREM InclusionIsExact ==
    ASSUME NEW S, NEW d \in Seq(S), NEW m \in 0 .. Len(d) - 1, NEW x
    PROVE  VerifyInclusion(x, m, Len(d), InclusionProof(d, m), Root(d)) <=> x = d[m + 1]
<1> DEFINE n == Len(d)
           path == inclusionPath(d)[n][0][m]
           got == rootFromInclusion(hashLeaf(x), path)[n][m][Len(path)]
<1>1. n \in Nat /\ m \in Nat /\ m < n /\ 0 + m + 1 = m + 1
  OBVIOUS
<1>2. path \in Seq(Hashes(d))
  BY <1>1, PathType
<1>3. Begins(path, path)
  BY <1>2 DEF Begins
<1>4. Fits(d, path, x, n, 0, m)
  BY <1>1, <1>2, PathFits
<1>5. got # Invalid /\ (got = SliceRoot(d)[n][0] <=> x = d[0 + m + 1])
  BY <1>3, <1>4 DEF Fits
<1>6. VerifyInclusion(x, m, n, path, SliceRoot(d)[n][0]) <=>
          got # Invalid /\ got = SliceRoot(d)[n][0]
  BY DEF VerifyInclusion
<1> HIDE DEF got
<1> QED BY <1>1, <1>5, <1>6 DEF InclusionProof, Root
=============================================================================
