------------------------------- MODULE Merkle -------------------------------
(***************************************************************************)
(* The Merkle tree of the audit log: roots, inclusion proofs, consistency  *)
(* proofs, and their verification.  A hash is the term it was computed     *)
(* from, so two hashes are equal exactly when their inputs are.            *)
(*                                                                         *)
(* A slice of the leaves d is where it starts and how long it is: [n][lo]  *)
(* is d[lo : lo+n].  The recursive algorithms are functions of n, which    *)
(* every call makes smaller.                                               *)
(***************************************************************************)
EXTENDS Integers, Sequences

hashLeaf(d) == <<"leaf", d>>
hashNode(l, r) == <<"node", l, r>>

(* lp2's k after i turns of its loop. *)
Shl[i \in Nat] == IF i = 0 THEN 1 ELSE 2 * Shl[i - 1]

(* The largest power of two below n. *)
lp2(n) == Shl[CHOOSE i \in 0 .. n : Shl[i] < n /\ n <= Shl[i + 1]]

(* Root, of every slice of d. *)
SliceRoot(d) ==
    LET root[n \in Nat] ==
            [lo \in Nat |->
                IF n = 0 THEN <<"empty">>
                ELSE IF n = 1 THEN hashLeaf(d[lo + 1])
                ELSE hashNode(root[lp2(n)][lo], root[n - lp2(n)][lo + lp2(n)])]
    IN root

Root(d) == SliceRoot(d)[Len(d)][0]

-----------------------------------------------------------------------------
(* Inclusion; m counts from 0. *)

inclusionPath(d) ==
    LET path[n \in Nat] ==
            [lo \in Nat |-> [m \in Nat |->
                IF n <= 1 THEN <<>>
                ELSE IF m < lp2(n)
                THEN Append(path[lp2(n)][lo][m], SliceRoot(d)[n - lp2(n)][lo + lp2(n)])
                ELSE Append(path[n - lp2(n)][lo + lp2(n)][m - lp2(n)], SliceRoot(d)[lp2(n)][lo])]]
    IN path

InclusionProof(d, index) == inclusionPath(d)[Len(d)][0][index]

Invalid == <<"invalid">>

(* [size][index][len]: with the first len hashes of the proof. *)
rootFromInclusion(leafHash, proof) ==
    LET from[size \in Nat] ==
            [index \in Nat |-> [len \in Nat |->
                IF index >= size \/ (size = 1) # (len = 0) THEN Invalid
                ELSE IF size = 1 THEN leafHash
                ELSE LET left == index < lp2(size)
                         below == IF left THEN from[lp2(size)][index][len - 1]
                                  ELSE from[size - lp2(size)][index - lp2(size)][len - 1]
                     IN IF below = Invalid THEN Invalid
                        ELSE IF left THEN hashNode(below, proof[len])
                        ELSE hashNode(proof[len], below)]]
    IN from

VerifyInclusion(leaf, index, size, proof, root) ==
    LET got == rootFromInclusion(hashLeaf(leaf), proof)[size][index][Len(proof)]
    IN got # Invalid /\ got = root

-----------------------------------------------------------------------------
(* Consistency: the first oldSize leaves are a prefix of the list; 0 < m <= n. *)

(* b is 1 while the old root covers the whole slice on the left edge: it is *)
(* then left out of the proof.                                              *)
subproof(d) ==
    LET proof[n \in Nat] ==
            [lo \in Nat |-> [m \in Nat |-> [b \in {0, 1} |->
                IF m = n \/ n <= 1 THEN IF b = 1 THEN <<>> ELSE <<SliceRoot(d)[n][lo]>>
                ELSE IF m <= lp2(n)
                THEN Append(proof[lp2(n)][lo][m][b], SliceRoot(d)[n - lp2(n)][lo + lp2(n)])
                ELSE Append(proof[n - lp2(n)][lo + lp2(n)][m - lp2(n)][0],
                            SliceRoot(d)[lp2(n)][lo])]]]
    IN proof

ConsistencyProof(d, oldSize) ==
    IF oldSize \in {0, Len(d)} THEN <<>> ELSE subproof(d)[Len(d)][0][oldSize][1]

(* The first loop of VerifyConsistency: node and last are positions at one *)
(* level of the two trees.                                                 *)
AboveOdd[node \in Nat] ==
    [last \in Nat |->
        IF node % 2 = 1 THEN AboveOdd[node \div 2][last \div 2] ELSE <<node, last>>]

(* The next hash of the proof.  Past its end the code returns false; here p *)
(* goes past the end and the last test of VerifyConsistency fails.          *)
Item(proof, p) == IF p < Len(proof) THEN proof[p + 1] ELSE Invalid

(* One turn of the other two: p hashes of the proof are read, fr and sr grow *)
(* into the roots.                                                           *)
Turn(proof, s) ==
    LET x == Item(proof, s.p)
        right == s.node = 0 \/ (s.node % 2 = 0 /\ s.node < s.last)
        left == s.node % 2 = 1
    IN IF s.last = 0 THEN s
       ELSE [node |-> s.node \div 2,
             last |-> s.last \div 2,
             fr |-> IF left THEN hashNode(x, s.fr) ELSE s.fr,
             sr |-> IF left THEN hashNode(x, s.sr) ELSE IF right THEN hashNode(s.sr, x) ELSE s.sr,
             p |-> IF left \/ right THEN s.p + 1 ELSE s.p]

(* Climb(proof, s)[i]: the loops' variables after i turns from s. *)
Climb(proof, s) == LET turns[i \in Nat] == IF i = 0 THEN s ELSE Turn(proof, turns[i - 1]) IN turns

(* Where the climb starts. *)
Start(oldSize, newSize, proof, oldRoot) ==
    LET above == AboveOdd[oldSize - 1][newSize - 1]
        seed == IF above[1] > 0 THEN Item(proof, 0) ELSE oldRoot
    IN [node |-> above[1], last |-> above[2], fr |-> seed, sr |-> seed,
        p |-> IF above[1] > 0 THEN 1 ELSE 0]

(* Mutant: the root the proof gives the old tree is not compared. *)
VerifyConsistencyHalf(oldSize, newSize, proof, oldRoot, newRoot) ==
    LET end == Climb(proof, Start(oldSize, newSize, proof, oldRoot))[newSize]
    IN IF oldSize = newSize THEN proof = <<>> /\ oldRoot = newRoot
       ELSE IF oldSize = 0 \/ oldSize > newSize THEN oldSize = 0 /\ proof = <<>>
       ELSE end.sr = newRoot /\ end.p = Len(proof)

(* There is a turn for every bit of newSize - 1, so newSize turns are enough. *)
VerifyConsistency(oldSize, newSize, proof, oldRoot, newRoot) ==
    LET end == Climb(proof, Start(oldSize, newSize, proof, oldRoot))[newSize]
    IN IF oldSize = newSize THEN proof = <<>> /\ oldRoot = newRoot
       ELSE IF oldSize = 0 \/ oldSize > newSize THEN oldSize = 0 /\ proof = <<>>
       ELSE end.fr = oldRoot /\ end.sr = newRoot /\ end.p = Len(proof)
=============================================================================
