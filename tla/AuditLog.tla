------------------------------ MODULE AuditLog ------------------------------
(***************************************************************************)
(* audit.TransparencyLog and audit.Witness.  Goroutines append entries to  *)
(* the hash chain and to the Merkle leaves under one lock; relays carry    *)
(* signed checkpoints and consistency proofs, each taken from a snapshot   *)
(* of its own, to a witness that co-signs what extends the last checkpoint *)
(* it co-signed.  The log is in memory: an operator that restarts begins   *)
(* an empty one under the same key.                                        *)
(***************************************************************************)
EXTENDS Merkle

CONSTANTS
    Appender,      \* goroutines calling Append
    Relay,         \* whoever carries checkpoints to the witness
    MaxAppends,    \* bound: entries appended, in all
    MaxRestarts    \* bound: restarts of the operator

VARIABLES
    pc,         \* pc[a]: "idle", or "stream" between Append's unlock and its return
    made,       \* entries made so far; the next one's content
    restarts,
    entries,    \* the hash chain
    leaves,     \* leaf data, the chain hashes
    cp,         \* cp[r]: the checkpoint r carries
    given,      \* given[r]: the consistency proof r carries with it
    lastSize,   \* of the checkpoint the witness co-signed last
    lastRoot,
    cosigned    \* history: the leaves under that checkpoint

log == <<entries, leaves>>
carried == <<cp, given>>
witness == <<lastSize, lastRoot, cosigned>>
logVars == <<pc, made, restarts, log, carried, witness>>

(* A content hash stands for the entries it covers. *)
contentHash(prev, e) == Append(prev, e)
NoHash == <<>>
LastHash == IF entries = <<>> THEN NoHash ELSE entries[Len(entries)].hash
Stored(e) == [entry |-> e, prev |-> LastHash, hash |-> contentHash(LastHash, e)]

NoCheckpoint == [size |-> 0, root |-> <<"none">>, of |-> <<>>]
CheckpointOf(d) == [size |-> Len(d), root |-> Root(d), of |-> d]

LogInit ==
    /\ pc = [a \in Appender |-> "idle"]
    /\ made = 0 /\ restarts = 0
    /\ entries = <<>> /\ leaves = <<>>
    /\ cp = [r \in Relay |-> NoCheckpoint]
    /\ given = [r \in Relay |-> <<>>]
    /\ lastSize = 0 /\ lastRoot = <<>>
    /\ cosigned = <<>>

-----------------------------------------------------------------------------
(* The operator's log. *)

(* Mutant: the leaf is appended under a lock of its own, after the chain's, so *)
(* a goroutine that was first at the chain may come second at the leaves.      *)
CommitApart(a) ==
    /\ pc[a] = "idle"
    /\ made < MaxAppends
    /\ made' = made + 1
    /\ entries' = Append(entries, Stored(made'))
    /\ \/ leaves' = Append(leaves, Stored(made').hash)
       \/ /\ leaves # <<>> /\ \E b \in Appender : pc[b] = "stream"
          /\ leaves' = SubSeq(leaves, 1, Len(leaves) - 1) \o <<Stored(made').hash, leaves[Len(leaves)]>>
    /\ pc' = [pc EXCEPT ![a] = "stream"]
    /\ UNCHANGED <<restarts, carried, witness>>

(* Append's critical section: chain and leaf together. *)
Commit(a) ==
    /\ pc[a] = "idle"
    /\ made < MaxAppends
    /\ made' = made + 1
    /\ entries' = Append(entries, Stored(made'))
    /\ leaves' = Append(leaves, Stored(made').hash)
    /\ pc' = [pc EXCEPT ![a] = "stream"]
    /\ UNCHANGED <<restarts, carried, witness>>

(* The sink is written outside the lock.  Its error is returned to the hook, *)
(* which logs it: the entry stays in the log either way.                     *)
Stream(a) ==
    /\ pc[a] = "stream"
    /\ pc' = [pc EXCEPT ![a] = "idle"]
    /\ UNCHANGED <<made, restarts, log, carried, witness>>

Restart ==
    /\ restarts < MaxRestarts
    /\ restarts' = restarts + 1
    /\ entries' = <<>> /\ leaves' = <<>>
    /\ pc' = [a \in Appender |-> "idle"]
    /\ UNCHANGED <<made, carried, witness>>

-----------------------------------------------------------------------------
(* Carrying checkpoints to the witness. *)

(* A relay fetches a checkpoint, then the proof for the witness's last size. *)
Checkpoint(r) ==
    /\ cp[r] = NoCheckpoint
    /\ cp' = [cp EXCEPT ![r] = CheckpointOf(leaves)]
    /\ UNCHANGED <<pc, made, restarts, log, given, witness>>

(* The proof runs to the log's size now, whichever checkpoint r carries. *)
GiveProof(r) ==
    /\ cp[r] # NoCheckpoint
    /\ lastSize <= Len(leaves)
    /\ given' = [given EXCEPT ![r] = ConsistencyProof(leaves, lastSize)]
    /\ UNCHANGED <<pc, made, restarts, log, cp, witness>>

Extends(c, p) ==
    lastSize > 0 =>
        /\ c.size >= lastSize
        /\ VerifyConsistency(lastSize, c.size, p, lastRoot, c.root)

(* Witness: co-signed, or refused with the witness's state left alone; the *)
(* relay is done with what it carried either way.                          *)
Witness(r) ==
    /\ cp[r] # NoCheckpoint
    /\ IF Extends(cp[r], given[r])
       THEN /\ lastSize' = cp[r].size /\ lastRoot' = cp[r].root
            /\ cosigned' = cp[r].of
       ELSE UNCHANGED witness
    /\ cp' = [cp EXCEPT ![r] = NoCheckpoint]
    /\ given' = [given EXCEPT ![r] = <<>>]
    /\ UNCHANGED <<pc, made, restarts, log>>

LogNext ==
    \/ \E a \in Appender : Commit(a) \/ Stream(a)
    \/ Restart
    \/ \E r \in Relay : Checkpoint(r) \/ GiveProof(r) \/ Witness(r)

LogSpec == LogInit /\ [][LogNext]_logVars

-----------------------------------------------------------------------------
(* Properties. *)

(* The chain verifies, "leaf i is always the hash of entry i", and the proofs *)
(* the log hands out are right: an inclusion proof convinces of the entry at  *)
(* its index and of no other, a consistency proof of every earlier size of    *)
(* the log, whatever appends ran concurrently.                                *)
LogIsProvable ==
    LET n == Len(leaves)
        root == Root(leaves)
    IN /\ \A i \in DOMAIN entries :
              /\ entries[i].prev = IF i = 1 THEN NoHash ELSE entries[i - 1].hash
              /\ entries[i].hash = contentHash(entries[i].prev, entries[i].entry)
       /\ \A j \in 1 .. n :
              LET path == InclusionProof(leaves, j - 1)
              IN \A i \in 1 .. n : VerifyInclusion(entries[i].hash, j - 1, n, path, root) <=> i = j
       /\ \A m \in 0 .. n :
              LET old == [i \in 1 .. m |-> entries[i].hash]
              IN VerifyConsistency(m, n, ConsistencyProof(leaves, m), Root(old), root)

(* t begins with s. *)
IsPrefix(s, t) == Len(s) <= Len(t) /\ SubSeq(t, 1, Len(s)) = s

(* The witness's co-signatures form one append-only history: each checkpoint  *)
(* it co-signs is of a log that extends the last one's, although the operator *)
(* restarts with an empty log, checkpoints arrive late, and a proof is of     *)
(* another log state than the checkpoint it travels with.                     *)
CosignedIsAppendOnly == [][IsPrefix(cosigned, cosigned')]_logVars
=============================================================================
