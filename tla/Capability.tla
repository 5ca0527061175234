----------------------------- MODULE Capability -----------------------------
(***************************************************************************)
(* delegation/capability.go: the offline delegation mode.  A capability is *)
(* a list of blocks.  Each is signed with the secret that came with the    *)
(* block before it - the root key signs the first - over its place and the *)
(* signature before; the seal is made with the last secret.  Tokens travel *)
(* in the open, secrets do not.                                            *)
(*                                                                         *)
(* A block, and the fresh key pair it introduces, are named by the block's *)
(* signature.  The model follows one presenter, any; everybody else holds  *)
(* every secret.                                                           *)
(***************************************************************************)
EXTENDS Delegation, Sequences

CONSTANTS
    Stamp,      \* signatures of blocks
    NoStamp,    \* what a first block is chained to
    RootKey,
    TrustRoot   \* the root key the stage verifies against

ASSUME CapabilityAssumption ==
    /\ NoStamp \notin Stamp
    /\ TrustRoot \in RootKey
    /\ RootKey \cap Stamp = {}
    /\ Grant \subseteq Grants
    /\ MaxDepth \in Nat /\ MaxClock \in Nat
    /\ RequireChain \in BOOLEAN

VARIABLES
    block,     \* block[s]: what s was signed over, and the key that signed it
    path,      \* path[s]: the blocks of the capability returned with s (history)
    known,     \* the capabilities the presenter has seen, by their last signature
    held,      \* those it also has the secret of
    phase,     \* where its request stands
    shown,     \* the blocks it presents
    checked,   \* how many of them Verify has been through
    readAt,    \* Verify's now
    target,    \* the server asked for
    capScope   \* the scope the stage grants

making == <<block, path, known, held>>
asking == <<phase, shown, checked, readAt, target, capScope>>
capabilityVars == <<making, asking>>

Block == [key : RootKey \cup Stamp, root : RootKey, index : Nat,
          prev : Stamp \cup {NoStamp}, grant : Grants]

CapabilityTypeOK ==
    /\ clock \in Nat
    /\ DOMAIN block \subseteq Stamp
    /\ block \in [DOMAIN block -> Block]
    /\ path \in [DOMAIN block -> Seq(Stamp)]
    /\ known \subseteq DOMAIN block /\ held \subseteq known
    /\ phase \in {"idle", "blocks", "holder", "scoped"}
    /\ shown \in Seq(Stamp)
    /\ checked \in 0 .. Len(shown)
    /\ readAt \in Nat
    /\ target \subseteq Server
    /\ capScope \in Scope

CapabilityInit ==
    /\ block = <<>> /\ path = <<>> /\ known = {} /\ held = {}
    /\ phase = "idle" /\ shown = <<>> /\ checked = 0 /\ readAt = 0
    /\ target = {} /\ capScope = Unscoped

-----------------------------------------------------------------------------
(* Making capabilities.  The maker has the new secret; mine says that the     *)
(* maker is the presenter.                                                    *)

Made(s, b, c, mine) ==
    /\ s \in Stamp \ DOMAIN block
    /\ block' = [t \in DOMAIN block \cup {s} |-> IF t = s THEN b ELSE block[t]]
    /\ path' = [t \in DOMAIN block \cup {s} |-> IF t = s THEN Append(c, s) ELSE path[t]]
    /\ known' = IF mine THEN known \cup {s} ELSE known
    /\ held' = IF mine THEN held \cup {s} ELSE held
    /\ UNCHANGED <<clock, asking>>

(* The root keys are others'. *)
NewCapability(s, r, g) ==
    Made(s, [key |-> r, root |-> r, index |-> 0, prev |-> NoStamp, grant |-> g], <<>>, FALSE)

Appended(s, t, r, g, mine) ==
    /\ mine => t \in held
    /\ Made(s, [key |-> t, root |-> r, index |-> Len(path[t]), prev |-> t, grant |-> g],
            path[t], mine)

(* r is the caller's idea of the root; a wrong one is noticed at Verify. *)
Attenuate(s, t, r, g, mine) ==
    /\ Len(path[t]) + 1 <= MaxDepth
    /\ attenuates(block[t].grant, g)
    /\ Appended(s, t, r, g, mine)

(* A block signed by other software, with neither check. *)
SignBlock(s, t, r, g, mine) == Appended(s, t, r, g, mine)

(* A capability comes before the presenter's eyes, or is handed to it. *)
Observe(s) ==
    /\ s \notin known
    /\ known' = known \cup {s}
    /\ UNCHANGED <<clock, block, path, held, asking>>

Receive(s) ==
    /\ s \notin held
    /\ known' = known \cup {s} /\ held' = held \cup {s}
    /\ UNCHANGED <<clock, block, path, asking>>

CapabilityTick ==
    /\ clock < MaxClock
    /\ clock' = clock + 1
    /\ UNCHANGED capabilityVars

-----------------------------------------------------------------------------
(* CapabilityStage. *)

Settled ==
    /\ phase' = "idle" /\ shown' = <<>> /\ checked' = 0 /\ readAt' = 0
    /\ target' = {} /\ capScope' = Unscoped
    /\ UNCHANGED <<clock, making>>

BlocksKnown == UNION {{path[s][i] : i \in DOMAIN path[s]} : s \in known}
Shown == UNION {[1 .. n -> BlocksKnown] : n \in 1 .. MaxDepth}

(* The presenter may put together the blocks it knows in any way. *)
PresentCapability(c) ==
    /\ phase = "idle"
    /\ phase' = "blocks" /\ shown' = c /\ readAt' = clock
    /\ UNCHANGED <<clock, making, checked, target, capScope>>

ActDirectly(v) ==
    /\ phase = "idle"
    /\ ~RequireChain
    /\ phase' = "scoped" /\ target' = {v}
    /\ UNCHANGED <<clock, making, shown, checked, readAt, capScope>>

(* The block at index n of what is shown carries a signature made over this *)
(* place by the key the block before it names.                              *)
ValidBlock(b, n) ==
    /\ b.key = IF n = 0 THEN TrustRoot ELSE shown[n]
    /\ b.root = TrustRoot
    /\ b.index = n
    /\ b.prev = IF n = 0 THEN NoStamp ELSE shown[n]

(* Mutant: the narrowing is left to Attenuate. *)
BlockOKUnnarrowed(b, n) == ValidBlock(b, n) /\ ~Expired(b.grant, readAt)

BlockOK(b, n) ==
    /\ ValidBlock(b, n)
    /\ n > 0 => attenuates(block[shown[n]].grant, b.grant)
    /\ ~Expired(b.grant, readAt)

VerifyBlock ==
    /\ phase = "blocks" /\ checked < Len(shown)
    /\ IF BlockOK(block[shown[checked + 1]], checked)
       THEN checked' = checked + 1
            /\ UNCHANGED <<clock, making, phase, shown, readAt, target, capScope>>
       ELSE Settled

Final == shown[Len(shown)]

(* The seals within the presenter's reach: those that came with what it knows. *)
Seals == {[key |-> s, root |-> block[s].root, blocks |-> Len(path[s]), last |-> s] : s \in known}

(* Mutant: the seal is not looked at. *)
CheckSealSkipped ==
    /\ phase = "blocks" /\ checked = Len(shown)
    /\ phase' = "holder"
    /\ UNCHANGED <<clock, making, shown, checked, readAt, target, capScope>>

CheckSeal ==
    /\ phase = "blocks" /\ checked = Len(shown)
    /\ [key |-> Final, root |-> TrustRoot, blocks |-> Len(shown), last |-> Final] \in Seals
    /\ phase' = "holder"
    /\ UNCHANGED <<clock, making, shown, checked, readAt, target, capScope>>

(* It cannot be provided. *)
SealMissing ==
    /\ phase = "blocks" /\ checked = Len(shown)
    /\ [key |-> Final, root |-> TrustRoot, blocks |-> Len(shown), last |-> Final] \notin Seals
    /\ Settled

(* VerifyHolder, checkServer, and the narrowing of the request. *)
HolderStage(v) ==
    /\ phase = "holder"
    /\ Final \in held
    /\ granted(block[Final].grant.servers, v)
    /\ phase' = "scoped" /\ target' = {v}
    /\ capScope' = [tools |-> block[Final].grant.tools, budget |-> block[Final].grant.budget]
    /\ UNCHANGED <<clock, making, shown, checked, readAt>>

(* No proof, another server, or the request has been dealt with. *)
CapabilityDone ==
    /\ phase \in {"holder", "scoped"}
    /\ Settled

CapabilityNext ==
    \/ \E s \in Stamp, r \in RootKey, g \in Grant :
        \/ NewCapability(s, r, g)
        \/ \E t \in DOMAIN block, mine \in BOOLEAN :
            Attenuate(s, t, r, g, mine) \/ SignBlock(s, t, r, g, mine)
    \/ \E s \in DOMAIN block : Observe(s) \/ Receive(s)
    \/ CapabilityTick
    \/ \E c \in Shown : PresentCapability(c)
    \/ \E v \in Server : ActDirectly(v) \/ HolderStage(v)
    \/ VerifyBlock
    \/ CheckSeal
    \/ SealMissing
    \/ CapabilityDone

CapabilitySpec ==
    clock = 0 /\ CapabilityInit /\ [][CapabilityNext]_<<clock, capabilityVars>>

-----------------------------------------------------------------------------
(* Properties. *)

(* "Only the current holder can produce" the seal, and "no prefix satisfies"    *)
(* it: a capability that passes Verify is one somebody made under the trusted   *)
(* root, whole, and that the presenter had seen as such - never the start of    *)
(* a narrower one it was handed; and a request is scoped by it only for a       *)
(* presenter with its secret, seen tokens being for everyone to copy.           *)
HandedWhole ==
    phase \in {"holder", "scoped"} /\ shown # <<>> =>
        /\ shown = path[Final] /\ block[shown[1]].key = TrustRoot
        /\ Final \in known
        /\ phase = "scoped" => Final \in held

(* The scope a capability gives a request is within the grant of every block,   *)
(* by whatever software the blocks were signed: its tools, the server asked     *)
(* for, its budget, and at the time Verify read no block had expired.           *)
CapabilityWithinGrant ==
    phase = "scoped" =>
        \A i \in DOMAIN shown : LET g == block[shown[i]].grant IN
            /\ \A tool \in Tool : granted(capScope.tools, tool) => granted(g.tools, tool)
            /\ \A v \in target : granted(g.servers, v)
            /\ ~Expired(g, readAt)
            /\ g.budget.unit # NoUnit => Covers(g.budget, capScope.budget)
=============================================================================
