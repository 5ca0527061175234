----------------------------- MODULE Delegation -----------------------------
(***************************************************************************)
(* Grants and how they narrow along a delegation: what the three modes     *)
(* (the signed chain, the offline capability, the online exchange)         *)
(* have in common.  A grant with no tools (no servers) named leaves tools  *)
(* (servers) unconstrained, a zero notAfter never expires, and NoUnit      *)
(* stands for the nil budget.                                              *)
(***************************************************************************)
EXTENDS Naturals

CONSTANTS
    Tool, Server, Unit, NoUnit,
    Grant,         \* the grants parties give
    MaxDepth,      \* the depth ceiling
    RequireChain,  \* WithRequireChain: no request without a delegation
    MaxClock       \* bound on time

VARIABLE clock

ASSUME NoUnitAssumption == NoUnit \notin Unit

Budget == [unit : Unit \cup {NoUnit}, limit : Nat]
NoBudget == [unit |-> NoUnit, limit |-> 0]

Scope == [tools : SUBSET Tool, budget : Budget]
Unscoped == [tools |-> {}, budget |-> NoBudget]

Grants ==
    [tools : SUBSET Tool, servers : SUBSET Server, notAfter : Nat, budget : Budget]

(* Mutant: the empty set taken for the smallest one. *)
subsetPlain(parent, child) == parent = {} \/ child \subseteq parent

(* The narrowing of a set: a concrete parent takes a concrete child. *)
subset(parent, child) == parent = {} \/ (child # {} /\ child \subseteq parent)

attenuates(parent, child) ==
    /\ subset(parent.tools, child.tools)
    /\ subset(parent.servers, child.servers)
    /\ parent.notAfter # 0 => child.notAfter # 0 /\ child.notAfter <= parent.notAfter
    /\ parent.budget.unit # NoUnit =>
           /\ child.budget.unit = parent.budget.unit
           /\ child.budget.limit <= parent.budget.limit

Expired(g, now) == g.notAfter # 0 /\ now >= g.notAfter

(* A set that a tool or server is looked up in, at the gateway and after it. *)
granted(names, name) == names = {} \/ name \in names

-----------------------------------------------------------------------------
(* What a grant means, apart from how two of them are compared: the uses it *)
(* covers.                                                                  *)

Covers(b, spend) == b.unit = NoUnit \/ (spend.unit = b.unit /\ spend.limit <= b.limit)

Permits(g, tool, server, now, spend) ==
    /\ granted(g.tools, tool)
    /\ granted(g.servers, server)
    /\ ~Expired(g, now)
    /\ Covers(g.budget, spend)
=============================================================================
