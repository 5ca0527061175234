--------------------------- MODULE MCAuthorization ---------------------------
(* The three delegation modes, of which a gateway runs one.                    *)
(*                                                                             *)
(* A principal p, an agent that shares its id and signs with k0, a delegate a, *)
(* and its sub-delegates b and c; three hops, blocks or tokens at most are     *)
(* signed, and s1, s2 and s3 name them.                                        *)
EXTENDS Authorization, Capability, Exchange, TLC

VARIABLE mode

CONSTANTS p, a, b, c, kp, k0, ka, kb, read, write, mail, files, usd,
          s1, s2, s3

Ids == {p, a, b, c}
Keys == {kp, k0, ka, kb}
Signers == (p :> {k0}) @@ (a :> {ka}) @@ (b :> {kb}) @@ (c :> {})
Edges == {<<p, a>>, <<a, b>>, <<b, c>>}

G(tools, servers, notAfter, unit, limit) ==
    [tools |-> tools, servers |-> servers, notAfter |-> notAfter,
     budget |-> [unit |-> unit, limit |-> limit]]

(* Everything; one tool within a budget; one server for a while, any tool. *)
GivenGrants ==
    {G({}, {}, 0, NoUnit, 0),
     G({read}, {}, 0, usd, 2),
     G({}, {mail}, 1, usd, 1)}

List == [method |-> "tools/list", tool |-> NoTool]
Calls == {List} \cup {[method |-> "tools/call", tool |-> t] : t \in {read, write}}

Policies ==
    (mail :> [tools |-> [allow |-> {Wildcard}, review |-> {write}],
              methods |-> [allow |-> {"tools/list"}, review |-> {}]])

ModeInit ==
    /\ mode \in {"chain", "capability", "exchange"}
    /\ Init /\ CapabilityInit /\ ExchangeInit

(* The variables of each mode but the clock. *)
chainVars == <<agentKey, signing, request>>

ModeNext ==
    /\ UNCHANGED mode
    /\ \/ mode = "chain" /\ Next /\ UNCHANGED <<capabilityVars, exchangeVars>>
       \/ mode = "capability" /\ CapabilityNext /\ UNCHANGED <<chainVars, exchangeVars>>
       \/ mode = "exchange" /\ ExchangeNext /\ UNCHANGED <<chainVars, capabilityVars>>

ModeSpec == ModeInit /\ [][ModeNext]_<<mode, vars, capabilityVars, exchangeVars>>

Names == Permutations({s1, s2, s3})
=============================================================================
