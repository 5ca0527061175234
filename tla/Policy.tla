------------------------------- MODULE Policy -------------------------------
(***************************************************************************)
(* policy.AllowList and the scope the policy stage grants.  A rule set is  *)
(* the allow and review entries of one namespace; a server's rules are one *)
(* set for tools and one for the methods that name no tool.                *)
(***************************************************************************)
EXTENDS Sequences

CONSTANTS
    Wildcard,   \* "*"
    NoTool,     \* the tool of a call that is no tools/call
    MethodNone  \* the method of a request without JSON-RPC

(* The entry a name is decided by: its own before the wildcard's. *)
MostSpecific(set, name) ==
    IF name \in set.review \cup set.allow THEN name ELSE Wildcard

decide(set, name) ==
    LET entry == MostSpecific(set, name) IN
    IF entry \in set.review THEN "review"
    ELSE IF entry \in set.allow THEN "allow" ELSE "deny"

(* rules: the servers with a policy, and the rules of each. *)
Evaluate(rules, server, call) ==
    IF server \notin DOMAIN rules THEN "deny"
    ELSE IF call.tool # NoTool
         THEN decide(rules[server].tools, call.tool)
         ELSE decide(rules[server].methods, call.method)

(* The actions of a request that are decided: one at least. *)
Decided(calls) ==
    IF calls = <<>> THEN {[method |-> MethodNone, tool |-> NoTool]}
    ELSE {calls[i] : i \in DOMAIN calls}

(* The tools a request names, each once. *)
distinct(calls) == {calls[i].tool : i \in DOMAIN calls} \ {NoTool}
=============================================================================
