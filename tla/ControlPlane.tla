----------------------------- MODULE ControlPlane -----------------------------
(***************************************************************************)
(* admin.Service: the in-memory records of principals, blueprints and      *)
(* agents, and the durable kill-switch its Revoke and Restore write.       *)
(* Every operation runs under the service's lock and is one action.  A     *)
(* write to the store may fail, and a failed write may have landed: the    *)
(* acknowledgement is what was lost.  A restart loses the records and      *)
(* keeps the list.                                                         *)
(***************************************************************************)
CONSTANTS
    Principal, Blueprint, Agent,  \* the ids of each kind
    NoId,                         \* the empty id
    StoreMayFail                  \* the instance includes failing store writes

Id == Principal \cup Blueprint \cup Agent

ASSUME IdsAssumption ==
    /\ Principal \cap Blueprint = {}
    /\ Principal \cap Agent = {}
    /\ Blueprint \cap Agent = {}
    /\ NoId \notin Id
    /\ StoreMayFail \in BOOLEAN

VARIABLES
    principals,   \* registered principals
    ownerOf,      \* ownerOf[b]: the principal blueprint b is registered under, or NoId
    principalOf,  \* principalOf[a]: the principal agent a is registered under, or NoId
    blueprintOf,  \* blueprintOf[a]: the blueprint a names, or NoId
    disabled,     \* ids whose record carries the Disabled flag
    killed,       \* the durable deny list
    reply,        \* what the last revoke or restore told its caller
    doubt,        \* ids a failed restore may or may not have taken off the list (history)
    fallen        \* ids an acknowledged revoke was to reach, until a restore (history)

records == <<principals, ownerOf, principalOf, blueprintOf>>
controlVars == <<records, disabled, killed, reply, doubt, fallen>>

Reply == [op : {"none", "revoke", "restore"}, ids : SUBSET Id,
          status : {"ok", "failed"}, applied : SUBSET Id]

ControlTypeOK ==
    /\ principals \in SUBSET Principal
    /\ ownerOf \in [Blueprint -> Principal \cup {NoId}]
    /\ principalOf \in [Agent -> Principal \cup {NoId}]
    /\ blueprintOf \in [Agent -> Blueprint \cup {NoId}]
    /\ disabled \in SUBSET (Principal \cup Agent)
    /\ killed \in SUBSET Id
    /\ reply \in Reply
    /\ doubt \in SUBSET Id
    /\ fallen \in SUBSET Id

NoReply == [op |-> "none", ids |-> {}, status |-> "ok", applied |-> {}]

ControlInit ==
    /\ principals = {}
    /\ ownerOf = [b \in Blueprint |-> NoId]
    /\ principalOf = [a \in Agent |-> NoId]
    /\ blueprintOf = [a \in Agent |-> NoId]
    /\ disabled = {}
    /\ killed = {}
    /\ reply = NoReply
    /\ doubt = {}
    /\ fallen = {}

-----------------------------------------------------------------------------
(* Registration.  A record replaces the one it finds, its flag included. *)

RegisterPrincipal(p) ==
    /\ principals' = principals \cup {p}
    /\ disabled' = disabled \ {p}
    /\ UNCHANGED <<ownerOf, principalOf, blueprintOf, killed, reply, doubt, fallen>>

(* The record as written: the agent names any blueprint, or none. *)
PutAgent(a, p, b) ==
    /\ principalOf' = [principalOf EXCEPT ![a] = p]
    /\ blueprintOf' = [blueprintOf EXCEPT ![a] = b]
    /\ disabled' = disabled \ {a}
    /\ UNCHANGED <<principals, ownerOf, killed, reply, doubt, fallen>>

RegisterAgent(a, p, b) ==
    /\ p \in principals
    /\ PutAgent(a, p, b)

RegisterBlueprint(b, p) ==
    /\ p \in principals
    /\ ownerOf' = [ownerOf EXCEPT ![b] = p]
    /\ UNCHANGED <<principals, principalOf, blueprintOf, disabled, killed, reply, doubt, fallen>>

InstantiateAgent(b, a) ==
    /\ ownerOf[b] # NoId
    /\ PutAgent(a, ownerOf[b], b)

-----------------------------------------------------------------------------
(* Revocation. *)

(* The ids with a record that carries the Disabled flag. *)
Registered == principals \cup {a \in Agent : principalOf[a] # NoId}

(* Mutant: a principal's agents only, not a blueprint's. *)
cascadeOfPrincipal(id) ==
    {id} \cup {a \in Agent : principalOf[a] # NoId /\ principalOf[a] = id}

(* id and every agent that hangs off it. *)
cascade(id) ==
    {id} \cup {a \in Agent : principalOf[a] # NoId /\ (principalOf[a] = id \/ blueprintOf[a] = id)}

Respond(op, id, status, applied) ==
    reply' = [op |-> op, ids |-> cascade(id), status |-> status, applied |-> applied]

(* The party and its registered agents, as the history counts them. *)
Under(id) == {id} \cup {a \in Agent : principalOf[a] # NoId /\ id \in {principalOf[a], blueprintOf[a]}}

With(list, id) == list \cup cascade(id)
Without(list, id) == list \ cascade(id)

Revoke(id) ==
    /\ killed' = With(killed, id)
    /\ disabled' = disabled \cup (cascade(id) \cap Registered)
    /\ Respond("revoke", id, "ok", {})
    /\ doubt' = doubt \ cascade(id)
    /\ fallen' = fallen \cup Under(id)
    /\ UNCHANGED records

(* Mutant: the answer reports every id as applied. *)
ConfirmAll(ids, list) == {ids}

(* confirmRevoked asks the store id by id; a read that fails answers no. *)
Confirm(ids, list) == SUBSET (ids \cap list)

(* Mutant: a failed write marks the records all the same. *)
RevokeFailsMarks(id, landed) ==
    /\ StoreMayFail
    /\ killed' = IF landed THEN With(killed, id) ELSE killed
    /\ \E applied \in Confirm(cascade(id), killed') : Respond("revoke", id, "failed", applied)
    /\ disabled' = disabled \cup (cascade(id) \cap Registered)
    /\ UNCHANGED <<records, doubt, fallen>>

RevokeFails(id, landed) ==
    /\ StoreMayFail
    /\ killed' = IF landed THEN With(killed, id) ELSE killed
    /\ \E applied \in Confirm(cascade(id), killed') : Respond("revoke", id, "failed", applied)
    /\ UNCHANGED <<records, disabled, doubt, fallen>>

Restore(id) ==
    /\ killed' = Without(killed, id)
    /\ disabled' = disabled \ cascade(id)
    /\ Respond("restore", id, "ok", {})
    /\ doubt' = doubt \ cascade(id)
    /\ fallen' = fallen \ Under(id)
    /\ UNCHANGED records

RestoreFails(id, landed) ==
    /\ StoreMayFail
    /\ killed' = IF landed THEN Without(killed, id) ELSE killed
    /\ Respond("restore", id, "failed", {})
    /\ doubt' = doubt \cup cascade(id)
    /\ UNCHANGED <<records, disabled, fallen>>

(* The process restarts on the list it left. *)
Restart ==
    /\ principals' = {}
    /\ ownerOf' = [b \in Blueprint |-> NoId]
    /\ principalOf' = [a \in Agent |-> NoId]
    /\ blueprintOf' = [a \in Agent |-> NoId]
    /\ disabled' = {}
    /\ reply' = NoReply
    /\ UNCHANGED <<killed, doubt, fallen>>

ControlNext ==
    \/ \E p \in Principal :
        \/ RegisterPrincipal(p)
        \/ \E b \in Blueprint : RegisterBlueprint(b, p)
        \/ \E a \in Agent, b \in Blueprint \cup {NoId} : RegisterAgent(a, p, b)
    \/ \E b \in Blueprint, a \in Agent : InstantiateAgent(b, a)
    \/ \E id \in Id :
        \/ Revoke(id)
        \/ Restore(id)
        \/ \E landed \in BOOLEAN : RevokeFails(id, landed) \/ RestoreFails(id, landed)
    \/ Restart

ControlSpec == ControlInit /\ [][ControlNext]_controlVars

-----------------------------------------------------------------------------
(* Properties. *)

(* "The in-memory view never claims a revocation the durable store does not     *)
(* have", whatever writes fail, land unacknowledged or cross a registration -   *)
(* except where a failed restore left both sides unknown.                       *)
DisabledIsRevoked == disabled \ doubt \subseteq killed

(* What the caller was told is so: an acknowledged revoke has the whole cascade *)
(* on the list, an acknowledged restore none of it, and a failed revoke does    *)
(* not report an id as applied that is not on the list.                         *)
ReplyIsTrue ==
    /\ reply.op = "revoke" /\ reply.status = "ok" => reply.ids \subseteq killed
    /\ reply.op = "revoke" /\ reply.status = "failed" => reply.applied \subseteq killed
    /\ reply.op = "restore" /\ reply.status = "ok" => reply.ids \cap killed = {}

(* "No descendant can keep operating": a party whose revoke was acknowledged    *)
(* and every agent then registered under it stay on the list, through failed    *)
(* writes, re-registrations and restarts, until a restore takes them off.       *)
RevokedStaysDenied == fallen \ doubt \subseteq killed

(* What a gateway knows of an agent: instance authentication sets its id and    *)
(* its principal, and no blueprint.                                             *)
GatewayAdmits(a) == a \notin killed /\ principalOf[a] \notin killed

(* "Revoking a blueprint cascades to all of its instances (kill-switch by       *)
(* BlueprintID, enforced at the gateway and in Service.Revoke)".                *)
InstancesOfRevokedAreOut ==
    \A a \in Agent : blueprintOf[a] \in killed => ~GatewayAdmits(a)
=============================================================================
