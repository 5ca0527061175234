------------------------------ MODULE ToolGuard ------------------------------
(***************************************************************************)
(* tooldefs.Guard: the request stage that stops work on a quarantined      *)
(* server, and the response hook that fingerprints tools/list replies and  *)
(* quarantines or releases the server they came from.  Requests run        *)
(* concurrently, and a reply is inspected some time after the server made  *)
(* it; a server changes its tools whenever it likes.                       *)
(*                                                                         *)
(* A reply is abstracted to the form it takes on the wire, what the        *)
(* inspector finds in it, and the tool surface it shows.  The latch and    *)
(* the event it is reported in are one step.                               *)
(***************************************************************************)
EXTENDS Integers, Sequences

CONSTANTS
    Server,     \* the watched servers
    Surface,    \* tool surfaces, standing for their fingerprints
    Approved,   \* Approved[s]: the surface approved for s
    Request,    \* request slots; a slot is used again once it is answered
    Kinds,      \* what requests may ask
    Replies     \* the replies servers give, as [form, parts]

Kind == {"list", "call", "both", "handshake", "bodyless"}

(* What the inspector finds in a reply, or in one event of a stream: the tool   *)
(* list, a page of one, a list it cannot read, no list at all, more than        *)
(* MaxListBytes, more than that once decompressed, an encoding it cannot undo,  *)
(* a body that breaks off, a status other than 2xx.                             *)
Part == {"list", "page", "unreadable", "none", "tooLong", "inflates", "encoded",
         "broken", "error"}

ASSUME GuardAssumption ==
    /\ Approved \in [Server -> Surface]
    /\ Kinds \subseteq Kind
    /\ Replies \subseteq [form : {"whole", "stream"}, parts : Seq(Part) \ {<<>>}]

VARIABLES
    mode,         \* mode[s]: "deny" or "warn" for a pinned server, "none" for one only
                  \* watched; set at startup
    surface,      \* surface[s]: what s advertises now
    quarantined,  \* servers held
    reported,     \* reported[s]: the surfaces the last report of an unpinned s named
    at,           \* at[q]: where q stands
    to, kind,     \* to[q], kind[q]: the server q is for, and what it asks
    parts,        \* parts[q]: what is left of q's reply to inspect
    form,         \* form[q]: "none" before there is a reply
    shown,        \* shown[q]: the surface the reply shows
    blocked,      \* requests with an event that says Blocked
    last,         \* last[s]: the last verdict on s (history)
    early         \* requests doing work that passed against that verdict (history)

guardVars == <<quarantined, reported, blocked>>
askVars   == <<to, kind>>
replyVars == <<parts, form, shown>>
toolVars == <<mode, surface, guardVars, at, askVars, replyVars, last, early>>

Pinned == {s \in Server : mode[s] # "none"}

Verdict == {"none", "match", "bad"}

GuardTypeOK ==
    /\ mode \in [Server -> {"none", "deny", "warn"}]
    /\ surface \in [Server -> Surface]
    /\ quarantined \in SUBSET Pinned
    /\ reported \in [Server -> SUBSET Surface]
    /\ at \in [Request -> {"idle", "stage", "forward", "upstream", "inspect", "streaming",
                           "delivered", "refused", "denied"}]
    /\ to \in [Request -> Server]
    /\ kind \in [Request -> Kind \cup {"none"}]
    /\ parts \in [Request -> Seq(Part)]
    /\ form \in [Request -> {"none", "whole", "stream"}]
    /\ shown \in [Request -> Surface]
    /\ blocked \in SUBSET Request
    /\ last \in [Server -> Verdict]
    /\ early \in SUBSET Request

GuardInit ==
    /\ mode \in [Server -> {"none", "deny", "warn"}]
    /\ surface = Approved
    /\ quarantined = {}
    /\ reported = [s \in Server |-> {}]
    /\ at = [q \in Request |-> "idle"]
    /\ to \in [Request -> Server]
    /\ kind = [q \in Request |-> "none"]
    /\ parts = [q \in Request |-> <<>>]
    /\ form = [q \in Request |-> "none"]
    /\ shown = [q \in Request |-> Approved[to[q]]]
    /\ blocked = {}
    /\ last = [s \in Server |-> "none"]
    /\ early = {}

-----------------------------------------------------------------------------
(* The environment: clients, and the upstream servers. *)

ServerChanges(s, f) ==
    /\ f # surface[s]
    /\ surface' = [surface EXCEPT ![s] = f]
    /\ UNCHANGED <<mode, guardVars, at, askVars, replyVars, last, early>>

Ask(q, s, k) ==
    /\ at[q] = "idle"
    /\ to' = [to EXCEPT ![q] = s]
    /\ at' = [at EXCEPT ![q] = "stage"]
    /\ kind' = [kind EXCEPT ![q] = k]
    /\ UNCHANGED <<mode, surface, guardVars, replyVars, last, early>>

ServerReplies(q, r) ==
    /\ at[q] = "upstream"
    /\ at' = [at EXCEPT ![q] = "inspect"]
    /\ form' = [form EXCEPT ![q] = r.form]
    /\ parts' = [parts EXCEPT ![q] = r.parts]
    /\ shown' = [shown EXCEPT ![q] = surface[to[q]]]
    /\ UNCHANGED <<mode, surface, guardVars, askVars, last, early>>

(* The exchange is over, and the slot's history with it. *)
Finish(q) ==
    /\ at[q] \in {"delivered", "refused", "denied"}
    /\ at' = [at EXCEPT ![q] = "idle"]
    /\ kind' = [kind EXCEPT ![q] = "none"]
    /\ parts' = [parts EXCEPT ![q] = <<>>]
    /\ form' = [form EXCEPT ![q] = "none"]
    /\ shown' = [shown EXCEPT ![q] = Approved[to[q]]]
    /\ blocked' = blocked \ {q}
    /\ early' = early \ {q}
    /\ UNCHANGED <<mode, surface, to, quarantined, reported, last>>

-----------------------------------------------------------------------------
(* The request stage. *)

(* Mutant: one message of the handshake or the listing lets the batch through. *)
recoveryOnlyAny(q) == kind[q] # "call"

(* Mutant: the handshake alone. *)
recoveryOnlyHandshake(q) == kind[q] \in {"handshake", "bodyless"}

(* Every message is the handshake or tools/list, or there is no body at all. *)
recoveryOnly(q) == kind[q] \in {"list", "handshake", "bodyless"}

Stage(q) ==
    LET s == to[q]
        work == kind[q] \in {"call", "both"}
        pass == s \notin quarantined \/ mode[s] # "deny" \/ recoveryOnly(q)
        against == pass /\ work /\ mode[s] = "deny" /\ last[s] = "bad"
    IN  /\ at[q] = "stage"
        /\ at' = [at EXCEPT ![q] = IF pass THEN "forward" ELSE "denied"]
        /\ early' = IF against THEN early \cup {q} ELSE early
        /\ UNCHANGED <<mode, surface, guardVars, askVars, replyVars, last>>

(* Policy and mint let it pass, and the proxy sends it. *)
Forward(q) ==
    /\ at[q] = "forward"
    /\ at' = [at EXCEPT ![q] = "upstream"]
    /\ UNCHANGED <<mode, surface, guardVars, askVars, replyVars, last, early>>

-----------------------------------------------------------------------------
(* The response hook. *)

listsTools(q) == kind[q] \in {"list", "both"}

(* What the history makes of a part: a list that is the approved one, one that  *)
(* is not or could not be compared, or nothing to judge.                        *)
Judged(q, part) ==
    IF to[q] \notin Pinned \/ part \in {"none", "inflates", "broken", "error"} THEN "none"
    ELSE IF part = "list" /\ shown[q] = Approved[to[q]] THEN "match" ELSE "bad"

Judge(q, part) ==
    last' = IF Judged(q, part) = "none" THEN last ELSE [last EXCEPT ![to[q]] = Judged(q, part)]

(* Mutant: an event that claims the block whatever could still be blocked. *)
BlocksBlindly(q, canBlock) == mode[to[q]] = "deny"

Blocks(q, canBlock) == canBlock /\ mode[to[q]] = "deny"

(* Hold the server and report it. *)
Latch(q, canBlock) ==
    /\ quarantined' = quarantined \cup {to[q]}
    /\ blocked' = IF Blocks(q, canBlock) THEN blocked \cup {q} ELSE blocked
    /\ UNCHANGED reported

PassOn == UNCHANGED guardVars

(* Mutant: a list that could not be read is held whether or not it was pinned. *)
unverifiableUnpinned(q, canBlock) == Latch(q, canBlock)

(* Mutant: a list that could not be checked passes. *)
unverifiablePasses(q, canBlock) == PassOn

unverifiable(q, canBlock) ==
    IF to[q] \in Pinned THEN Latch(q, canBlock) ELSE PassOn

observe(q, page, canBlock) ==
    LET s == to[q]
    IN  IF s \notin Pinned
        THEN reported' = [reported EXCEPT ![s] = {shown[q]}] /\ UNCHANGED <<quarantined, blocked>>
        ELSE IF page THEN unverifiable(q, canBlock)
        ELSE IF shown[q] = Approved[s]
        THEN quarantined' = quarantined \ {s} /\ UNCHANGED <<reported, blocked>>
        ELSE Latch(q, canBlock)

(* A reply held in memory.  What decompresses past the bound is cut there, no   *)
(* longer parses, and counts as carrying no list.                               *)
inspectBuffered(q, part) ==
    /\ \/ part \in {"list", "page"} /\ observe(q, part = "page", TRUE)
       \/ part \in {"tooLong", "encoded", "unreadable"} /\ unverifiable(q, TRUE)
       \/ part \in {"none", "inflates", "broken"} /\ PassOn
    /\ Judge(q, part)

Whole(q) ==
    /\ at[q] = "inspect" /\ form[q] = "whole"
    /\ IF listsTools(q) /\ Head(parts[q]) # "error"
       THEN inspectBuffered(q, Head(parts[q]))
       ELSE PassOn /\ UNCHANGED last
    /\ at' = [at EXCEPT ![q] = IF q \in blocked' THEN "refused" ELSE "delivered"]
    /\ UNCHANGED <<mode, surface, askVars, replyVars, early>>

(* An event stream starts to flow at once; one that is compressed is held      *)
(* against the server without being read, and one nobody watches just passes.  *)
inspectStream(q) ==
    /\ at[q] = "inspect" /\ form[q] = "stream"
    /\ IF ~listsTools(q) \/ Head(parts[q]) = "error"
       THEN PassOn /\ UNCHANGED last /\ at' = [at EXCEPT ![q] = "delivered"]
       ELSE IF Head(parts[q]) = "encoded"
       THEN unverifiable(q, FALSE) /\ Judge(q, "encoded") /\ at' = [at EXCEPT ![q] = "delivered"]
       ELSE PassOn /\ UNCHANGED last /\ at' = [at EXCEPT ![q] = "streaming"]
    /\ UNCHANGED <<mode, surface, askVars, replyVars, early>>

(* The watcher sees an event through, in the Read that hands on its last bytes; *)
(* one past the bound ends the watching.                                        *)
StreamEvent(q) ==
    LET part == Head(parts[q])
        over == part \in {"tooLong", "broken"} \/ Tail(parts[q]) = <<>>
    IN  /\ at[q] = "streaming"
        /\ \/ part \in {"list", "page"} /\ observe(q, part = "page", FALSE)
           \/ part \in {"tooLong", "unreadable"} /\ unverifiable(q, FALSE)
           \/ part \in {"none", "broken"} /\ PassOn
        /\ Judge(q, part)
        /\ parts' = [parts EXCEPT ![q] = Tail(@)]
        /\ at' = [at EXCEPT ![q] = IF over THEN "delivered" ELSE "streaming"]
        /\ UNCHANGED <<mode, surface, askVars, form, shown, early>>

Handle(q) == Stage(q) \/ Forward(q) \/ Whole(q) \/ inspectStream(q) \/ StreamEvent(q)

Replied(q) == \E r \in Replies : ServerReplies(q, r)

GuardNext ==
    \/ \E s \in Server, f \in Surface : ServerChanges(s, f)
    \/ \E q \in Request :
        \/ \E s \in Server, k \in Kinds : Ask(q, s, k)
        \/ Handle(q)
        \/ Replied(q)
        \/ Finish(q)

GuardSpec == GuardInit /\ [][GuardNext]_toolVars

(* Clients keep asking, the gateway and the servers keep answering. *)
GuardFairness ==
    \A q \in Request :
        WF_toolVars((\E s \in Server, k \in Kinds : Ask(q, s, k)) \/ Handle(q) \/ Replied(q) \/ Finish(q))

FairSpec == GuardSpec /\ GuardFairness

-----------------------------------------------------------------------------
(* Properties. *)

(* "An event that claims a block that did not happen is a lie in the audit      *)
(* log": an event says Blocked exactly for the replies the client did not get.  *)
BlockedIsTrue ==
    \A q \in Request : at[q] \in {"delivered", "refused"} => (q \in blocked <=> at[q] = "refused")

(* "The poisoned definitions never leave the gateway": from a server pinned in  *)
(* deny mode no list but the approved one, and none that was too long, encoded, *)
(* unreadable or a page, reaches a client as a whole reply.                     *)
DriftNeverDelivered ==
    \A q \in Request :
        /\ at[q] = "delivered" /\ form[q] = "whole" /\ listsTools(q)
        /\ mode[to[q]] = "deny"
        => Judged(q, Head(parts[q])) # "bad"

(* "Everything that does work on the server is denied": no request that carries *)
(* a call passes the stage while the last list inspected from a server in deny  *)
(* mode was not the approved one, however replies and requests interleave.      *)
WorkWaitsForMatch == early = {}

(* "A bad release rolled back must be able to recover without restarting the    *)
(* gateway": once a server serves its approved list for good and clients keep   *)
(* listing, its quarantine ends for good.                                       *)
QuarantineEnds ==
    \A s \in Server : <>[](surface[s] = Approved[s]) => <>[](s \notin quarantined)
=============================================================================
