------------------------------ MODULE KillSwitch ------------------------------
(***************************************************************************)
(* The kill-switch: a durable deny list (revoke.Source, in production the  *)
(* Postgres table) and the gateway replicas' local snapshots of it         *)
(* (revoke.CachedStore).  The admin plane writes the Source; each replica  *)
(* answers Revoked from its snapshot, re-reads the Source on a ticker, and *)
(* refuses to answer (CheckFresh) once the last good re-read is too old.   *)
(*                                                                         *)
(* Time is an integer clock.  A replica's refresh goroutine lists the      *)
(* Source outside the store's lock and swaps the result in afterwards, so  *)
(* the read and the swap are separate steps here, and so are the Source    *)
(* write and the snapshot update of a write through CachedStore.           *)
(***************************************************************************)
EXTENDS Integers

CONSTANTS
    Replica,       \* gateway processes, each with one CachedStore
    Id,            \* principal, agent and blueprint ids the list may name
    Batch,         \* the sets of ids written in one call (a principal with its agents)
    Writer,        \* goroutines that write through a CachedStore
    Home,          \* Home[w]: the replica whose store writer w calls
    Op,            \* the writes this instance makes, out of "revoke" and "restore"
    MaxStale,      \* CachedStore.maxStale (0 disables the bound)
    ListTimeout,   \* bound on one Source call (postgres.defaultTimeout)
    RefreshEvery,  \* the refresh ticker's period
    MaxClock       \* bound: the clock stops here

ASSUME ConstantsAssumption ==
    /\ Home \in [Writer -> Replica]
    /\ Batch \subseteq (SUBSET Id) \ {{}}
    /\ Op \subseteq {"revoke", "restore"}
    /\ MaxStale \in Nat
    /\ ListTimeout \in Nat
    /\ RefreshEvery \in Nat \ {0}
    /\ MaxClock \in Nat

VARIABLES
    clock,
    source,       \* the ids durably on the deny list
    since,        \* since[i]: when i last joined the list (history)
    healthy,      \* the Source answers
    healthySince, \* when it last started to (history)
    up,           \* NewCachedStore has returned a store
    phase,        \* the refresh goroutine: between calls, in List, or past its read
    got,          \* what List read
    began,        \* when Refresh called List
    due,          \* when the ticker next has a tick for the loop
    snapshot,
    lastOK,
    staleLogged,
    write         \* write[w]: the write w has applied to the Source only

listVars   == <<phase, got, began>>
storeVars  == <<snapshot, lastOK, staleLogged>>
sourceVars == <<source, since>>
healthVars == <<healthy, healthySince>>
vars == <<clock, sourceVars, healthVars, up, due, listVars, storeVars, write>>

NoWrite == [op |-> "none", ids |-> {}, at |-> 0]

Write == [op : {"none", "revoke", "restore"}, ids : SUBSET Id, at : Nat]

TypeOK ==
    /\ clock \in Nat
    /\ source \in SUBSET Id
    /\ since \in [Id -> Nat]
    /\ healthy \in BOOLEAN
    /\ healthySince \in Nat
    /\ up \in [Replica -> BOOLEAN]
    /\ phase \in [Replica -> {"idle", "listing", "read"}]
    /\ got \in [Replica -> SUBSET Id]
    /\ began \in [Replica -> Nat]
    /\ due \in [Replica -> Nat]
    /\ snapshot \in [Replica -> SUBSET Id]
    /\ lastOK \in [Replica -> Nat]
    /\ staleLogged \in [Replica -> BOOLEAN]
    /\ write \in [Writer -> Write]

(* The list holds what earlier batches left; every replica is still to construct *)
(* its store.                                                                    *)
Init ==
    /\ clock = 0
    /\ source \in {UNION B : B \in SUBSET Batch}
    /\ since = [i \in Id |-> 0]
    /\ healthy = TRUE
    /\ healthySince = 0
    /\ up = [r \in Replica |-> FALSE]
    /\ phase = [r \in Replica |-> "idle"]
    /\ got = [r \in Replica |-> {}]
    /\ began = [r \in Replica |-> 0]
    /\ due = [r \in Replica |-> 0]
    /\ snapshot = [r \in Replica |-> {}]
    /\ lastOK = [r \in Replica |-> 0]
    /\ staleLogged = [r \in Replica |-> FALSE]
    /\ write = [w \in Writer |-> NoWrite]

-----------------------------------------------------------------------------
(* The store's read side. *)

Staleness(r) == clock - lastOK[r]

(* Mutant: no staleness bound. *)
CheckFreshNever(r) == TRUE

CheckFresh(r) == MaxStale <= 0 \/ Staleness(r) <= MaxStale

Revoked(r, i) == i \in snapshot[r]

(* A replica with a store lets i through. *)
Serves(r, i) == up[r] /\ CheckFresh(r) /\ ~Revoked(r, i)

-----------------------------------------------------------------------------
(* The Source. *)

(* Mutant: a batch that stops after its first row. *)
ApplyBatchPartly(op, ids) ==
    LET done == {CHOOSE i \in ids : TRUE}
    IN  /\ healthy
        /\ source' = IF op = "revoke" THEN source \cup done ELSE source \ done
        /\ since' = [i \in Id |-> IF op = "revoke" /\ i \in done \ source
                                  THEN clock ELSE since[i]]

(* One atomic batch: every id joins or leaves the list, or none does. *)
ApplyBatch(op, ids) ==
    /\ healthy
    /\ source' = IF op = "revoke" THEN source \cup ids ELSE source \ ids
    /\ since' = [i \in Id |-> IF op = "revoke" /\ i \in ids \ source
                              THEN clock ELSE since[i]]

(* A write by the admin plane (SyncStore).  A write through a CachedStore that *)
(* commits but loses its acknowledgement is the same step: the error return    *)
(* leaves the local snapshot alone.                                            *)
SourceWrite(op, ids) ==
    /\ ApplyBatch(op, ids)
    /\ UNCHANGED <<clock, healthVars, up, due, listVars, storeVars, write>>

SourceFails ==
    /\ healthy
    /\ healthy' = FALSE
    /\ UNCHANGED <<clock, sourceVars, healthySince, up, due, listVars, storeVars, write>>

SourceRecovers ==
    /\ ~healthy
    /\ healthy' = TRUE
    /\ healthySince' = clock
    /\ UNCHANGED <<clock, sourceVars, up, due, listVars, storeVars, write>>

-----------------------------------------------------------------------------
(* Construction and refresh. *)

(* NewCachedStore: the first Refresh runs before anything is served. *)
StartStore(r) ==
    /\ ~up[r] /\ phase[r] = "idle"
    /\ phase' = [phase EXCEPT ![r] = "listing"]
    /\ began' = [began EXCEPT ![r] = clock]
    /\ UNCHANGED <<clock, sourceVars, healthVars, up, due, got, storeVars, write>>

(* Mutant: a schedule that skips every other tick. *)
NextDueSkips(t) == t + (((clock - t) \div RefreshEvery) + 2) * RefreshEvery

(* The first point of the ticker's schedule after now: a tick fired while the *)
(* loop was busy is kept, the ones behind it are dropped.                     *)
NextDue(t) == t + (((clock - t) \div RefreshEvery) + 1) * RefreshEvery

(* loop takes a tick and calls Refresh, which calls List. *)
BeginRefresh(r) ==
    /\ up[r] /\ phase[r] = "idle"
    /\ clock >= due[r]
    /\ phase' = [phase EXCEPT ![r] = "listing"]
    /\ began' = [began EXCEPT ![r] = clock]
    /\ due' = [due EXCEPT ![r] = NextDue(@)]
    /\ UNCHANGED <<clock, sourceVars, healthVars, up, got, storeVars, write>>

(* The Source evaluates the query; the answer is still on its way. *)
ListReads(r) ==
    /\ phase[r] = "listing"
    /\ healthy
    /\ phase' = [phase EXCEPT ![r] = "read"]
    /\ got' = [got EXCEPT ![r] = source]
    /\ UNCHANGED <<clock, sourceVars, healthVars, up, due, began, storeVars, write>>

(* List returned: stamp the time and swap the snapshot under the lock.  The *)
(* first time, NewCachedStore starts the ticker and returns the store.      *)
RefreshOK(r) ==
    /\ phase[r] = "read"
    /\ snapshot' = [snapshot EXCEPT ![r] = got[r]]
    /\ lastOK' = [lastOK EXCEPT ![r] = clock]
    /\ staleLogged' = [staleLogged EXCEPT ![r] = FALSE]
    /\ up' = [up EXCEPT ![r] = TRUE]
    /\ due' = IF up[r] THEN due ELSE [due EXCEPT ![r] = clock + RefreshEvery]
    /\ phase' = [phase EXCEPT ![r] = "idle"]
    /\ got' = [got EXCEPT ![r] = {}]
    /\ UNCHANGED <<clock, sourceVars, healthVars, began, write>>

(* Mutant: a failed refresh counts as a good one. *)
RefreshFailedStamps(r) ==
    /\ phase[r] # "idle"
    /\ ~healthy
    /\ lastOK' = [lastOK EXCEPT ![r] = clock]
    /\ phase' = [phase EXCEPT ![r] = "idle"]
    /\ got' = [got EXCEPT ![r] = {}]
    /\ UNCHANGED <<clock, sourceVars, healthVars, up, due, began, snapshot, staleLogged, write>>

(* List returned an error: the snapshot stays and the outage is logged, once *)
(* as STALE when the bound is crossed.  A failed construction leaves no store *)
(* and nobody to log for.                                                     *)
RefreshFailed(r) ==
    /\ phase[r] # "idle"
    /\ ~healthy
    /\ staleLogged' = [staleLogged EXCEPT ![r] = @ \/ (up[r] /\ ~CheckFresh(r))]
    /\ phase' = [phase EXCEPT ![r] = "idle"]
    /\ got' = [got EXCEPT ![r] = {}]
    /\ UNCHANGED <<clock, sourceVars, healthVars, up, due, began, snapshot, lastOK, write>>

(* The process dies; everything it held in memory goes with it. *)
Crash(r) ==
    /\ up[r] \/ phase[r] # "idle"
    /\ up' = [up EXCEPT ![r] = FALSE]
    /\ phase' = [phase EXCEPT ![r] = "idle"]
    /\ got' = [got EXCEPT ![r] = {}]
    /\ snapshot' = [snapshot EXCEPT ![r] = {}]
    /\ staleLogged' = [staleLogged EXCEPT ![r] = FALSE]
    /\ write' = [w \in Writer |-> IF Home[w] = r THEN NoWrite ELSE write[w]]
    /\ UNCHANGED <<clock, sourceVars, healthVars, began, due, lastOK>>

-----------------------------------------------------------------------------
(* Writes through a CachedStore: the Source first, then the snapshot. *)

LocalWrite(w, op, ids) ==
    /\ up[Home[w]]
    /\ write[w].op = "none"
    /\ ApplyBatch(op, ids)
    /\ write' = [write EXCEPT ![w] = [op |-> op, ids |-> ids, at |-> clock]]
    /\ UNCHANGED <<clock, healthVars, up, due, listVars, storeVars>>

LocalApply(w) ==
    /\ write[w].op # "none"
    /\ snapshot' = [snapshot EXCEPT ![Home[w]] =
           IF write[w].op = "revoke" THEN @ \cup write[w].ids ELSE @ \ write[w].ids]
    /\ write' = [write EXCEPT ![w] = NoWrite]
    /\ UNCHANGED <<clock, sourceVars, healthVars, up, due, listVars, lastOK, staleLogged>>

-----------------------------------------------------------------------------
(* Time passes only when nothing is overdue: a Source call is abandoned after *)
(* ListTimeout, an acknowledged write reaches the snapshot within the same    *)
(* bound, and an idle loop takes a tick that is due at once.                  *)
Tick ==
    /\ clock < MaxClock
    /\ \A r \in Replica :
        /\ phase[r] # "idle" => clock < began[r] + ListTimeout
        /\ up[r] /\ phase[r] = "idle" => clock < due[r]
    /\ \A w \in Writer : write[w].op # "none" => clock < write[w].at + ListTimeout
    /\ clock' = clock + 1
    /\ UNCHANGED <<sourceVars, healthVars, up, due, listVars, storeVars, write>>

Next ==
    \/ Tick
    \/ \E op \in Op, ids \in Batch : SourceWrite(op, ids)
    \/ SourceFails
    \/ SourceRecovers
    \/ \E r \in Replica :
        \/ StartStore(r)
        \/ BeginRefresh(r)
        \/ ListReads(r)
        \/ RefreshOK(r)
        \/ RefreshFailed(r)
        \/ Crash(r)
    \/ \E w \in Writer, op \in Op, ids \in Batch : LocalWrite(w, op, ids)
    \/ \E w \in Writer : LocalApply(w)

Spec == Init /\ [][Next]_vars

-----------------------------------------------------------------------------
(* Properties. *)

(* A replica that lets an id through has not missed its revocation by more     *)
(* than the staleness bound and one Source call: an id on the durable list for *)
(* longer is denied by the snapshot, or CheckFresh denies everybody.  Refresh  *)
(* stamps lastOK when List returns, so the call's own duration adds to the     *)
(* bound; the interleavings with restores, write-through updates and crashes   *)
(* must not add to it.                                                         *)
RevocationEffective ==
    MaxStale > 0 =>
        \A r \in Replica, i \in source :
            clock - since[i] > MaxStale + ListTimeout => ~Serves(r, i)

(* Why: an id on the list that a snapshot does not hold joined it after the      *)
(* snapshot's Source read began, or while a restore was on its way from the      *)
(* Source to the snapshot; a read in flight, and a write in flight, carry the    *)
(* same guarantee to the snapshot they are about to change.                      *)
SnapshotsTrackSource ==
    /\ \A i \in Id : since[i] <= clock
    /\ \A r \in Replica :
        /\ lastOK[r] <= clock
        /\ began[r] <= clock
        /\ phase[r] # "idle" => clock <= began[r] + ListTimeout
        /\ phase[r] = "read" => \A i \in source \ got[r] : began[r] <= since[i]
        /\ up[r] => \A i \in source \ snapshot[r] : lastOK[r] <= since[i] + ListTimeout
    /\ \A w \in Writer :
        /\ write[w].at <= clock
        /\ write[w].op # "none" => clock <= write[w].at + ListTimeout
        /\ write[w].op = "restore" =>
               \A i \in source \cap write[w].ids : write[w].at <= since[i]

(* A Source outage is the only reason to refuse everybody: a replica denies as *)
(* stale only while the Source is down or the refresh cycle that follows its   *)
(* recovery is still under way.                                                *)
NoFalseDenial ==
    \A r \in Replica :
        up[r] /\ ~CheckFresh(r) =>
            ~healthy \/ clock - healthySince <= RefreshEvery + 2 * ListTimeout

(* A batch is never half in force: whenever the batches are disjoint, every    *)
(* snapshot holds all of a batch or none of it, so a principal is never cut    *)
(* off at a gateway while its agents are still let through (FR-19).            *)
BatchesLandWhole ==
    (\A a, b \in Batch : a # b => a \cap b = {}) =>
        \A r \in Replica, b \in Batch :
            b \subseteq snapshot[r] \/ b \cap snapshot[r] = {}
=============================================================================
