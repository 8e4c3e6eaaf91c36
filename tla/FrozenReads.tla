---------------------------- MODULE FrozenReads ----------------------------
(* crates/beryl-home-store/src/read/frozen.rs and read/frozen/registry.rs:   *)
(* retained database snapshots behind cloneable handles, and the owner of    *)
(* the home that ends the generation they belong to (store.rs, recovery.rs). *)
(*                                                                           *)
(* A slot has an id, a mutex, a condition variable `drained` and the fields  *)
(* {snapshot, active, closed}; the registry maps the ids in use to slots     *)
(* under a mutex of its own.  Every critical section is one step.  A         *)
(* snapshot is modelled by the home revision it shows.                       *)
(*                                                                           *)
(* capture, retain and read run inside execute_read, which holds a health    *)
(* admission and the generation's read lock; release takes only the lock.    *)
(* The owner ends a generation by closing the gate, draining the admissions, *)
(* taking the generation out under the write lock and dropping it.           *)
EXTENDS Integers, FiniteSets

CONSTANTS
    Threads,
    Maximum,       \* RegistryState::maximum, the profile's frozen_read_slots
    MaxRequests,   \* MAX_ACTIVE_READ_REQUESTS
    MaxId,         \* the bound on next_id (u64::MAX)
    MaxRevision    \* bound on the home revisions the writer commits

ASSUME ThreadsAssumption == IsFiniteSet(Threads)
ASSUME BoundsAssumption ==
    {Maximum, MaxRequests, MaxId, MaxRevision} \subseteq Nat \ {0}

Ids == 1..MaxId
Revisions == 1..MaxRevision
None == 0

VARIABLES
    slots, next_id, closed,             \* RegistryState
    snapshot, active, slot_closed,      \* SlotState of every id ever reserved
    revision,                           \* the home revision the database shows
    handles,                            \* ids of the FrozenHomeRead values returned
    recorded,                           \* FrozenHomeRead::revision of every id
    owner, todo,                        \* the owner, and the slots it still closes
    op, pc,                             \* the call of a thread and its next step
    cur,                                \* the id the call names
    request,                            \* the id of the FrozenReadRequest it holds
    own,                                \* the id of the FrozenReadReservation it holds
    arc                                 \* the snapshot its request or capture holds

registry == <<slots, next_id, closed>>
slot == <<snapshot, active, slot_closed>>
call == <<op, pc, cur, request, own, arc>>
vars == <<registry, slot, revision, handles, recorded, owner, todo, call>>

Steps == {"idle", "lookup", "request", "read", "reserve", "snapshot", "install",
          "confirm", "get", "close", "wait", "drained", "remove",
          "drop_snapshot", "drop_count", "commit"}

\* One type invariant: the registry, its slots, the owner and the calls.
TypeOK ==
    /\ slots \subseteq Ids /\ next_id \in 1..MaxId + 1 /\ closed \in BOOLEAN
    /\ snapshot \in [Ids -> {None} \cup Revisions]
    /\ active \in [Ids -> 0..MaxRequests] /\ slot_closed \in [Ids -> BOOLEAN]
    /\ revision \in Revisions /\ handles \subseteq Ids
    /\ recorded \in [Ids -> {None} \cup Revisions]
    /\ owner \in {"open", "drain", "lock", "close", "slot", "wait", "drained", "gone"}
    /\ todo \subseteq Ids
    /\ op \in [Threads -> {"none", "capture", "retain", "read", "release"}]
    /\ pc \in [Threads -> Steps]
    /\ \A f \in {cur, request, own} : f \in [Threads -> {None} \cup Ids]
    /\ arc \in [Threads -> {None} \cup Revisions]

Init ==
    /\ slots = {} /\ next_id = 1 /\ closed = FALSE
    /\ snapshot = [i \in Ids |-> None]
    /\ active = [i \in Ids |-> 0]
    /\ slot_closed = [i \in Ids |-> FALSE]
    /\ revision = 1 /\ handles = {} /\ recorded = [i \in Ids |-> None]
    /\ owner = "open" /\ todo = {}
    /\ op = [t \in Threads |-> "none"]
    /\ pc = [t \in Threads |-> "idle"]
    /\ cur = [t \in Threads |-> None]
    /\ request = [t \in Threads |-> None]
    /\ own = [t \in Threads |-> None]
    /\ arc = [t \in Threads |-> None]

(* The thread holds the read lock of the generation.                         *)
InGeneration(t) == pc[t] \notin {"idle", "drop_snapshot", "drop_count", "commit"}
Admitted(t) == InGeneration(t) /\ op[t] # "release"

-----------------------------------------------------------------------------
(* Where a call goes when its closure returns: a reservation that is not     *)
(* handed out is dropped under the generation lock, then the request is      *)
(* dropped after execute_read, and a reservation handed out is committed.    *)

AfterOk(t) == IF request[t] # None THEN "drop_snapshot" ELSE "commit"

AfterError(t) ==
    IF own[t] # None THEN "get"
    ELSE IF request[t] # None THEN "drop_snapshot" ELSE "idle"

GoTo(t, step) ==
    /\ pc' = [pc EXCEPT ![t] = step]
    /\ op' = IF step = "idle" THEN [op EXCEPT ![t] = "none"] ELSE op
    /\ cur' = IF step = "idle" THEN [cur EXCEPT ![t] = None] ELSE cur

-----------------------------------------------------------------------------
(* Commits of the home writer move the database on under the snapshots.      *)
Write ==
    /\ owner = "open" /\ revision < MaxRevision
    /\ revision' = revision + 1
    /\ UNCHANGED <<registry, slot, handles, recorded, owner, todo, call>>

Enter(t, o, id, step) ==
    /\ pc[t] = "idle"
    /\ op' = [op EXCEPT ![t] = o]
    /\ cur' = [cur EXCEPT ![t] = id]
    /\ pc' = [pc EXCEPT ![t] = step]
    /\ UNCHANGED <<registry, slot, revision, handles, recorded, owner, todo,
                   request, own, arc>>

(* execute_read admits while the gate is open, so the generation is there.   *)
Capture(t) == owner = "open" /\ Enter(t, "capture", None, "reserve")
Retain(t) == owner = "open" /\ \E id \in handles : Enter(t, "retain", id, "lookup")
ReadFrozen(t) == owner = "open" /\ \E id \in handles : Enter(t, "read", id, "lookup")

(* release_frozen_read: once the generation is taken it has no effect.       *)
ReleaseRead(t) ==
    /\ owner \in {"open", "drain"}
    /\ \E id \in handles : Enter(t, "release", id, "get")

-----------------------------------------------------------------------------
(* FrozenReadRegistry::request, in its two critical sections.                *)

Lookup(t) ==
    /\ pc[t] = "lookup"
    /\ GoTo(t, IF ~closed /\ cur[t] \in slots THEN "request" ELSE AfterError(t))
    /\ UNCHANGED <<registry, slot, revision, handles, recorded, owner, todo,
                   request, own, arc>>

AdmissibleIgnoringClosed(id) ==   \* mutant: `closed` is not read again
    active[id] < MaxRequests /\ snapshot[id] # None

Admissible(id) ==
    /\ ~slot_closed[id]
    /\ active[id] < MaxRequests
    /\ snapshot[id] # None

AdmitRequest(t) ==
    /\ pc[t] = "request"
    /\ IF Admissible(cur[t])
       THEN /\ active' = [active EXCEPT ![cur[t]] = @ + 1]
            /\ request' = [request EXCEPT ![t] = cur[t]]
            /\ arc' = [arc EXCEPT ![t] = snapshot[cur[t]]]
            /\ GoTo(t, IF op[t] = "retain" THEN "reserve" ELSE "read")
       ELSE GoTo(t, AfterError(t)) /\ UNCHANGED <<active, request, arc>>
    /\ UNCHANGED <<registry, snapshot, slot_closed, revision, handles, recorded,
                   owner, todo, own>>

(* The operation on the snapshot, which may fail.                            *)
Operate(t) ==
    /\ pc[t] = "read"
    /\ \E step \in {"confirm", AfterError(t)} : GoTo(t, step)
    /\ UNCHANGED <<registry, slot, revision, handles, recorded, owner, todo,
                   request, own, arc>>

(* Drop of a FrozenReadRequest: the reference first, then the count, and the *)
(* notification under the slot's mutex.                                      *)
KeepSnapshot(t) ==   \* mutant: no take(), the field is dropped after the count
    /\ pc[t] = "drop_snapshot"
    /\ pc' = [pc EXCEPT ![t] = "drop_count"]
    /\ UNCHANGED <<registry, slot, revision, handles, recorded, owner, todo,
                   op, cur, request, own, arc>>

DropSnapshot(t) ==
    /\ pc[t] = "drop_snapshot"
    /\ arc' = [arc EXCEPT ![t] = None]
    /\ pc' = [pc EXCEPT ![t] = "drop_count"]
    /\ UNCHANGED <<registry, slot, revision, handles, recorded, owner, todo,
                   op, cur, request, own>>

Target(t) == IF own[t] # None THEN own[t] ELSE cur[t]
Notified(id) == {t \in Threads : pc[t] = "wait" /\ Target(t) = id}
NextTodo == CHOOSE i \in todo : \A j \in todo : i <= j

AfterDrop(t) ==
    LET last == active[request[t]] = 1
        next == IF own[t] # None THEN "commit" ELSE "idle"
    IN  /\ request' = [request EXCEPT ![t] = None]
        /\ pc' = [u \in Threads |->
                     IF u = t THEN next
                     ELSE IF last /\ u \in Notified(request[t]) THEN "drained" ELSE pc[u]]
        /\ owner' = IF last /\ owner = "wait" /\ NextTodo = request[t]
                    THEN "drained" ELSE owner
        /\ op' = IF next = "idle" THEN [op EXCEPT ![t] = "none"] ELSE op
        /\ cur' = IF next = "idle" THEN [cur EXCEPT ![t] = None] ELSE cur
        /\ UNCHANGED <<registry, snapshot, slot_closed, revision, handles, recorded,
                       todo, own, arc>>

DropCountUnlessClosed(t) ==   \* mutant: a closed slot is not counted down
    /\ pc[t] = "drop_count"
    /\ active' = IF slot_closed[request[t]] THEN active
                 ELSE [active EXCEPT ![request[t]] = @ - 1]
    /\ AfterDrop(t)

DropCount(t) ==
    /\ pc[t] = "drop_count"
    /\ active' = [active EXCEPT ![request[t]] = @ - 1]
    /\ AfterDrop(t)

-----------------------------------------------------------------------------
(* FrozenReadRegistry::reserve.  Cancelled, closed, saturated and exhausted  *)
(* are all errors of the closure.                                            *)

HasRoom == Cardinality(slots) < Maximum

Reserve(t) ==
    /\ pc[t] = "reserve"
    /\ \/ GoTo(t, AfterError(t)) /\ UNCHANGED <<slots, next_id, own>>
       \/ /\ ~closed /\ HasRoom /\ next_id <= MaxId
          /\ slots' = slots \cup {next_id}
          /\ own' = [own EXCEPT ![t] = next_id]
          /\ next_id' = next_id + 1
          /\ GoTo(t, IF op[t] = "retain" THEN "install" ELSE "snapshot")
    /\ UNCHANGED <<closed, slot, revision, handles, recorded, owner, todo,
                   request, arc>>

(* database.snapshot() and read_home_revision on it; either may fail, and    *)
(* the snapshot goes with the closure.                                       *)
TakeSnapshot(t) ==
    /\ pc[t] = "snapshot"
    /\ \/ GoTo(t, AfterError(t)) /\ UNCHANGED arc
       \/ GoTo(t, "install") /\ arc' = [arc EXCEPT ![t] = revision]
    /\ UNCHANGED <<registry, slot, revision, handles, recorded, owner, todo,
                   request, own>>

(* FrozenReadReservation::install: a capture moves its snapshot into the     *)
(* slot, a retain shares the one of its request.                             *)
Install(t) ==
    /\ pc[t] = "install"
    /\ IF slot_closed[own[t]]
       THEN GoTo(t, AfterError(t)) /\ UNCHANGED <<snapshot, recorded>>
       ELSE /\ snapshot' = [snapshot EXCEPT ![own[t]] = arc[t]]
            /\ recorded' = [recorded EXCEPT ![own[t]] =
                               IF op[t] = "retain" THEN recorded[cur[t]] ELSE arc[t]]
            /\ GoTo(t, "confirm")
    /\ arc' = IF op[t] = "retain" THEN arc ELSE [arc EXCEPT ![t] = None]
    /\ UNCHANGED <<registry, active, slot_closed, revision, handles, owner, todo,
                   request, own>>

(* The end of execute_read: confirm fails once the gate is closed, and may   *)
(* fail on a storage fault.                                                  *)
Confirm(t) ==
    /\ pc[t] = "confirm"
    /\ \/ owner = "open" /\ GoTo(t, AfterOk(t))
       \/ GoTo(t, AfterError(t))
    /\ UNCHANGED <<registry, slot, revision, handles, recorded, owner, todo,
                   request, own, arc>>

(* FrozenReadReservation::commit, and the handle returned.                   *)
Commit(t) ==
    /\ pc[t] = "commit"
    /\ handles' = handles \cup {own[t]}
    /\ own' = [own EXCEPT ![t] = None]
    /\ GoTo(t, "idle")
    /\ UNCHANGED <<registry, slot, revision, recorded, owner, todo, request, arc>>

-----------------------------------------------------------------------------
(* release(id), and Drop of an uncommitted reservation: look the slot up,    *)
(* close it, remove it.                                                      *)

Get(t) ==
    /\ pc[t] = "get"
    /\ IF Target(t) \in slots
       THEN GoTo(t, "close") /\ UNCHANGED own
       ELSE /\ own' = [own EXCEPT ![t] = None]
            /\ GoTo(t, IF request[t] # None THEN "drop_snapshot" ELSE "idle")
    /\ UNCHANGED <<registry, slot, revision, handles, recorded, owner, todo,
                   request, arc>>

(* ReadSlot::close: mark, wait until no request is active, take the snapshot.*)
CloseSlot(id, waiting, done) ==
    /\ slot_closed' = [slot_closed EXCEPT ![id] = TRUE]
    /\ IF active[id] # 0
       THEN waiting /\ UNCHANGED snapshot
       ELSE done /\ snapshot' = [snapshot EXCEPT ![id] = None]

Close(t) ==
    /\ pc[t] \in {"close", "drained"}
    /\ CloseSlot(Target(t), GoTo(t, "wait"), GoTo(t, "remove"))
    /\ UNCHANGED <<registry, active, revision, handles, recorded, owner, todo,
                   request, own, arc>>

(* release reports Released when the slot was gone already.                  *)
Remove(t) ==
    /\ pc[t] = "remove"
    /\ slots' = slots \ {Target(t)}
    /\ own' = [own EXCEPT ![t] = None]
    /\ GoTo(t, IF request[t] # None THEN "drop_snapshot" ELSE "idle")
    /\ UNCHANGED <<next_id, closed, slot, revision, handles, recorded, owner, todo,
                   request, arc>>

-----------------------------------------------------------------------------
(* Condvar::wait may return on its own.                                      *)
Wake(t) ==
    /\ pc[t] = "wait"
    /\ pc' = [pc EXCEPT ![t] = "drained"]
    /\ UNCHANGED <<registry, slot, revision, handles, recorded, owner, todo,
                   op, cur, request, own, arc>>

WakeOwner ==
    /\ owner = "wait"
    /\ owner' = "drained"
    /\ UNCHANGED <<registry, slot, revision, handles, recorded, todo, call>>

(* The owner closes the health gate: recover_same_home or close.             *)
OwnerBegins ==
    /\ owner = "open"
    /\ owner' = "drain"
    /\ UNCHANGED <<registry, slot, revision, handles, recorded, todo, call>>

(* The admissions have drained.  From here on the owner waits for the write  *)
(* lock, and std's RwLock lets no reader in while a writer waits.            *)
OwnerDrained ==
    /\ owner = "drain"
    /\ \A t \in Threads : ~Admitted(t)
    /\ owner' = "lock"
    /\ UNCHANGED <<registry, slot, revision, handles, recorded, todo, call>>

(* The readers are out: the generation is taken.                             *)
OwnerTakes ==
    /\ owner = "lock"
    /\ \A t \in Threads : ~InGeneration(t)
    /\ owner' = "close"
    /\ UNCHANGED <<registry, slot, revision, handles, recorded, todo, call>>

(* Drop of StoreGeneration: FrozenReadRegistry::close.                       *)
OwnerClosesRegistry ==
    /\ owner = "close"
    /\ closed' = TRUE
    /\ todo' = slots
    /\ slots' = {}
    /\ owner' = IF slots = {} THEN "gone" ELSE "slot"
    /\ UNCHANGED <<next_id, slot, revision, handles, recorded, call>>

OwnerClosesSlot ==
    /\ owner \in {"slot", "drained"}
    /\ CloseSlot(NextTodo,
                 owner' = "wait" /\ UNCHANGED todo,
                 /\ todo' = todo \ {NextTodo}
                 /\ owner' = IF todo = {NextTodo} THEN "gone" ELSE "slot")
    /\ UNCHANGED <<registry, active, revision, handles, recorded, call>>

-----------------------------------------------------------------------------
(* A call that has begun goes on by itself.                                  *)
Step(t) ==
    \/ Lookup(t) \/ AdmitRequest(t) \/ Operate(t) \/ DropSnapshot(t) \/ DropCount(t)
    \/ Reserve(t) \/ TakeSnapshot(t) \/ Install(t) \/ Confirm(t) \/ Commit(t)
    \/ Get(t) \/ Close(t) \/ Remove(t)

OwnerStep == OwnerDrained \/ OwnerTakes \/ OwnerClosesRegistry \/ OwnerClosesSlot

Next ==
    \/ Write
    \/ \E t \in Threads :
          Capture(t) \/ Retain(t) \/ ReadFrozen(t) \/ ReleaseRead(t) \/ Wake(t) \/ Step(t)
    \/ OwnerBegins \/ OwnerStep \/ WakeOwner

Spec == Init /\ [][Next]_vars

(* Every thread runs the call it has begun, and so does the owner.           *)
FairSpec ==
    /\ Spec
    /\ \A t \in Threads : WF_vars(Step(t))
    /\ WF_vars(OwnerStep)

-----------------------------------------------------------------------------
(* Retention is bounded and nothing leaks.  `active` of a slot is the number *)
(* of requests on it, so the decrement in Drop never underflows and no close *)
(* waits for a request that is gone (registry.rs:124, 257).  A slot in use   *)
(* has a handle to release it by, or belongs to a call that will commit or   *)
(* drop it (registry.rs:66, 215-236).                                        *)
SlotsAccounted ==
    /\ TypeOK
    /\ \A i \in Ids : active[i] = Cardinality({t \in Threads : request[t] = i})
    /\ Cardinality(slots) <= Maximum
    /\ \A i \in slots : i \in handles \/ \E t \in Threads : own[t] = i

(* A snapshot is shown for what it is and not kept too long.  A request sees *)
(* the revision its handle names, however far the writer has moved on and    *)
(* however often the read was retained (frozen.rs:105-110).  Only a slot in  *)
(* use or being closed keeps one, and once its close has taken it no request *)
(* made through that slot refers to it: the reference is dropped before the  *)
(* count (registry.rs:178-190, 249-261).  So when the generation is gone,    *)
(* every snapshot of its database is, although requests are dropped after    *)
(* the health admission and the generation lock (frozen.rs:216, store.rs:97).*)
SnapshotsSound ==
    /\ \A t \in Threads : request[t] # None /\ arc[t] # None => arc[t] = recorded[request[t]]
    /\ \A i \in Ids : snapshot[i] # None => i \in slots \cup todo
    /\ \A t \in Threads, i \in Ids :
          slot_closed[i] /\ snapshot[i] = None /\ request[t] = i => arc[t] = None
    /\ owner = "gone" => \A t \in Threads : arc[t] = None

(* A release returns and the owner gets rid of the generation, whatever the  *)
(* other threads read: a closed slot admits nobody (registry.rs:182).        *)
CloseEnds ==
    /\ \A t \in Threads : op[t] = "release" ~> pc[t] = "idle"
    /\ owner = "drain" ~> owner = "gone"
=============================================================================
