------------------------- MODULE HandoffCoordinator -------------------------
(* crates/beryl-app/src/discussion_settlement: the coordinator that scans    *)
(* the live durable handoff jobs and reconciles them one by one              *)
(* (coordinator.rs, coordinator/worker.rs), and the bounded set of           *)
(* settlement flights it shares with the dispatchers (flight.rs), whose      *)
(* release must resume a scan that was paused for want of a slot.            *)
(*                                                                           *)
(* A job is due (the coordinator can advance it), waiting (a turn has to end *)
(* first) or done; what it stores is left out.  A commit advances the home   *)
(* revision and is announced through the mutation observer, which wakes the  *)
(* signal later.  The critical sections of the signal and of the flights are *)
(* one step each; a thread in signal.wait is the guard on the flags, which   *)
(* are only raised under the mutex and before notify.                        *)
EXTENDS Integers, Sequences, FiniteSets, SequencesExt, FiniteSetsExt

CONSTANTS
    MaxJob,             \* the jobs are 1..MaxJob, in the order of the live index
    Dispatchers,        \* the threads that reserve a parent dispatch
    Maximum,            \* Flights::maximum
    PageItems,          \* HandoffScanLimits::page
    ReadyItems,         \* HandoffScanLimits::ready_job_items
    MaxChanges,         \* bound: commits by others than the coordinator
    MaxReserves         \* bound: reservations the dispatchers try

Jobs == 1..MaxJob
Coordinator == "coordinator"
None == "none"

\* What the others and the coordinator can commit between them.
MaxRevision == MaxJob + 2 * MaxChanges

VARIABLES
    state, rev,         \* per job: its lifecycle and its revision
    revision,           \* the home's revision
    changes, reserves,  \* what is left of the two bounds
    notices,            \* a commit the mutation observer has not announced yet
    holder,             \* ActiveFlights::jobs: who holds the flight of a job
    dispatch_waiting,
    pending, stopped,   \* HandoffSignal
    cancelled,          \* the coordinator's CommandCancellation
    dispatcher,         \* per dispatcher: what it is at
    retry,              \* per dispatcher: its capacity waker was called
    pc, after, ready, more, waited, before, page    \* worker::run, scan and reconcile

store == <<state, rev, revision, notices>>
bounds == <<changes, reserves>>
flights == <<holder, dispatch_waiting>>
signal == <<pending, stopped, cancelled>>
dispatch == <<dispatcher, retry>>
scan == <<pc, after, ready, more, waited, before, page>>
vars == <<store, bounds, flights, signal, dispatch, scan>>

Active == {j \in Jobs : holder[j] # None}

\* One type invariant, with the bounds of the scan.
TypeOK ==
    /\ state \in [Jobs -> {"due", "waiting", "done"}] /\ rev \in [Jobs -> 0..MaxRevision]
    /\ revision \in 0..MaxRevision
    /\ {notices, dispatch_waiting, pending, stopped, cancelled, more, waited} \subseteq BOOLEAN
    /\ holder \in [Jobs -> Dispatchers \cup {None, Coordinator}]
    /\ Cardinality(Active) <= Maximum
    /\ dispatcher \in [Dispatchers -> {"idle", "refused", "holding"}]
    /\ retry \in [Dispatchers -> BOOLEAN]
    /\ pc \in {"wait", "top", "capacity", "paused", "before", "list", "check", "job", "acquire",
               "full", "execute", "drop", "ended"}
    /\ after \in 0..MaxJob /\ before \in 0..MaxRevision
    /\ Len(ready) <= ReadyItems /\ Len(page) <= PageItems
    /\ \A r \in Range(ready) \cup Range(page) : r.job \in Jobs /\ r.rev \in 0..MaxRevision
    /\ changes \in 0..MaxChanges /\ reserves \in 0..MaxReserves

Init ==
    /\ state \in [Jobs -> {"due", "waiting"}] /\ rev = [j \in Jobs |-> 0]
    /\ revision = 0 /\ notices = FALSE
    /\ holder = [j \in Jobs |-> None] /\ dispatch_waiting = FALSE
    /\ pending = TRUE /\ stopped = FALSE /\ cancelled = FALSE
    /\ dispatcher = [d \in Dispatchers |-> "idle"] /\ retry = [d \in Dispatchers |-> FALSE]
    /\ pc = "wait" /\ after = 0 /\ ready = <<>> /\ more = FALSE /\ waited = FALSE
    /\ before = 0 /\ page = <<>> /\ changes = MaxChanges /\ reserves = MaxReserves

------------------------------------------------------------------------------
\* A committed change of job j: a new home revision, announced later.
Commit(j, s) ==
    /\ revision' = revision + 1
    /\ rev' = [rev EXCEPT ![j] = revision + 1]
    /\ state' = [state EXCEPT ![j] = s]
    /\ notices' = TRUE

\* The mutation observer reaches the handoff waker through the scheduler's signal.
Announce ==
    /\ notices
    /\ notices' = FALSE /\ pending' = TRUE
    /\ UNCHANGED <<state, rev, revision, bounds, flights, stopped, cancelled, dispatch, scan>>

\* Somebody else's commit.
Change(j, s) ==
    /\ changes > 0 /\ changes' = changes - 1
    /\ Commit(j, s)
    /\ UNCHANGED <<reserves, flights, signal, dispatch, scan>>

\* A turn the job waits for ends.
TurnEnds == \E j \in Jobs : state[j] = "waiting" /\ Change(j, "due")

\* Mutant: only a full set of flights is remembered, not a duplicate.
AcquireForgetsDuplicate(j, who) ==
    \/ /\ holder[j] = None /\ Cardinality(Active) < Maximum
       /\ holder' = [holder EXCEPT ![j] = who]
       /\ UNCHANGED dispatch_waiting
    \/ /\ holder[j] = None /\ Cardinality(Active) >= Maximum
       /\ dispatch_waiting' = TRUE
       /\ UNCHANGED holder
    \/ holder[j] # None /\ UNCHANGED flights

\* Mutant: a full set one slot above the configured maximum.
AcquireOneMore(j, who) ==
    IF holder[j] # None \/ Cardinality(Active) > Maximum
      THEN dispatch_waiting' = TRUE /\ UNCHANGED holder
      ELSE holder' = [holder EXCEPT ![j] = who] /\ UNCHANGED dispatch_waiting

\* acquire: a duplicate and a full set are refused, and the refusal is remembered.
Acquire(j, who) ==
    IF holder[j] # None \/ Cardinality(Active) >= Maximum
      THEN dispatch_waiting' = TRUE /\ UNCHANGED holder
      ELSE holder' = [holder EXCEPT ![j] = who] /\ UNCHANGED dispatch_waiting

\* Mutant: the release wakes the dispatch only.
ReleaseWakesDispatch(j) ==
    /\ holder' = [holder EXCEPT ![j] = None]
    /\ dispatch_waiting' = FALSE
    /\ retry' = [d \in Dispatchers |-> retry[d] \/ dispatch_waiting]
    /\ UNCHANGED pending

\* Mutant: the release wakes the coordinator only.
ReleaseWakesCoordinator(j) ==
    /\ holder' = [holder EXCEPT ![j] = None]
    /\ dispatch_waiting' = FALSE
    /\ pending' = (pending \/ dispatch_waiting)
    /\ UNCHANGED retry

\* Drop for Flight: a remembered refusal wakes the dispatch and the coordinator.
Release(j) ==
    /\ holder' = [holder EXCEPT ![j] = None]
    /\ dispatch_waiting' = FALSE
    /\ retry' = [d \in Dispatchers |-> retry[d] \/ dispatch_waiting]
    /\ pending' = (pending \/ dispatch_waiting)

\* reserve_parent takes a flight; a refused dispatcher tries again once it is woken.
Reserve(d) ==
    /\ dispatcher[d] = "idle" \/ (dispatcher[d] = "refused" /\ retry[d])
    /\ reserves > 0 /\ reserves' = reserves - 1
    /\ \E j \in Jobs :
         /\ Acquire(j, d)
         /\ dispatcher' = [dispatcher EXCEPT ![d] = IF holder'[j] = d THEN "holding"
                                                                      ELSE "refused"]
    /\ retry' = [retry EXCEPT ![d] = FALSE]
    /\ UNCHANGED <<store, changes, signal, scan>>

DispatchCommits(d) ==
    \E j \in Jobs, s \in {"waiting", "done"} :
      holder[j] = d /\ state[j] # "done" /\ Change(j, s)

\* The reservation ends, whether its job was changed or not.
DispatchEnds(d) ==
    /\ dispatcher[d] = "holding"
    /\ \E j \in Jobs : holder[j] = d /\ Release(j)
    /\ dispatcher' = [dispatcher EXCEPT ![d] = "idle"]
    /\ UNCHANGED <<store, bounds, stopped, cancelled, scan>>

------------------------------------------------------------------------------
Same == UNCHANGED <<after, ready, more, waited, before, page>>

\* run: signal.wait, then one scan from the start of the live index.
Wait ==
    /\ pc = "wait" /\ (pending \/ stopped)
    /\ pending' = FALSE
    /\ pc' = IF stopped \/ cancelled THEN "ended" ELSE "top"
    /\ after' = 0 /\ ready' = <<>> /\ more' = FALSE /\ waited' = FALSE
    /\ UNCHANGED <<store, bounds, flights, stopped, cancelled, dispatch, before, page>>

\* scan: a cancellation ends the scan.
Top ==
    /\ pc = "top"
    /\ pc' = IF cancelled THEN "wait" ELSE "capacity"
    /\ Same /\ UNCHANGED <<store, bounds, flights, signal, dispatch>>

\* Mutant: a scan without a free slot waits without asking to be woken.
CapacityUnasked ==
    /\ pc = "capacity"
    /\ IF Cardinality(Active) < Maximum
         THEN pc' = "before" /\ UNCHANGED waited
         ELSE pc' = "paused" /\ waited' = TRUE
    /\ UNCHANGED <<store, bounds, flights, signal, dispatch, after, ready, more, before, page>>

\* scan: capacity_ready, or a pause that the release of a flight ends.
CapacityReady ==
    /\ pc = "capacity"
    /\ IF Cardinality(Active) < Maximum
         THEN pc' = "before" /\ UNCHANGED <<dispatch_waiting, waited>>
         ELSE pc' = "paused" /\ dispatch_waiting' = TRUE /\ waited' = TRUE
    /\ UNCHANGED <<store, bounds, holder, signal, dispatch, after, ready, more, before, page>>

\* scan: the wait of a pause before a page (paused) or before a job (full).
Resume ==
    /\ pc \in {"paused", "full"} /\ (pending \/ stopped)
    /\ pending' = FALSE
    /\ pc' = CASE stopped \/ (pc = "paused" /\ cancelled) -> "wait"
               [] pc = "paused" -> "capacity"
               [] OTHER -> "job"
    /\ Same /\ UNCHANGED <<store, bounds, flights, stopped, cancelled, dispatch>>

ReadBefore ==
    /\ pc = "before"
    /\ before' = revision /\ pc' = "list"
    /\ UNCHANGED <<store, bounds, flights, signal, dispatch, after, ready, more, waited, page>>

Record(j) == [job |-> j, rev |-> rev[j]]

\* list_live: one page of the live jobs behind the cursor.
ListLive ==
    LET live == SetToSortSeq({j \in Jobs : j > after /\ state[j] # "done"}, <)
        some == SubSeq(live, 1, Min({PageItems, Len(live)})) IN
    /\ pc = "list"
    /\ page' = [i \in DOMAIN some |-> Record(some[i])]
    /\ more' = (Len(some) < Len(live))
    /\ pc' = "check"
    /\ UNCHANGED <<store, bounds, flights, signal, dispatch, after, ready, waited, before>>

\* Mutant: what does not fit the ready queue is taken for scanned.
CheckDropsRest ==
    /\ pc = "check"
    /\ page' = <<>> /\ before' = 0
    /\ IF revision # before
         THEN pending' = TRUE /\ pc' = "top" /\ UNCHANGED <<ready, more>>
         ELSE /\ ready' = SubSeq(page, 1, Min({ReadyItems, Len(page)}))
              /\ pc' = "job" /\ UNCHANGED <<pending, more>>
    /\ UNCHANGED <<store, bounds, flights, stopped, cancelled, dispatch, after, waited>>

\* scan: a page the home has moved past is dropped and another pass requested;
\* the rest of a page that exceeds the ready queue is read again.
Check ==
    /\ pc = "check"
    /\ page' = <<>> /\ before' = 0
    /\ IF revision # before
         THEN pending' = TRUE /\ pc' = "top" /\ UNCHANGED <<ready, more>>
         ELSE /\ ready' = SubSeq(page, 1, Min({ReadyItems, Len(page)}))
              /\ more' = (more \/ ReadyItems < Len(page))
              /\ pc' = "job" /\ UNCHANGED pending
    /\ UNCHANGED <<store, bounds, flights, stopped, cancelled, dispatch, after, waited>>

\* The job at the front is behind the cursor now.
Advance == ready' = Tail(ready) /\ after' = Head(ready).job /\ pc' = "job"

\* reconcile: a job changed since it was listed requests another pass.
Changed ==
    /\ pc = "job" /\ ready # <<>> /\ ~cancelled
    /\ rev[Head(ready).job] # Head(ready).rev
    /\ pending' = TRUE
    /\ Advance
    /\ UNCHANGED <<store, bounds, flights, stopped, cancelled, dispatch, more, waited, before,
                   page>>

Reconcile ==
    /\ pc = "job" /\ ready # <<>> /\ ~cancelled
    /\ rev[Head(ready).job] = Head(ready).rev
    /\ pc' = "acquire"
    /\ Same /\ UNCHANGED <<store, bounds, flights, signal, dispatch>>

\* prepare_selected: without a flight the job is skipped (a duplicate) or the scan pauses.
TakeFlight ==
    LET j == Head(ready).job IN
    /\ pc = "acquire"
    /\ Acquire(j, Coordinator)
    /\ CASE holder[j] # None -> Advance /\ UNCHANGED waited
         [] holder[j] = None /\ holder'[j] = None ->
              pc' = "full" /\ waited' = TRUE /\ UNCHANGED <<ready, after>>
         [] OTHER -> pc' = "execute" /\ UNCHANGED <<ready, after, waited>>
    /\ UNCHANGED <<store, bounds, signal, dispatch, more, before, page>>

\* prepare and execute: commit what is due, nothing for a waiting job; a job
\* changed under the flight may conflict, which requests another pass.
Execute ==
    LET j == Head(ready).job IN
    /\ pc = "execute"
    /\ pc' = "drop"
    /\ \/ /\ state[j] = "due"
          /\ \E s \in {"waiting", "done"} : Commit(j, s)
          /\ UNCHANGED pending
       \/ state[j] # "due" /\ UNCHANGED <<store, pending>>
       \/ rev[j] # Head(ready).rev /\ pending' = TRUE /\ UNCHANGED store
    /\ Same /\ UNCHANGED <<bounds, flights, stopped, cancelled, dispatch>>

\* Mutant: the flight is kept until the coordinator acquires the next one.
DropFlightLate ==
    /\ pc = "drop"
    /\ Advance
    /\ UNCHANGED <<store, bounds, flights, signal, dispatch, more, waited, before, page>>

\* The flight is dropped with the prepared settlement.
DropFlight ==
    /\ pc = "drop"
    /\ Release(Head(ready).job)
    /\ Advance
    /\ UNCHANGED <<store, bounds, stopped, cancelled, dispatcher, more, waited, before, page>>

\* scan: the last job of the last page; a pass that paused requests another one.
PassEnds ==
    /\ pc = "job"
    /\ \/ ready # <<>> /\ cancelled /\ pc' = "wait" /\ UNCHANGED pending
       \/ ready = <<>> /\ more /\ pc' = "top" /\ UNCHANGED pending
       \/ ready = <<>> /\ ~more /\ pc' = "wait" /\ pending' = (pending \/ waited)
    /\ Same /\ UNCHANGED <<store, bounds, flights, stopped, cancelled, dispatch>>

\* A read, identity or unresolved command error ends the worker.
Fails ==
    /\ pc \in {"paused", "before", "list", "check", "job"}
    /\ pc' = "ended"
    /\ Same /\ UNCHANGED <<store, bounds, flights, signal, dispatch>>

\* shutdown: cancel, then stop the signal, then join.
Cancel ==
    /\ ~cancelled
    /\ cancelled' = TRUE
    /\ UNCHANGED <<store, bounds, flights, pending, stopped, dispatch, scan>>

\* Mutant: the stop is recorded only by a coordinator that is scanning.
StopBusy ==
    /\ cancelled /\ ~stopped /\ pc # "wait"
    /\ stopped' = TRUE
    /\ UNCHANGED <<store, bounds, flights, pending, cancelled, dispatch, scan>>

Stop ==
    /\ cancelled /\ ~stopped
    /\ stopped' = TRUE
    /\ UNCHANGED <<store, bounds, flights, pending, cancelled, dispatch, scan>>

Scan == \/ Wait \/ Top \/ CapacityReady \/ Resume \/ ReadBefore \/ ListLive \/ Check \/ Changed
        \/ Reconcile \/ TakeFlight \/ Execute \/ DropFlight \/ PassEnds

Next ==
    \/ Scan \/ Fails
    \/ Announce \/ TurnEnds
    \/ \E d \in Dispatchers : Reserve(d) \/ DispatchCommits(d) \/ DispatchEnds(d)
    \/ Cancel \/ Stop

Spec == Init /\ [][Next]_vars

\* The worker runs, the observer announces, a reservation ends and a shutdown goes on.
FairSpec ==
    /\ Spec /\ WF_vars(Scan) /\ WF_vars(Announce) /\ WF_vars(Stop)
    /\ \A d \in Dispatchers : WF_vars(DispatchEnds(d))

------------------------------------------------------------------------------
(* A coordinator asleep with no wake pending has left nothing behind: every  *)
(* due job is held by a dispatcher, whose release is going to wake it        *)
(* (discussion_settlement/flight.rs:155-162, 300-315, coordinator/worker.rs  *)
(* 62-98).                                                                   *)
NoBlindSleep ==
    (pc = "wait" /\ ~pending /\ ~notices /\ ~cancelled) =>
      \A j \in Jobs : state[j] = "due" => holder[j] \in Dispatchers /\ dispatch_waiting

(* A scan paused for want of a slot, with no wake pending, waits while every *)
(* slot is really taken, and the next release is going to wake it            *)
(* (discussion_settlement/flight.rs:213-226, 289-315).                       *)
PauseHasCause ==
    (pc \in {"paused", "full"} /\ ~pending) => Cardinality(Active) = Maximum /\ dispatch_waiting

(* The coordinator keeps no slot while it sleeps: its flight is for the job  *)
(* it is at (coordinator/worker.rs:112-163).                                 *)
OwnFlightOnly ==
    \A j \in Jobs : holder[j] = Coordinator =>
      pc \in {"execute", "drop"} /\ Head(ready).job = j

(* A due job is advanced by somebody, unless the coordinator ends            *)
(* (coordinator/worker.rs:9-107).                                            *)
DueIsReconciled == \A j \in Jobs : state[j] = "due" ~> state[j] # "due" \/ pc = "ended"

(* "Capacity release resumes a paused scan": whatever the dispatchers do, a  *)
(* pause ends (coordinator/worker.rs:36-46, 67-73).                          *)
PauseEnds == pc \in {"paused", "full"} ~> pc \notin {"paused", "full"}

(* A dispatcher refused a flight is told when to try again                   *)
(* (discussion_settlement/flight.rs:155-162, 289-315).                       *)
RefusedIsWoken == \A d \in Dispatchers : dispatcher[d] = "refused" ~> retry[d]

(* A shutdown that began ends the worker (coordinator.rs:135-157).           *)
ShutdownEnds == cancelled ~> pc = "ended"

=============================================================================
