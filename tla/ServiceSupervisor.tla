------------------------- MODULE ServiceSupervisor -------------------------
(* crates/beryl-app/src/cas_projection/service_supervisor: the slot that     *)
(* publishes the one running projection service, the leases its clients      *)
(* borrow it through, the worker that disposes of the service after its home *)
(* has failed, and the shutdown and the drop of the supervisor.              *)
(*                                                                           *)
(* A critical section of the slot's mutex is one step.  The service is one   *)
(* reference-counted object: arcs is the set of its holders, and the worker  *)
(* must be the only one when it takes the service apart to close it.         *)
(* Outside this module: what close does (LiveCommandGate has its drain), and *)
(* the home, which fails once and for good.                                  *)
EXTENDS Integers, FiniteSets

CONSTANT Clients        \* the threads that borrow the service

ASSUME ClientsAssumption == IsFiniteSet(Clients)

Slot == "slot"
Worker == "worker"
ASSUME HoldersAssumption == {Slot, Worker} \cap Clients = {}

VARIABLES
    current,            \* the slot still publishes the service
    active_leases, disposing, shutting_down, terminal_failures, terminal_settled,
    arcs,               \* who holds an Arc of the service
    client,             \* where each client's lease is
    asleep,             \* the worker is inside leases_changed.wait
    signal,             \* the disposal channel holds its one message
    failed, observed,   \* the home failed; the command gate observed it
    poisoned,           \* the gate's mutex is poisoned: notify is Unavailable
    monitor,            \* a thread inside PersistentFailureNotification::notify
    supervisor,         \* the owner's step: start, shutdown or drop
    worker, path,       \* the worker's step; which of its two waits it is on
    terminal_unavailable, service_error,
    service,            \* what became of the service
    shutdown_result     \* what shutdown returned

slot == <<current, active_leases, disposing, shutting_down, terminal_failures, terminal_settled>>
home == <<failed, observed, poisoned, monitor>>
exit == <<terminal_unavailable, service_error>>
supervisorVars == <<slot, arcs, client, asleep, signal, home, supervisor, worker, path, exit,
                    service, shutdown_result>>

Leasing == {"leased", "dropping"}
ShutdownResults == {"none", "Ok", "Service", "TerminalUnavailable", "WorkerPanicked"}

\* One type invariant: the slot, the leases and the threads.
SupervisorTypeOK ==
    /\ {current, disposing, shutting_down, terminal_settled, asleep, signal, failed, observed,
        poisoned, terminal_unavailable, service_error} \subseteq BOOLEAN
    /\ active_leases \in 0..Cardinality(Clients) /\ terminal_failures \in 0..1
    /\ arcs \subseteq {Slot, Worker} \cup Clients
    /\ client \in [Clients -> {"idle"} \cup Leasing]
    /\ monitor \in {"idle", "send"}
    /\ supervisor \in {"start", "unstarted", "running", "send", "join", "drop", "dropped", "done"}
    /\ worker \in {"unspawned", "recv", "check", "notify", "cut", "withdraw", "wait", "unwrap",
                   "close", "mark", "begin", "settle", "finish", "exited", "panicked"}
    /\ path \in {"cut", "settle"}
    /\ service \in {"live", "closed", "kept", "stranded"} /\ shutdown_result \in ShutdownResults

SupervisorInit ==
    /\ current = TRUE /\ active_leases = 0 /\ disposing = FALSE /\ shutting_down = FALSE
    /\ terminal_failures = 0 /\ terminal_settled = FALSE
    /\ arcs = {Slot} /\ client = [c \in Clients |-> "idle"] /\ asleep = FALSE /\ signal = FALSE
    /\ failed = FALSE /\ observed = FALSE /\ poisoned = FALSE /\ monitor = "idle"
    /\ supervisor = "start" /\ worker = "unspawned" /\ path = "cut"
    /\ terminal_unavailable = FALSE /\ service_error = FALSE
    /\ service = "live" /\ shutdown_result = "none"

WorkerGone == worker \in {"exited", "panicked"}

-----------------------------------------------------------------------------
(* Clients: RunningServiceSlot::acquire and the drop of a lease.             *)

Available == terminal_failures = 0 /\ ~shutting_down /\ current

\* A refused acquire changes nothing.
AcquireLease(c) ==
    /\ client[c] = "idle" /\ supervisor = "running" /\ Available
    /\ arcs' = arcs \cup {c} /\ active_leases' = active_leases + 1
    /\ client' = [client EXCEPT ![c] = "leased"]
    /\ UNCHANGED <<current, disposing, shutting_down, terminal_failures, terminal_settled, asleep,
                   signal, home, supervisor, worker, path, exit, service, shutdown_result>>

\* Mutant: the count goes before the Arc, as the struct's field order would have it.
DropArcLast(c) ==
    \/ /\ client[c] = "leased" /\ client' = [client EXCEPT ![c] = "dropping"]
       /\ active_leases' = active_leases - 1
       /\ asleep' = (asleep /\ active_leases # 1) /\ UNCHANGED arcs
    \/ /\ client[c] = "dropping" /\ client' = [client EXCEPT ![c] = "idle"]
       /\ arcs' = arcs \ {c} /\ UNCHANGED <<active_leases, asleep>>

\* The Arc leaves first; then, under the mutex, the count.
DropSteps(c) ==
    \/ /\ client[c] = "leased" /\ client' = [client EXCEPT ![c] = "dropping"]
       /\ arcs' = arcs \ {c} /\ UNCHANGED <<active_leases, asleep>>
    \/ /\ client[c] = "dropping" /\ client' = [client EXCEPT ![c] = "idle"]
       /\ active_leases' = active_leases - 1
       /\ asleep' = (asleep /\ active_leases # 1) /\ UNCHANGED arcs

DropLease(c) ==
    /\ DropSteps(c)
    /\ UNCHANGED <<current, disposing, shutting_down, terminal_failures, terminal_settled, signal,
                   home, supervisor, worker, path, exit, service, shutdown_result>>

-----------------------------------------------------------------------------
(* The home and the notification (LiveCommandGate).                          *)

HomeFails ==
    /\ ~failed /\ failed' = TRUE
    /\ UNCHANGED <<slot, arcs, client, asleep, signal, observed, poisoned, monitor, supervisor,
                   worker, path, exit, service, shutdown_result>>

\* A closure panics under the command gate's mutex.
GatePoisoned ==
    /\ ~poisoned /\ poisoned' = TRUE
    /\ UNCHANGED <<slot, arcs, client, asleep, signal, failed, observed, monitor, supervisor,
                   worker, path, exit, service, shutdown_result>>

\* Any holder of the notification; the first to observe the failure signals the disposer.
Notify ==
    /\ \/ /\ monitor = "idle" /\ service = "live" /\ failed /\ ~poisoned /\ ~observed
          /\ observed' = TRUE /\ monitor' = "send" /\ UNCHANGED signal
       \/ /\ monitor = "send" /\ monitor' = "idle" /\ signal' = TRUE /\ UNCHANGED observed
    /\ UNCHANGED <<slot, arcs, client, asleep, failed, poisoned, supervisor, worker, path, exit,
                   service, shutdown_result>>

-----------------------------------------------------------------------------
(* The owner: start, shutdown, drop.                                         *)

\* The worker starts, or its spawn fails and the caller settles the service itself.
Spawn ==
    /\ supervisor = "start"
    /\ \/ supervisor' = "running" /\ worker' = "recv" /\ UNCHANGED shutting_down
       \/ supervisor' = "unstarted" /\ worker' = "settle" /\ shutting_down' = TRUE
    /\ UNCHANGED <<current, active_leases, disposing, terminal_failures, terminal_settled, arcs,
                   client, asleep, signal, home, path, exit, service, shutdown_result>>

\* Mutant: the worker is woken before it can see the shutdown.
WakeThenShut ==
    \/ /\ supervisor = "running" /\ supervisor' \in {"send", "drop"}
       /\ signal' = ~WorkerGone /\ UNCHANGED shutting_down
    \/ /\ supervisor \in {"send", "drop"} /\ shutting_down' = TRUE /\ UNCHANGED signal
       /\ supervisor' = IF supervisor = "send" THEN "join" ELSE "dropped"

\* begin_shutdown, then try_send; a full or disconnected channel is ignored.
ShutThenWake ==
    \/ /\ supervisor = "running" /\ supervisor' \in {"send", "drop"}
       /\ shutting_down' = TRUE /\ UNCHANGED signal
    \/ /\ supervisor \in {"send", "drop"} /\ signal' = ~WorkerGone /\ UNCHANGED shutting_down
       /\ supervisor' = IF supervisor = "send" THEN "join" ELSE "dropped"

BeginShutdown ==
    /\ ShutThenWake
    /\ UNCHANGED <<current, active_leases, disposing, terminal_failures, terminal_settled, arcs,
                   client, asleep, home, worker, path, exit, service, shutdown_result>>

\* Mutant: a terminal worker is reported before its close error.
TerminalFirst == IF terminal_unavailable THEN "TerminalUnavailable"
                 ELSE IF service_error THEN "Service" ELSE "Ok"

\* TerminalWorkerExit::into_result.
IntoResult == IF service_error THEN "Service"
              ELSE IF terminal_unavailable THEN "TerminalUnavailable" ELSE "Ok"

JoinWorker ==
    /\ supervisor = "join" /\ WorkerGone /\ supervisor' = "done"
    /\ shutdown_result' = IF worker = "panicked" THEN "WorkerPanicked" ELSE IntoResult
    /\ UNCHANGED <<slot, arcs, client, asleep, signal, home, worker, path, exit, service>>

-----------------------------------------------------------------------------
(* The worker: run, cut_and_dispose_current_failed_service and               *)
(* settle_current_service.  Only the worker takes the service from the slot, *)
(* so what it reads there it still finds there.                              *)

\* recv; then the flag, then the published notification.
Receive ==
    /\ worker = "recv" /\ signal /\ signal' = FALSE /\ worker' = "check"
    /\ UNCHANGED <<slot, arcs, client, asleep, home, supervisor, path, exit, service,
                   shutdown_result>>

Check ==
    /\ worker = "check" /\ worker' = IF shutting_down THEN "begin" ELSE "notify"
    /\ UNCHANGED <<slot, arcs, client, asleep, signal, home, supervisor, path, exit, service,
                   shutdown_result>>

\* The worker re-reads the health itself, and signals itself when it is the first to
\* observe the failure; the cut reads it once more.
WorkerNotifies ==
    /\ worker \in {"notify", "cut"}
    /\ CASE failed /\ ~poisoned ->
                /\ worker' = IF worker = "notify" THEN "cut" ELSE "withdraw"
                /\ observed' = TRUE /\ signal' = (signal \/ ~observed)
                /\ UNCHANGED terminal_unavailable
         [] ~failed /\ worker = "notify" ->
                worker' = "recv" /\ UNCHANGED <<observed, signal, terminal_unavailable>>
         [] OTHER -> worker' = "mark" /\ terminal_unavailable' = TRUE
                     /\ UNCHANGED <<observed, signal>>
    /\ UNCHANGED <<slot, arcs, client, asleep, failed, poisoned, monitor, supervisor, path,
                   service_error, service, shutdown_result>>

\* withdraw of the generation just read.
Withdraw ==
    /\ worker = "withdraw" /\ worker' = "wait" /\ path' = "cut"
    /\ disposing' = TRUE /\ current' = FALSE /\ arcs' = (arcs \ {Slot}) \cup {Worker}
    /\ UNCHANGED <<active_leases, shutting_down, terminal_failures, terminal_settled, client,
                   asleep, signal, home, supervisor, exit, service, shutdown_result>>

\* wait_until_unleased, with its spurious wakes.
WaitUntilUnleased ==
    /\ worker = "wait"
    /\ \/ ~asleep /\ active_leases = 0 /\ worker' = "unwrap" /\ UNCHANGED asleep
       \/ ~asleep /\ active_leases # 0 /\ asleep' = TRUE /\ UNCHANGED worker
       \/ asleep /\ asleep' = FALSE /\ UNCHANGED worker
    /\ UNCHANGED <<slot, arcs, client, signal, home, supervisor, path, exit, service,
                   shutdown_result>>

\* into_parts: the cut gives a shared service up, the settlement panics.
Unwrap ==
    /\ worker = "unwrap" /\ arcs' = arcs \ {Worker}
    /\ CASE arcs = {Worker} -> worker' = "close" /\ UNCHANGED <<terminal_unavailable, service>>
         [] arcs # {Worker} /\ path = "cut" ->
                worker' = "mark" /\ terminal_unavailable' = TRUE /\ service' = "stranded"
         [] OTHER -> worker' = "panicked" /\ service' = "stranded"
                     /\ UNCHANGED terminal_unavailable
    /\ UNCHANGED <<slot, client, asleep, signal, home, supervisor, path, service_error,
                   shutdown_result>>

\* service.close; an error keeps the service and is reported by the exit.
CloseService ==
    /\ worker = "close"
    /\ service_error' \in BOOLEAN /\ service' = IF service_error' THEN "kept" ELSE "closed"
    /\ terminal_unavailable' = (terminal_unavailable \/ path = "cut")
    /\ worker' = IF path = "cut" THEN "mark"
                 ELSE IF supervisor = "unstarted" THEN "exited" ELSE "finish"
    /\ UNCHANGED <<slot, arcs, client, asleep, signal, home, supervisor, path, shutdown_result>>

MarkTerminal ==
    /\ worker = "mark" /\ worker' = "begin"
    /\ terminal_failures' = terminal_failures + 1 /\ disposing' = FALSE
    /\ UNCHANGED <<current, active_leases, shutting_down, terminal_settled, arcs, client, asleep,
                   signal, home, supervisor, path, exit, service, shutdown_result>>

WorkerShuts ==
    /\ worker = "begin" /\ worker' = "settle" /\ shutting_down' = TRUE
    /\ UNCHANGED <<current, active_leases, disposing, terminal_failures, terminal_settled, arcs,
                   client, asleep, signal, home, supervisor, path, exit, service,
                   shutdown_result>>

\* take_for_shutdown; without a service there is nothing left to close.
Settle ==
    /\ worker = "settle"
    /\ IF current /\ ~service_error
       THEN /\ worker' = "wait" /\ path' = "settle" /\ current' = FALSE
            /\ arcs' = (arcs \ {Slot}) \cup {Worker}
       ELSE worker' = "finish" /\ UNCHANGED <<path, current, arcs>>
    /\ UNCHANGED <<active_leases, disposing, shutting_down, terminal_failures, terminal_settled,
                   client, asleep, signal, home, supervisor, exit, service, shutdown_result>>

FinishSettlement ==
    /\ worker = "finish" /\ worker' = "exited"
    /\ terminal_settled' = terminal_unavailable
    /\ UNCHANGED <<current, active_leases, disposing, shutting_down, terminal_failures, arcs,
                   client, asleep, signal, home, supervisor, path, exit, service,
                   shutdown_result>>

-----------------------------------------------------------------------------
WorkerStep == Receive \/ Check \/ WorkerNotifies \/ Withdraw \/ WaitUntilUnleased \/ Unwrap
              \/ CloseService \/ MarkTerminal \/ WorkerShuts \/ Settle \/ FinishSettlement

OwnerStep == Spawn \/ BeginShutdown \/ JoinWorker

SupervisorNext ==
    \/ \E c \in Clients : AcquireLease(c) \/ DropLease(c)
    \/ HomeFails \/ GatePoisoned \/ Notify \/ OwnerStep \/ WorkerStep

SupervisorSpec == SupervisorInit /\ [][SupervisorNext]_supervisorVars

\* A woken worker runs and wakes only when it was woken; leases are dropped; an
\* owner that began its shutdown goes on; a notifier sends what it observed.
SupervisorFairSpec ==
    /\ SupervisorSpec
    /\ WF_supervisorVars(WorkerStep /\ ~asleep)
    /\ \A c \in Clients : WF_supervisorVars(DropLease(c))
    /\ WF_supervisorVars(OwnerStep /\ supervisor # "running")
    /\ WF_supervisorVars(Notify /\ monitor = "send")

-----------------------------------------------------------------------------
(* The service is taken apart exactly once and by its sole holder.  A lease *)
(* is counted from its acquisition until its Arc is gone, so whoever still  *)
(* holds the service is counted (slot.rs:60-85, 211-235): try_unwrap never  *)
(* fails, the cut never strands a service unclosed and the settlement never *)
(* panics (slot.rs:186-196, 213-217; worker.rs:133-160).  A worker that has *)
(* ended has closed the service, or keeps it in the close error it returns; *)
(* on no path is it left published (worker.rs:68-119, 149-160).             *)
NeverStranded ==
    /\ SupervisorTypeOK
    /\ Cardinality(arcs \cap Clients) <= active_leases
    /\ service # "stranded" /\ worker # "panicked"
    /\ worker = "exited" => ~current /\ arcs = {} /\ service \in {"closed", "kept"}

(* What the owner is told is true.  Diagnostics that call the terminal      *)
(* disposal settled are believed by the owner: no lease is out, the service *)
(* is gone and the failure is counted (service_supervisor.rs:183-187,       *)
(* slot.rs:140-144).  A shutdown reports a kept service as a close error,   *)
(* and Ok only for a service closed without a terminal failure              *)
(* (service_supervisor.rs:139-153, worker.rs:162-176).                      *)
ResultIsTruthful ==
    /\ terminal_settled =>
        /\ terminal_failures = 1 /\ active_leases = 0 /\ ~disposing
        /\ service \in {"closed", "kept"}
    /\ shutdown_result = "Ok" => service = "closed" /\ terminal_failures = 0
    /\ shutdown_result # "none" /\ service = "kept" => shutdown_result = "Service"

(* Disposal ends.  A shutdown returns: the worker is woken whatever it was  *)
(* doing and whatever the channel held, waits for the leases and closes     *)
(* (service_supervisor.rs:139-153, worker.rs:68-119).  And a failure that   *)
(* was observed disposes of the service, also when nobody shuts the         *)
(* supervisor down (notification.rs:52-63).                                 *)
DisposalEnds ==
    /\ supervisor = "send" ~> supervisor = "done"
    /\ (observed /\ supervisor = "running") ~> service # "live"
=============================================================================
