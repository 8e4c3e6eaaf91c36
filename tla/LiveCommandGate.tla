-------------------------- MODULE LiveCommandGate --------------------------
(* crates/beryl-app/src/cas_projection/persistent_failure: the gate every    *)
(* store-dependent command of a projection service goes through, the failure *)
(* notification a dropped permit sends, the worker that cuts the service     *)
(* when its home has failed, and the close of the service                    *)
(* (service/shutdown.rs), which elects an ordinary shutdown against the cut. *)
(*                                                                           *)
(* A critical section of the gate's mutex is one step.  The threads that     *)
(* wait for the drain sleep on its condition variable.  Outside this module: *)
(* the home (it fails once, for good), what commands do, and the retirement  *)
(* of connections and schedulers inside close.  A command may be authorized  *)
(* before the service's initial start, for which the cut worker waits.       *)
EXTENDS Integers, FiniteSets

CONSTANTS
    Issued,           \* the commands ever authorized
    MaxAuthority      \* bound on the authority transitions

ASSUME CommandsAssumption == IsFiniteSet(Issued) /\ MaxAuthority \in Nat

Monitor == "monitor"
ASSUME MonitorAssumption == Monitor \notin Issued

VARIABLES
    election, epoch,      \* GateState
    permits,              \* GateState::active, the permits counted
    local_failure,
    step, epoch_of,       \* where each command, and the monitor, is; a permit's epoch
    home_health, home,    \* the home's health; whether the service still holds it
    start,                \* InitialStartState
    signal,               \* the notification channel holds its one message
    worker, phase,        \* the cut worker's step; PersistentFailureCutState
    stop_requested,
    closer, close_result, \* the closing thread's step; what close returned
    asleep,               \* threads inside drained.wait
    authority, frozen     \* authority transitions made; what the cut froze

gate == <<election, epoch, permits, local_failure>>
cut == <<worker, phase, frozen>>
close == <<closer, close_result, home, stop_requested>>
gateVars == <<gate, step, epoch_of, home_health, start, signal, cut, close, asleep, authority>>

Notifiers == Issued \cup {Monitor}
Counted == {"held", "observe", "signal", "decide", "release", "kept"}
Failures == {"FailureObserved", "PersistentFailure"}

\* One type invariant: the gate, the permits and the threads.
GateTypeOK ==
    /\ election \in {"Open", "OrdinaryShutdown"} \cup Failures
    /\ epoch \in 1..3 /\ permits \in 0..Cardinality(Issued)
    /\ {local_failure, home, signal, stop_requested} \subseteq BOOLEAN
    /\ step \in [Notifiers -> Counted \cup {"idle", "gone"}]
    /\ epoch_of \in [Issued -> 1..3]
    /\ home_health \in {"Healthy", "Failed"}
    /\ start \in {"Waiting", "Released", "Cancelled"}
    /\ worker \in {"start", "recv", "check", "cut", "drain", "freeze", "exited"}
    /\ phase \in {"Armed", "Cutting", "Finished", "Incomplete", "Stopped"}
    /\ closer \in {"open", "cancel", "runtime", "stop", "wake", "join", "drain", "done"}
    /\ close_result \in {"none", "Closed", "Finished", "Incomplete", "DisposalError"}
    /\ asleep \subseteq {"worker", "closer"}
    /\ authority \in 0..MaxAuthority /\ frozen \in -1..MaxAuthority

GateInit ==
    /\ election = "Open" /\ epoch = 1 /\ permits = 0 /\ local_failure = FALSE
    /\ step = [n \in Notifiers |-> "idle"] /\ epoch_of = [c \in Issued |-> 1]
    /\ home_health = "Healthy" /\ home = TRUE /\ start = "Waiting" /\ signal = FALSE
    /\ worker = "start" /\ phase = "Armed" /\ stop_requested = FALSE
    /\ closer = "open" /\ close_result = "none" /\ asleep = {}
    /\ authority = 0 /\ frozen = -1

Go(n, next) == step' = [step EXCEPT ![n] = next]

\* GateInner::status with a permit's epoch, and without one.
Open == election = "Open" /\ ~local_failure
Current(c) == Open /\ epoch_of[c] = epoch

-----------------------------------------------------------------------------
(* Commands and their permits.                                               *)

\* LiveCommandAuthorizer::authorize.
Authorize(c) ==
    /\ step[c] = "idle" /\ Open
    /\ permits' = permits + 1 /\ epoch_of' = [epoch_of EXCEPT ![c] = epoch]
    /\ Go(c, "held")
    /\ UNCHANGED <<election, epoch, local_failure, home_health, start, signal, cut, close, asleep,
                   authority>>

\* commit_if_current, and the current side of commit_or_transfer.
CommitPermit(c) ==
    /\ step[c] = "held" /\ Current(c) /\ authority < MaxAuthority
    /\ authority' = authority + 1
    /\ UNCHANGED <<gate, step, epoch_of, home_health, start, signal, cut, close, asleep>>

\* settle_authority on its current side; an owner without a permit.
SettleAuthority ==
    /\ Open /\ authority < MaxAuthority /\ authority' = authority + 1
    /\ UNCHANGED <<gate, step, epoch_of, home_health, start, signal, cut, close, asleep>>

\* The drop of a permit reads the home's health before anything else.
DropPermit(c) ==
    /\ step[c] = "held"
    /\ Go(c, CASE ~home -> "decide" [] home /\ home_health = "Failed" -> "observe"
               [] OTHER -> "release")
    /\ UNCHANGED <<gate, epoch_of, home_health, start, signal, cut, close, asleep, authority>>

\* release_after_authority_loss notifies nobody.
ReleaseAfterLoss(c) ==
    /\ step[c] = "held" /\ Go(c, "release")
    /\ UNCHANGED <<gate, epoch_of, home_health, start, signal, cut, close, asleep, authority>>

\* Any other holder of the notification, the service supervisor for one.
MonitorNotifies ==
    /\ step[Monitor] = "idle" /\ home /\ home_health = "Failed" /\ Go(Monitor, "observe")
    /\ UNCHANGED <<gate, epoch_of, home_health, start, signal, cut, close, asleep, authority>>

After(n, next) == IF n = Monitor THEN "idle" ELSE next

\* observe_failure_with_completion.
ObserveFailure(n) ==
    /\ step[n] = "observe"
    /\ IF election = "Open"
       THEN election' = "FailureObserved" /\ epoch' = epoch + 1 /\ Go(n, "signal")
       ELSE /\ UNCHANGED <<election, epoch>>
            /\ Go(n, After(n, IF election \in Failures THEN "release" ELSE "decide"))
    /\ asleep' = {}
    /\ UNCHANGED <<permits, local_failure, epoch_of, home_health, start, signal, cut, close,
                   authority>>

\* signal.try_send: sent, already full, or the worker and its receiver are gone.
Signal(n) ==
    /\ step[n] = "signal"
    /\ IF worker = "exited"
       THEN Go(n, After(n, "decide")) /\ UNCHANGED signal
       ELSE Go(n, After(n, "release")) /\ signal' = TRUE
    /\ UNCHANGED <<gate, epoch_of, home_health, start, cut, close, asleep, authority>>

\* Mutant: an unavailable notification always keeps the count.
AlwaysKeep(c) ==
    /\ step[c] = "decide" /\ Go(c, "kept")
    /\ UNCHANGED <<gate, epoch_of, home_health, start, signal, cut, close, asleep, authority>>

\* An unavailable notification keeps the count unless shutdown is elected.
Decide(c) ==
    /\ step[c] = "decide"
    /\ Go(c, IF election = "OrdinaryShutdown" THEN "release" ELSE "kept")
    /\ UNCHANGED <<gate, epoch_of, home_health, start, signal, cut, close, asleep, authority>>

\* Mutant: the last release does not wake the waiters.
ReleaseSilently(c) ==
    /\ step[c] = "release" /\ Go(c, "gone") /\ permits' = permits - 1
    /\ UNCHANGED <<election, epoch, local_failure, epoch_of, home_health, start, signal, cut,
                   close, asleep, authority>>

\* release_active.
ReleasePermit(c) ==
    /\ step[c] = "release" /\ Go(c, "gone") /\ permits' = permits - 1
    /\ asleep' = IF permits = 1 THEN {} ELSE asleep
    /\ UNCHANGED <<election, epoch, local_failure, epoch_of, home_health, start, signal, cut,
                   close, authority>>

\* close_for_local_failure, from any thread of the service.
LocalFailure ==
    /\ ~local_failure /\ local_failure' = TRUE
    /\ epoch' = IF election = "Open" THEN epoch + 1 ELSE epoch
    /\ asleep' = {}
    /\ UNCHANGED <<election, permits, step, epoch_of, home_health, start, signal, cut, close,
                   authority>>

HomeHealthFails ==
    /\ home_health = "Healthy" /\ home_health' = "Failed"
    /\ UNCHANGED <<gate, step, epoch_of, start, signal, cut, close, asleep, authority>>

\* InitialStartOwner: released, or dropped unreleased.
InitialStart ==
    /\ start = "Waiting" /\ start' \in {"Released", "Cancelled"}
    /\ UNCHANGED <<gate, step, epoch_of, home_health, signal, cut, close, asleep, authority>>

-----------------------------------------------------------------------------
(* The cut worker, run_worker.                                               *)

\* The thread of the worker waits for the initial start.
WorkerStarts ==
    /\ worker = "start" /\ start # "Waiting"
    /\ IF start = "Released" THEN worker' = "recv" /\ UNCHANGED phase
       ELSE worker' = "exited" /\ phase' = "Stopped"
    /\ UNCHANGED <<gate, step, epoch_of, home_health, start, signal, frozen, close, asleep,
                   authority>>

WorkerReceives ==
    /\ worker = "recv" /\ signal /\ signal' = FALSE /\ worker' = "check"
    /\ UNCHANGED <<gate, step, epoch_of, home_health, start, phase, frozen, close, asleep,
                   authority>>

\* A stop ends the worker; a failure starts the cut; other wakes are ignored.
WorkerChecks ==
    /\ worker = "check"
    /\ CASE stop_requested -> worker' = "exited" /\ phase' = "Stopped"
         [] ~stop_requested /\ election \in Failures /\ phase = "Armed" ->
                worker' = "cut" /\ phase' = "Cutting"
         [] OTHER -> worker' = "recv" /\ UNCHANGED phase
    /\ UNCHANGED <<gate, step, epoch_of, home_health, start, signal, frozen, close, asleep,
                   authority>>

\* close_for_persistent_failure and mark_cut_elected.
WorkerCuts ==
    /\ worker = "cut"
    /\ IF election \in Failures
       THEN election' = "PersistentFailure" /\ asleep' = {} /\ worker' = "drain"
            /\ UNCHANGED phase
       ELSE worker' = "exited" /\ phase' = "Stopped" /\ UNCHANGED <<election, asleep>>
    /\ UNCHANGED <<epoch, permits, local_failure, step, epoch_of, home_health, start, signal,
                   frozen, close, authority>>

\* wait_until_drained of the worker.
WorkerDrains ==
    /\ worker = "drain" /\ "worker" \notin asleep
    /\ IF permits = 0 THEN worker' = "freeze" /\ UNCHANGED asleep
       ELSE asleep' = asleep \cup {"worker"} /\ UNCHANGED worker
    /\ UNCHANGED <<gate, step, epoch_of, home_health, start, signal, phase, frozen, close,
                   authority>>

\* freeze_and_dispatch_targets and finish_worker; it may fail or unwind.
WorkerFreezes ==
    /\ worker = "freeze" /\ worker' = "exited"
    /\ \/ phase' = "Finished" /\ frozen' = authority
       \/ phase' = "Incomplete" /\ UNCHANGED frozen
    /\ UNCHANGED <<gate, step, epoch_of, home_health, start, signal, close, asleep, authority>>

-----------------------------------------------------------------------------
(* The closing thread, close_inner and its two paths.                        *)

\* Mutant: a failure that is only observed loses to the shutdown.
ShutdownOverObserved ==
    /\ closer = "open" /\ closer' = "cancel"
    /\ election' = IF election = "PersistentFailure" THEN election ELSE "OrdinaryShutdown"
    /\ epoch' = IF election = "Open" THEN epoch + 1 ELSE epoch
    /\ asleep' = {}
    /\ UNCHANGED <<permits, local_failure, step, epoch_of, home_health, start, signal, cut,
                   close_result, home, stop_requested, authority>>

\* close_for_shutdown.
CloseElects ==
    /\ closer = "open" /\ closer' = "cancel"
    /\ election' = IF election \in Failures THEN "PersistentFailure" ELSE "OrdinaryShutdown"
    /\ epoch' = IF election = "Open" THEN epoch + 1 ELSE epoch
    /\ asleep' = {}
    /\ UNCHANGED <<permits, local_failure, step, epoch_of, home_health, start, signal, cut,
                   close_result, home, stop_requested, authority>>

CloseCancelsStart ==
    /\ closer = "cancel" /\ closer' = "runtime"
    /\ start' = IF start = "Waiting" THEN "Cancelled" ELSE start
    /\ UNCHANGED <<gate, step, epoch_of, home_health, signal, cut, close_result, home,
                   stop_requested, asleep, authority>>

\* The runtime interest retires, or close fails and is called again.
RuntimeRetires ==
    /\ closer = "runtime"
    /\ closer' \in {"open", IF election = "OrdinaryShutdown" THEN "stop" ELSE "join"}
    /\ UNCHANGED <<gate, step, epoch_of, home_health, start, signal, cut, close_result, home,
                   stop_requested, asleep, authority>>

\* request_shutdown of the coordinator: the flag, then the wake.
RequestShutdown ==
    /\ \/ closer = "stop" /\ closer' = "wake" /\ stop_requested' = TRUE /\ UNCHANGED signal
       \/ closer = "wake" /\ closer' = "join" /\ signal' = (signal \/ worker # "exited")
          /\ UNCHANGED stop_requested
    /\ UNCHANGED <<gate, step, epoch_of, home_health, start, cut, close_result, home, asleep,
                   authority>>

JoinWorker ==
    /\ closer = "join" /\ worker = "exited" /\ closer' = "drain"
    /\ UNCHANGED <<gate, step, epoch_of, home_health, start, signal, cut, close_result, home,
                   stop_requested, asleep, authority>>

\* What close reports, from the election and the worker's last phase.
Outcome == IF election = "OrdinaryShutdown" THEN "Closed"
           ELSE IF phase \in {"Finished", "Incomplete"} THEN phase ELSE "DisposalError"

\* wait_until_drained, the drop of the home and the result.
CloseDrains ==
    /\ closer = "drain" /\ "closer" \notin asleep
    /\ IF permits = 0
       THEN closer' = "done" /\ home' = FALSE /\ close_result' = Outcome /\ UNCHANGED asleep
       ELSE asleep' = asleep \cup {"closer"} /\ UNCHANGED <<closer, home, close_result>>
    /\ UNCHANGED <<gate, step, epoch_of, home_health, start, signal, cut, stop_requested,
                   authority>>

\* A waiter wakes without a notification and looks again.
SpuriousWake ==
    /\ \E t \in asleep : asleep' = asleep \ {t}
    /\ UNCHANGED <<gate, step, epoch_of, home_health, start, signal, cut, close, authority>>

-----------------------------------------------------------------------------
PermitStep(c) == DropPermit(c) \/ ReleaseAfterLoss(c) \/ Decide(c) \/ ReleasePermit(c)
NotifyStep(n) == ObserveFailure(n) \/ Signal(n)

CommandStep == \E c \in Issued : Authorize(c) \/ CommitPermit(c) \/ PermitStep(c)

WorkerStep == WorkerStarts \/ WorkerReceives \/ WorkerChecks \/ WorkerCuts
              \/ WorkerDrains \/ WorkerFreezes

CloserStep == CloseElects \/ CloseCancelsStart \/ RuntimeRetires \/ RequestShutdown
              \/ JoinWorker \/ CloseDrains

GateNext ==
    \/ CommandStep \/ (\E n \in Notifiers : NotifyStep(n)) \/ MonitorNotifies
    \/ SettleAuthority \/ LocalFailure \/ HomeHealthFails \/ InitialStart
    \/ WorkerStep \/ CloserStep \/ SpuriousWake

GateSpec == GateInit /\ [][GateNext]_gateVars

\* The threads run; a command ends and drops its permit; the runtime retires when
\* it is asked again.  A service need never be closed.
GateFairSpec ==
    /\ GateSpec
    /\ WF_gateVars(WorkerStep)
    /\ \A n \in Notifiers : WF_gateVars(NotifyStep(n))
    /\ \A c \in Issued : WF_gateVars(PermitStep(c))
    /\ WF_gateVars(CloserStep /\ closer # "open")
    /\ SF_gateVars(RuntimeRetires /\ closer' # "open")
    /\ WF_gateVars(CloseElects /\ epoch' = epoch)

-----------------------------------------------------------------------------
(* Permits and their count agree.  The count of live commands is exact at    *)
(* every moment, through drops that take four critical sections              *)
(* (authorizer.rs:112-133, permit.rs:250-301).  A permit keeps its count for *)
(* good only in a service that never started: its start was cancelled, the   *)
(* cut worker left without a cut, and the failure was observed before any    *)
(* shutdown (permit.rs:286-301, notification.rs:39-71, worker.rs:42-131,     *)
(* initial_start.rs:35-39).  And the home outlives every permit              *)
(* (shutdown.rs:142-143, 302-304).                                           *)
KeptOnlyUnstarted ==
    /\ GateTypeOK
    /\ permits = Cardinality({c \in Issued : step[c] \in Counted})
    /\ \A c \in Issued :
          step[c] = "kept" => start = "Cancelled" /\ phase = "Stopped" /\ election \in Failures
    /\ ~home => \A c \in Issued : step[c] \in {"idle", "gone"}

(* The two ends exclude each other: an ordinary close never follows a cut, a *)
(* close that reports the failure finds its cut finished, or failed, or      *)
(* never started, and an elected end is never taken back: from a closed gate *)
(* the only change is from an observed failure to its cut (gate.rs:230-263,  *)
(* 328-346, 361-385, shutdown.rs:113-131).  The cut freezes a service at     *)
(* rest: from the freeze on no command is live, and the authority it froze   *)
(* never changes again (worker.rs:88-121, authorizer.rs:235-252,             *)
(* permit.rs:115-128).                                                       *)
OutcomeMatchesCut ==
    /\ [](/\ close_result = "Closed" => phase = "Stopped" /\ frozen = -1
          /\ close_result = "DisposalError" => start = "Cancelled"
          /\ worker = "freeze" => \A c \in Issued : step[c] \in {"idle", "gone"}
          /\ phase = "Finished" => authority = frozen)
    /\ [][election # "Open" => \/ election' = election
                               \/ /\ election \in Failures
                                  /\ election' = "PersistentFailure"]_gateVars

(* A close that was begun ends, whichever of shutdown and failure it meets   *)
(* and whatever the commands are doing, unless a permit kept its count       *)
(* (shutdown.rs:96-132, permit.rs:286-301), and an observed failure of a     *)
(* started service is cut: the worker always learns of it and drains         *)
(* (worker.rs:42-131).                                                       *)
CloseEnds ==
    /\ closer # "open" ~> closer = "done" \/ \E c \in Issued : step[c] = "kept"
    /\ election \in Failures /\ start = "Released" ~> phase \in {"Finished", "Incomplete"}
=============================================================================
