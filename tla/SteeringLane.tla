---------------------------- MODULE SteeringLane ----------------------------
(* The steering lane of the accepted-input scheduler
   (beryl-app/src/cas_projection/accepted_input_scheduler/: runtime.rs,
   steering.rs, workers.rs, completion.rs, context.rs, handle.rs and signal/),
   with the one delivery attempt of a connection
   (connection/router/active_steering.rs), the delivery worker
   (active_steering/worker.rs) and the durable ready pages it reads
   (syndic-storage/src/read/accepted_ready/).

   The scheduler thread sleeps on a set of wake bits.  A bit of the lane opens a
   pass when no delivery worker is out.  A pass walks the ready sources page by
   page, and hands a ready input to a worker that waits at a launch gate until
   the pass is over.

   Of the worker pool only what steering meets is kept: with no steering permit
   out one is free (WorkerPool!ReserveKept), otherwise the pool may be full.
   The other lanes, fatal failures and the persistent-failure cut are left out,
   and so are the end of a turn and the loss of a target. *)
EXTENDS Integers, Sequences, FiniteSets, FiniteSetsExt

CONSTANTS
    Threads,            \* Syndic threads, in the order of the ready sources
    Connections,
    ConnectionOf,       \* the connection that holds a thread's projection
    Budget,             \* SCHEDULER_PASS_PAGE_BUDGET
    MaxInputs,          \* bound: accepted inputs of a thread
    MaxPublications,    \* bound: source publications
    MaxEpoch            \* bound: renewals of the cancellation lifecycle

\* A bit of the lane opens a pass; CANCELLATION_LIFECYCLE and RECOVERY open a
\* retry pass (opens_steering_pass, opens_retry_pass).  The lane tells its wake
\* reasons apart no further.
Bits == {"pass", "retry"}
Reasons == {"AcceptedReady", "CancellationLifecycle"}
BitOf(reason) == IF reason = "CancellationLifecycle" THEN "retry" ELSE "pass"

Ready == {"admitted", "retryable"}

VARIABLES
    \* the durable accepted routes
    life,           \* [Threads -> Seq]: the lifecycle of each accepted input
    revised,        \* the domain revision is not the one the scan is bound to
    changed,        \* the scan's current source record is not the one it loaded
    \* the connections' routers
    targets,        \* threads whose exact target is registered and durable
    publishing,     \* threads with a source publication in flight
    publications,   \* source publications begun
    attempts,       \* connections with an active steering attempt
    waiters,        \* connections with active_steering_attempt_waiter
    \* the wake signal and the cancellation lifecycle
    pending, shutdown,
    owed,           \* wakes decided on and not yet sent
    epoch,          \* the current cancellation token
    cancelled,      \* tokens that are cancelled
    armed,          \* the pool holds a steering demand
    \* the scheduler thread
    pc, batch, stopping, scan, candidate, budget, retry, reopen, outcome,
    records,        \* threads whose worker is in the scheduler's worker list
    joining,        \* completions drained and not yet joined
    \* the delivery workers, one per thread at a time
    worker,         \* [Threads -> its program counter]
    job,            \* [Threads -> the input and token it was given]
    launched,       \* threads whose launch gate is open
    parkedIn,       \* [Threads -> Seq]: the token under which an input was parked
    completions

routes == <<life, revised, changed>>
router == <<targets, publishing, publications, attempts, waiters>>
signal == <<pending, shutdown, owed, epoch, cancelled, armed>>
passVars == <<batch, stopping, scan, candidate, budget, retry, reopen, outcome>>
workerVars == <<worker, job, launched, parkedIn, completions>>
vars == <<routes, router, signal, pc, passVars, records, joining, workerVars>>

NoScan == [kept |-> FALSE, bound |-> FALSE, after |-> 0, source |-> 0,
           more |-> FALSE, cursor |-> 0, exhausted |-> FALSE]
NoJob == [input |-> 0, epoch |-> 0, parked |-> FALSE]
DefaultScan == [NoScan EXCEPT !.kept = TRUE]

TypeOK ==
    /\ life \in [Threads -> UNION {[1..n -> Ready \cup {"delivering", "done"}] : n \in 0..MaxInputs}]
    /\ targets \subseteq Threads /\ publishing \subseteq targets
    /\ publications \in 0..MaxPublications
    /\ attempts \subseteq Connections /\ waiters \subseteq Connections
    /\ pending \subseteq Bits /\ owed \subseteq Reasons
    /\ epoch \in 0..MaxEpoch /\ cancelled \subseteq 0..MaxEpoch
    /\ {revised, changed, shutdown, armed, stopping, retry, reopen} \subseteq BOOLEAN
    /\ pc \in {"wait", "drain", "join", "open", "fill", "scan", "point", "lookup", "attempt",
               "stop", "joinall", "done"}
    /\ batch \subseteq Bits /\ budget \in 0..Budget /\ candidate \in 0..MaxInputs
    /\ scan.after \in Threads \cup {0} /\ scan.source \in Threads \cup {0}
    /\ scan.cursor \in 0..MaxInputs
    /\ outcome \in {"none", "Exhausted", "Capacity", "Attempt", "Stale", "Yield"}
    /\ records \subseteq Threads /\ joining \subseteq Threads
    /\ worker \in [Threads -> {"none", "gated", "begin", "deliver", "settle", "finish",
                               "publish", "release", "exit"}]
    /\ job \in [Threads -> [input : 0..MaxInputs, epoch : 0..MaxEpoch, parked : BOOLEAN]]
    /\ launched \subseteq Threads /\ completions \subseteq Threads

Init ==
    /\ life = [t \in Threads |-> <<>>]
    /\ revised = FALSE /\ changed = FALSE
    /\ targets = {} /\ publishing = {} /\ publications = 0
    /\ attempts = {} /\ waiters = {}
    /\ pending = {"retry"} /\ shutdown = FALSE /\ owed = {}
    /\ epoch = 0 /\ cancelled = {} /\ armed = FALSE
    /\ pc = "wait" /\ batch = {} /\ stopping = FALSE /\ scan = NoScan /\ candidate = 0
    /\ budget = Budget /\ retry = FALSE /\ reopen = FALSE /\ outcome = "none"
    /\ records = {} /\ joining = {}
    /\ worker = [t \in Threads |-> "none"]
    /\ job = [t \in Threads |-> NoJob]
    /\ launched = {} /\ parkedIn = [t \in Threads |-> <<>>] /\ completions = {}
-----------------------------------------------------------------------------
\* The marks of a scan that starts over.
Rescan(next) ==
    /\ revised' = (revised /\ next.bound)
    /\ changed' = (changed /\ next.source # 0)

\* A Syndic commit that changes thread t's route.  It takes a new domain
\* revision and gives t's gate and generation new revisions.  No revision comes
\* back, so of the ones a scan remembers it is enough to know they have passed.
Commit(t, routed) ==
    /\ life' = [life EXCEPT ![t] = routed]
    /\ revised' = (revised \/ scan.bound)
    /\ changed' = (changed \/ scan.source = t)

\* The threads with a ready source (ready_retryable_count > 0).
Sources == {t \in Threads : \E o \in DOMAIN life[t] : life[t][o] \in Ready}

\* An accepted submission commits, then wakes the scheduler (wake_submission).
Accept(t) ==
    /\ Len(life[t]) < MaxInputs
    /\ "AcceptedReady" \notin owed
    /\ Commit(t, Append(life[t], "admitted"))
    /\ parkedIn' = [parkedIn EXCEPT ![t] = Append(@, 0)]
    /\ owed' = owed \cup {"AcceptedReady"}
    /\ UNCHANGED <<router, pending, shutdown, epoch, cancelled, armed, pc, passVars, records,
                   joining, worker, job, launched, completions>>

\* wake: the bit joins the pending set.
SendWake(reason) ==
    /\ reason \in owed
    /\ owed' = owed \ {reason}
    /\ pending' = pending \cup {BitOf(reason)}
    /\ UNCHANGED <<routes, router, shutdown, epoch, cancelled, armed, pc, passVars, records,
                   joining, workerVars>>

\* A turn's activation is durable: its target becomes ready for steering.
TargetReady(t) ==
    /\ t \notin targets
    /\ targets' = targets \cup {t}
    /\ pending' = pending \cup {"pass"}
    /\ UNCHANGED <<routes, publishing, publications, attempts, waiters, owed, shutdown, epoch,
                   cancelled, armed, pc, passVars, records, joining, workerVars>>

\* admit_source_publication_locked for a turn under way.
BeginPublication(t) ==
    /\ t \in targets \ publishing
    /\ publications < MaxPublications
    /\ publications' = publications + 1
    /\ publishing' = publishing \cup {t}
    /\ UNCHANGED <<routes, targets, attempts, waiters, signal, pc, passVars, records, joining,
                   workerVars>>

\* finish_source_publication_locked: the source commit is durable.  The target
\* was ready before, so became_ready is false and no wake follows.
FinishPublication(t) ==
    /\ t \in publishing
    /\ publishing' = publishing \ {t}
    /\ revised' = (revised \/ scan.bound)
    /\ UNCHANGED <<life, changed, targets, publications, attempts, waiters, signal, pc, passVars,
                   records, joining, workerVars>>

\* A permit of another role comes back while steering has left a demand.
PoolRelease ==
    /\ armed
    /\ armed' = FALSE
    /\ pending' = pending \cup {"pass"}
    /\ UNCHANGED <<routes, router, shutdown, owed, epoch, cancelled, pc, passVars, records,
                   joining, workerVars>>

\* cancel_current_lifecycle and renew_cancellation_lifecycle.
Cancel ==
    /\ epoch \notin cancelled
    /\ cancelled' = cancelled \cup {epoch}
    /\ pending' = pending \cup {"pass"}
    /\ UNCHANGED <<routes, router, owed, shutdown, epoch, armed, pc, passVars, records,
                   joining, workerVars>>

Renew ==
    /\ epoch < MaxEpoch
    /\ "CancellationLifecycle" \notin owed
    /\ epoch' = epoch + 1
    /\ owed' = owed \cup {"CancellationLifecycle"}
    /\ UNCHANGED <<routes, router, pending, shutdown, cancelled, armed, pc, passVars, records,
                   joining, workerVars>>

\* request_shutdown.
RequestShutdown ==
    /\ ~shutdown
    /\ shutdown' = TRUE
    /\ cancelled' = cancelled \cup {epoch}
    /\ UNCHANGED <<routes, router, pending, owed, epoch, armed, pc, passVars, records, joining,
                   workerVars>>
-----------------------------------------------------------------------------
\* wait: takes every pending bit.
Wait ==
    /\ pc = "wait"
    /\ pending # {} \/ shutdown
    /\ batch' = pending /\ stopping' = shutdown
    /\ pending' = {}
    /\ pc' = "drain"
    /\ UNCHANGED <<routes, router, shutdown, owed, epoch, cancelled, armed, scan, candidate,
                   budget, retry, reopen, outcome, records, joining, workerVars>>

\* drain_completions: takes the published completions, then joins each worker.
Drain ==
    /\ pc = "drain"
    /\ joining' = completions /\ completions' = {}
    /\ pc' = "join"
    /\ UNCHANGED <<routes, router, signal, passVars, records, worker, job, launched, parkedIn>>

\* join and apply_worker_disposition: a parked delivery ends the retry pass.
JoinWorker(t) ==
    /\ worker[t] = "exit"
    /\ worker' = [worker EXCEPT ![t] = "none"]
    /\ launched' = launched \ {t}
    /\ records' = records \ {t}
    /\ retry' = (retry /\ ~job[t].parked)
    /\ scan' = IF job[t].parked THEN NoScan ELSE scan
    /\ Rescan(scan')
    /\ job' = [job EXCEPT ![t] = NoJob]
    /\ UNCHANGED <<life, router, signal, batch, stopping, candidate, budget, reopen, outcome,
                   parkedIn>>

Join ==
    /\ pc = "join"
    /\ \E t \in joining : JoinWorker(t) /\ joining' = joining \ {t}
    /\ UNCHANGED <<pc, completions>>

\* Mutant: a retry wake that meets an active worker is forgotten.
ReopeningNow == "retry" \in batch

\* retry_reopen_pending, with the batch at hand.
Reopening == reopen \/ "retry" \in batch

\* The scheduler's turn: it stops, opens a pass, or sleeps again.
Open ==
    /\ pc = "join"
    /\ joining = {}
    /\ LET opens == ~stopping /\ records = {} /\ batch # {}
       IN /\ pc' = IF stopping THEN "joinall" ELSE IF opens THEN "fill" ELSE "wait"
          /\ reopen' = (Reopening /\ ~opens)
          /\ retry' = (retry \/ (opens /\ Reopening))
          /\ scan' = IF opens /\ (Reopening \/ ~scan.kept) THEN DefaultScan ELSE scan
          /\ Rescan(scan')
    /\ batch' = {} /\ stopping' = FALSE
    /\ UNCHANGED <<life, router, signal, candidate, budget, outcome, records, joining,
                   workerVars>>

Stop(why) == pc' = "stop" /\ outcome' = why

\* finish_source.
FinishedSource == [scan EXCEPT !.source = 0, !.cursor = 0, !.more = FALSE,
                               !.after = IF scan.more THEN scan.source ELSE @,
                               !.exhausted = ~scan.more]

\* fill_batch, the top of its loop: shutdown and cancellation end the pass, and
\* the next delivery takes a steering permit or leaves a demand with the pool.
Fill ==
    /\ pc = "fill"
    /\ \/ /\ shutdown \/ epoch \in cancelled
          /\ Stop("Exhausted")
          /\ UNCHANGED armed
       \/ /\ ~shutdown /\ epoch \notin cancelled
          /\ records # {}
          /\ armed' = TRUE
          /\ Stop("Capacity")
       \/ /\ ~shutdown /\ epoch \notin cancelled
          /\ pc' = "scan"
          /\ UNCHANGED <<armed, outcome>>
    /\ UNCHANGED <<routes, router, pending, shutdown, owed, epoch, cancelled, batch, stopping,
                   scan, candidate, budget, retry, reopen, records, joining, workerVars>>

scanOnly == <<life, router, signal, batch, stopping, retry, reopen, records, joining, workerVars>>

ScanEnds ==
    /\ pc = "scan"
    /\ scan.exhausted
    /\ Stop("Exhausted")
    /\ UNCHANGED <<scanOnly, routes, scan, candidate, budget>>

\* load_source binds a fresh scan to the current domain revision.
ReadRevision ==
    /\ pc = "scan"
    /\ ~scan.exhausted /\ scan.source = 0 /\ ~scan.bound
    /\ scan' = [scan EXCEPT !.bound = TRUE]
    /\ UNCHANGED <<scanOnly, routes, pc, candidate, budget, outcome>>

\* The page budget of the pass is spent: it yields.
BudgetSpent ==
    /\ pc = "scan"
    /\ ~scan.exhausted /\ (scan.source = 0 => scan.bound)
    /\ budget = 0
    /\ Stop("Yield")
    /\ UNCHANGED <<scanOnly, routes, scan, candidate, budget>>

\* accepted_ready_source_page: one page, fenced by the scan's revision.
SourcePage ==
    /\ budget' = budget - 1
    /\ LET left == {t \in Sources : t > scan.after}
       IN \/ /\ revised
             /\ Stop("Stale")
             /\ UNCHANGED scan
          \/ /\ ~revised /\ left = {}
             /\ scan' = [scan EXCEPT !.exhausted = TRUE]
             /\ Stop("Exhausted")
          \/ /\ ~revised /\ left # {}
             /\ scan' = [scan EXCEPT !.source = Min(left), !.more = Cardinality(left) > 1]
             /\ UNCHANGED <<pc, outcome>>
    /\ UNCHANGED <<scanOnly, routes, candidate>>

\* Mutant: a source page is read without a page of the budget.
LoadUnmetered ==
    /\ pc = "scan"
    /\ ~scan.exhausted /\ scan.source = 0 /\ scan.bound
    /\ SourcePage

\* load_source: the next ready source, when a page is left to the pass.
LoadSource ==
    /\ pc = "scan"
    /\ ~scan.exhausted /\ scan.source = 0 /\ scan.bound /\ budget > 0
    /\ SourcePage

\* accepted_ready_candidate_page: one ordinal of the current source.
CandidatePage ==
    /\ pc = "scan"
    /\ ~scan.exhausted /\ scan.source # 0 /\ budget > 0
    /\ budget' = budget - 1
    /\ LET t == scan.source
           o == scan.cursor + 1
           last == o = Len(life[t])
           wanted == life[t][o] = "admitted" \/ (life[t][o] = "retryable" /\ retry)
       IN \/ /\ changed
             /\ Stop("Stale")
             /\ UNCHANGED <<scan, candidate>>
          \/ /\ ~changed /\ ~wanted
             /\ scan' = IF last THEN FinishedSource ELSE [scan EXCEPT !.cursor = o]
             /\ UNCHANGED <<pc, outcome, candidate>>
          \/ /\ ~changed /\ wanted
             /\ scan' = [scan EXCEPT !.cursor = IF last THEN 0 ELSE o]
             /\ candidate' = o
             /\ pc' = "point"
             /\ UNCHANGED outcome
    /\ Rescan(scan')
    /\ UNCHANGED scanOnly

\* ready_steering_input: the candidate is read again and must not have changed.
PointRead ==
    /\ pc = "point"
    /\ IF changed
       THEN Stop("Stale")
       ELSE pc' = "lookup" /\ UNCHANGED outcome
    /\ UNCHANGED <<scanOnly, routes, scan, candidate, budget>>
-----------------------------------------------------------------------------
\* validate_target: a publication in flight closes the target.
ValidTarget(t) == t \in targets \ publishing

LookupTarget ==
    /\ pc = "lookup"
    /\ IF ValidTarget(scan.source)
       THEN pc' = "attempt" /\ UNCHANGED scan
       ELSE pc' = "fill" /\ scan' = FinishedSource
    /\ Rescan(scan')
    /\ UNCHANGED <<scanOnly, candidate, budget, outcome>>

\* Mutant: an active attempt does not make the connection busy.
NeverBusy(c) == FALSE

\* A connection carries one steering attempt at a time.
Busy(c) == c \in attempts

\* Mutant: workers get the token the service started with.
FirstToken == 0

\* ActiveSteeringCancellationLifecycle::snapshot.
Token == epoch

\* acquire_attempt and spawn_delivery: one attempt per connection; the worker
\* gets the current token and waits for the launch gate.
AcquireAttempt ==
    /\ pc = "attempt"
    /\ LET t == scan.source
           c == ConnectionOf[t]
       IN \/ /\ Busy(c)
             /\ waiters' = waiters \cup {c}
             /\ Stop("Attempt")
             /\ UNCHANGED <<attempts, scan, records, worker, job>>
          \/ /\ ~Busy(c) /\ ~ValidTarget(t)
             /\ scan' = FinishedSource
             /\ pc' = "fill"
             /\ UNCHANGED <<attempts, waiters, outcome, records, worker, job>>
          \/ /\ ~Busy(c) /\ ValidTarget(t)
             /\ attempts' = attempts \cup {c}
             /\ records' = records \cup {t}
             /\ worker' = [worker EXCEPT ![t] = "gated"]
             /\ job' = [job EXCEPT ![t] = [input |-> candidate, epoch |-> Token,
                                           parked |-> FALSE]]
             /\ pc' = "fill"
             /\ UNCHANGED <<waiters, scan, outcome>>
    /\ Rescan(scan')
    /\ UNCHANGED <<life, targets, publishing, publications, signal, batch, stopping, candidate,
                   budget, retry, reopen, joining, launched, parkedIn, completions>>

\* run_pass after fill_batch: opens the launch gate and settles the scan.
Spawned == {t \in Threads : worker[t] = "gated"}

\* Mutant: a stale pass leaves its restart to the change that made it stale.
YieldWakes == {"Yield"}

\* The outcomes after which the scheduler wakes itself.
SelfWakes == {"Stale", "Yield"}

EndPass ==
    /\ pc = "stop"
    /\ launched' = launched \cup Spawned
    /\ scan' = CASE outcome = "Exhausted" -> NoScan
                 [] outcome \in {"Attempt", "Stale"} -> DefaultScan
                 [] outcome \in {"Capacity", "Yield"} -> scan
    /\ retry' = (retry /\ outcome # "Exhausted")
    /\ pending' = IF outcome \in SelfWakes THEN pending \cup {"pass"} ELSE pending
    /\ outcome' = "none" /\ candidate' = 0 /\ budget' = Budget
    /\ Rescan(scan')
    /\ pc' = "wait"
    /\ UNCHANGED <<life, router, shutdown, owed, epoch, cancelled, armed, batch, stopping,
                   reopen, records, joining, worker, job, parkedIn, completions>>

\* Mutant: a panicked pass leaves its launch gate closed.
QuiesceGated ==
    /\ pc \in {"fill", "scan", "point", "lookup", "attempt"}
    /\ cancelled' = cancelled \cup {epoch}
    /\ shutdown' = TRUE
    /\ pc' = "joinall"
    /\ UNCHANGED <<routes, router, pending, owed, epoch, armed, passVars, records, joining,
                   workerVars>>

\* The pass panics: emergency_quiesce cancels, opens the gate and joins.
EmergencyQuiesce ==
    /\ pc \in {"fill", "scan", "point", "lookup", "attempt"}
    /\ cancelled' = cancelled \cup {epoch}
    /\ shutdown' = TRUE
    /\ launched' = launched \cup Spawned
    /\ pc' = "joinall"
    /\ UNCHANGED <<routes, router, pending, owed, epoch, armed, passVars, records, joining,
                   worker, job, parkedIn, completions>>

\* join_all_workers.
JoinAll ==
    /\ pc = "joinall"
    /\ \E t \in records : JoinWorker(t)
    /\ UNCHANGED <<pc, joining, completions>>

\* Mutant: only the workers that have completed are joined.
ExitEarly ==
    /\ pc = "joinall"
    /\ \A t \in records : worker[t] # "exit"
    /\ completions' = {}
    /\ pc' = "done"
    /\ UNCHANGED <<routes, router, signal, passVars, records, joining, worker, job, launched,
                   parkedIn>>

Exit ==
    /\ pc = "joinall"
    /\ records = {}
    /\ completions' = {}
    /\ pc' = "done"
    /\ UNCHANGED <<routes, router, signal, passVars, records, joining, worker, job, launched,
                   parkedIn>>
-----------------------------------------------------------------------------
\* The delivery worker of thread t: behind the gate it claims its input.
Launch(t) ==
    /\ worker[t] = "gated"
    /\ t \in launched
    /\ worker' = [worker EXCEPT ![t] = "begin"]
    /\ UNCHANGED <<routes, router, signal, pc, passVars, records, joining, job, launched,
                   parkedIn, completions>>

Begin(t) ==
    /\ worker[t] = "begin"
    /\ Commit(t, [life[t] EXCEPT ![job[t].input] = "delivering"])
    /\ worker' = [worker EXCEPT ![t] = "deliver"]
    /\ UNCHANGED <<router, signal, pc, passVars, records, joining, job, launched, parkedIn,
                   completions>>

\* Before the dispatch a cancelled token returns the input as retryable.
RetryBeforeDispatch(t) ==
    /\ worker[t] = "deliver"
    /\ job[t].epoch \in cancelled
    /\ Commit(t, [life[t] EXCEPT ![job[t].input] = "retryable"])
    /\ job' = [job EXCEPT ![t].parked = TRUE]
    /\ parkedIn' = [parkedIn EXCEPT ![t][job[t].input] = job[t].epoch]
    /\ worker' = [worker EXCEPT ![t] = "finish"]
    /\ UNCHANGED <<router, signal, pc, passVars, records, joining, launched, completions>>

Dispatch(t) ==
    /\ worker[t] = "deliver"
    /\ job[t].epoch \notin cancelled
    /\ worker' = [worker EXCEPT ![t] = "settle"]
    /\ UNCHANGED <<routes, router, signal, pc, passVars, records, joining, job, launched,
                   parkedIn, completions>>

Settle(t) ==
    /\ worker[t] = "settle"
    /\ Commit(t, [life[t] EXCEPT ![job[t].input] = "done"])
    /\ worker' = [worker EXCEPT ![t] = "finish"]
    /\ UNCHANGED <<router, signal, pc, passVars, records, joining, job, launched, parkedIn,
                   completions>>

\* finish_active_steering_attempt: frees the connection and wakes a waiter.
FinishAttempt(t) ==
    /\ worker[t] = "finish"
    /\ LET c == ConnectionOf[t]
       IN /\ attempts' = attempts \ {c}
          /\ waiters' = waiters \ {c}
          /\ pending' = IF c \in waiters THEN pending \cup {"pass"} ELSE pending
    /\ worker' = [worker EXCEPT ![t] = "publish"]
    /\ UNCHANGED <<routes, targets, publishing, publications, shutdown, owed, epoch, cancelled,
                   armed, pc, passVars, records, joining, job, launched, parkedIn, completions>>

\* completions.publish.
PublishCompletion(t) ==
    /\ worker[t] = "publish"
    /\ completions' = completions \cup {t}
    /\ worker' = [worker EXCEPT ![t] = "release"]
    /\ UNCHANGED <<routes, router, signal, pc, passVars, records, joining, job, launched,
                   parkedIn>>

\* Mutant: the permit was never committed, so its release is quiet.
ReleaseQuietly(t) ==
    /\ worker[t] = "release"
    /\ worker' = [worker EXCEPT ![t] = "exit"]
    /\ UNCHANGED <<routes, router, signal, pc, passVars, records, joining, job, launched,
                   parkedIn, completions>>

\* The worker's permit drops last; a committed steering permit always wakes.
ReleasePermit(t) ==
    /\ worker[t] = "release"
    /\ pending' = pending \cup {"pass"}
    /\ armed' = FALSE
    /\ worker' = [worker EXCEPT ![t] = "exit"]
    /\ UNCHANGED <<routes, router, shutdown, owed, epoch, cancelled, pc, passVars, records,
                   joining, job, launched, parkedIn, completions>>

WorkerStep(t) ==
    \/ Launch(t) \/ Begin(t) \/ RetryBeforeDispatch(t) \/ Dispatch(t) \/ Settle(t)
    \/ FinishAttempt(t) \/ PublishCompletion(t) \/ ReleasePermit(t)

\* A pass that does not panic.
SchedulerStep ==
    \/ Wait \/ Drain \/ Join \/ Open \/ Fill
    \/ ScanEnds \/ ReadRevision \/ BudgetSpent \/ LoadSource \/ CandidatePage \/ PointRead
    \/ LookupTarget \/ AcquireAttempt \/ EndPass \/ JoinAll \/ Exit

Next ==
    \/ \E t \in Threads : Accept(t)
    \/ \E reason \in Reasons : SendWake(reason)
    \/ \E t \in Threads : TargetReady(t)
    \/ \E t \in Threads : BeginPublication(t)
    \/ \E t \in Threads : FinishPublication(t)
    \/ PoolRelease
    \/ Cancel
    \/ Renew
    \/ RequestShutdown
    \/ EmergencyQuiesce
    \/ SchedulerStep
    \/ \E t \in Threads : WorkerStep(t)

Spec == Init /\ [][Next]_vars

\* The scheduler, the workers and whoever owes a wake are threads that run on;
\* a provider's source publication ends.
FairSpec ==
    /\ Spec
    /\ WF_vars(SchedulerStep)
    /\ \A t \in Threads : WF_vars(WorkerStep(t))
    /\ \A reason \in Reasons : WF_vars(SendWake(reason))
    /\ \A t \in Threads : WF_vars(FinishPublication(t))
-----------------------------------------------------------------------------
Delivering(t) == worker[t] \in {"gated", "begin", "deliver", "settle"}

(* An input a worker claims is still the ready input the scan selected, and the
   scheduler never starts a second delivery for a thread that has one: no input
   is delivered twice, whatever the scan remembers of earlier pages
   (steering.rs:303-380, active_steering.rs:243-306). *)
ClaimIsReady ==
    /\ \A t \in Threads : worker[t] \in {"gated", "begin"} => life[t][job[t].input] \in Ready
    /\ (pc = "attempt" /\ ~Busy(ConnectionOf[scan.source])) => ~Delivering(scan.source)

(* The wire carries one delivery of a connection at a time
   (active_steering.rs:243-306). *)
OneDelivery ==
    \A t, u \in Threads :
        (/\ t # u /\ ConnectionOf[t] = ConnectionOf[u]
         /\ Delivering(t))
            => ~Delivering(u)

(* Whatever ends a pass, no worker is left behind a closed launch gate once the
   scheduler waits for wakes or joins (steering.rs:241-252, runtime.rs:221-252). *)
GateOpens ==
    pc \in {"wait", "drain", "join", "joinall", "done"} => Spawned \subseteq launched

(* When the scheduler sleeps with nothing pending, every worker it has not
   joined has yet to release its permit, so another wake is to come: a finished
   delivery cannot keep the lane shut (workers.rs:44-85, steering.rs:417-461). *)
NoUnjoinedSleep ==
    (pc = "wait" /\ pending = {} /\ ~shutdown) =>
        \A t \in records : worker[t] # "exit"

(* A parked input is claimed again only under a cancellation token renewed
   since: a retryable input is never redelivered within the lifecycle that
   parked it (runtime.rs:82-92, workers.rs:108-117, predispatch.rs:105-146). *)
RetryIsFresh ==
    [][\A t \in Threads :
        (Begin(t) /\ life[t][job[t].input] = "retryable")
            => job[t].epoch > parkedIn[t][job[t].input]]_vars

(* The scheduler thread ends with every worker joined and no attempt held
   (runtime.rs:172, 221-246). *)
DoneIsQuiet ==
    pc = "done" => attempts = {} /\ \A t \in Threads : worker[t] = "none"

Is(t, o, state) == o \in DOMAIN life[t] /\ life[t][o] = state

(* An input admitted for a registered target is tried, unless its lifecycle is
   cancelled or the scheduler shut down: no interleaving of wakes, passes and
   workers leaves it behind (runtime.rs:85-107, steering.rs:241-301). *)
AdmittedIsTried ==
    \A t \in Threads : \A o \in 1..MaxInputs :
        (t \in targets /\ Is(t, o, "admitted"))
            ~> (~Is(t, o, "admitted") \/ epoch \in cancelled \/ shutdown)

(* A parked input is tried again once the lifecycle is renewed, also when the
   renewal arrives while a worker is out (runtime.rs:82-92). *)
ParkedIsRetried ==
    \A t \in Threads : \A o \in 1..MaxInputs :
        (Is(t, o, "retryable") /\ epoch \notin cancelled)
            ~> (~Is(t, o, "retryable") \/ epoch \in cancelled \/ shutdown)

(* A shutdown, or the quiescing of a panicked pass, ends with the scheduler
   thread done (runtime.rs:79-81, 172, 221-246). *)
ShutdownEnds == shutdown ~> pc = "done"
=============================================================================
