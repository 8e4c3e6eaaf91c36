--------------------------- MODULE HomeCoherence ---------------------------
(* crates/beryl-home-store/src/coherence.rs: an election that publishes      *)
(* in-memory state only over a quiet and healthy home.  It tries three locks *)
(* in turn, the mutation boundary's, the reconciliation registry's and the   *)
(* health gate's, checks under each and keeps all three while its callback   *)
(* runs.  Against it run the commands of writer.rs, which cross the same     *)
(* three locks one at a time, their reconciliation, failures of the home and *)
(* the steps of same-home recovery.                                          *)
(*                                                                           *)
(* Recovery replaces the store: every store has a writer's mutex and a       *)
(* mutation boundary of its own, and shares the registry and the gate with   *)
(* the stores before it.  Service references (store/service_reference.rs)    *)
(* keep a replaced store in use, so commands and elections may go on through *)
(* any store there ever was, before, during and after the recoveries.        *)
(*                                                                           *)
(* The critical sections of commands are single steps; only an election      *)
(* holds a lock across steps.  The observer registrations of an observation  *)
(* are in MutationObservation, the flights of a scope in                     *)
(* ReconciliationRegistry, the limit of the gate's admissions in HealthGate. *)
(* The owner of a store whose recovery failed gets a fresh writer's mutex:   *)
(* it would serialise commands that find no database, and is left out.       *)
EXTENDS Integers, TLC

CONSTANTS
    Commands,       \* threads that execute commands, one registry scope each
    Electors,       \* callers of try_elect_coherent and its observed form
    MaxRevision,    \* the limit of the u64 revision
    MaxVersion,     \* the bound on storage commits
    MaxGeneration,  \* the limit of the generation counter
    MaxStore        \* the bound on stores, one per reopening

Exhausted == -1     \* MutationState::revision = None
None == -1          \* nothing observed, nothing read
Free == 0           \* nobody holds the lock
NoStore == 0        \* no call in progress, nothing observed

Stores == 1..MaxStore
Callers == Permutations(Commands)    \* the symmetry of the commands

ASSUME CoherenceAssumption ==
    /\ MaxRevision \in Nat /\ MaxVersion \in Nat
    /\ MaxGeneration \in Nat \ {0} /\ MaxStore \in Nat \ {0}
    /\ Free \notin Electors

VARIABLES
    store, admitted,    \* the last store opened; each store's admitted_generation
    revision, active, closed,   \* the boundary of each store
    poisoned,       \* the writer's mutex of each store
    scope,          \* the registry: the state of each command's scope
    state, generation,          \* the health gate
    recovery,       \* the steps of recover_same_home and of its candidate
    guard, held,    \* the boundaries' locks and the shared ones: Free, or the elector
    pc,             \* each command's position in execute_serialized
    of, access,     \* the store it is called on, and how it is admitted
    outcome,        \* what its storage work came to
    doubt,          \* history: its effect is in doubt, with or without a caller
    version, durable, stamp,    \* records visible, last known durable, ever written
    epc,            \* each elector: the last lock of its election
    at, expected,   \* the store it elects on, and the generation it expects
    seen,           \* the store and revision of its observation
    fact            \* the version it read since it observed

boundary == <<store, admitted, revision, active, closed, poisoned>>
health == <<state, generation, recovery>>
locks == <<guard, held>>
command == <<pc, of, access, outcome, doubt>>
records == <<version, durable, stamp>>
elector == <<epc, at, expected, seen, fact>>
vars == <<boundary, scope, health, locks, command, records, elector>>

Locks == {"registry", "health"}
Admitted == {"admitted", "stored", "settling", "settled", "missing", "panicked", "unwinding"}
Writing == Admitted \cup {"begun", "refused", "dropping", "finishing"}
Unseen == [store |-> NoStore, revision |-> None]

\* One type invariant: the authorities of each store, the commands, the electors.
TypeOK ==
    /\ store \in Stores /\ admitted \in [Stores -> 0..MaxGeneration]
    /\ revision \in [Stores -> 0..MaxRevision \cup {Exhausted}]
    /\ active \in [Stores -> BOOLEAN] /\ closed \in [Stores -> BOOLEAN]
    /\ poisoned \in [Stores -> BOOLEAN]
    /\ scope \in [Commands -> {"Vacant", "Reserved", "Verifying"}]
    /\ state \in {"Healthy", "Failed", "Reopening"} /\ generation \in 1..MaxGeneration
    /\ recovery \in {"none", "draining", "reopened", "candidate", "validated"}
    /\ guard \in [Stores -> Electors \cup {Free}]
    /\ held \in [Locks -> Electors \cup {Free}]
    /\ pc \in [Commands -> {"idle", "reserved", "custody"} \cup Writing]
    /\ of \in [Commands -> Stores \cup {NoStore}]
    /\ access \in [Commands -> {"Ordinary", "Candidate"}]
    /\ outcome \in [Commands -> {"none", "NotCommitted", "Committed", "Indeterminate"}]
    /\ doubt \in [Commands -> {"none", "open", "orphan"}]
    /\ version \in 0..MaxVersion /\ durable \in 0..MaxVersion /\ stamp \in 0..MaxVersion
    /\ epc \in [Electors -> {"idle", "boundary", "registry", "electing"}]
    /\ at \in [Electors -> Stores \cup {NoStore}]
    /\ expected \in [Electors -> 0..MaxGeneration]
    /\ seen \in [Electors -> [store : Stores \cup {NoStore},
                              revision : 0..MaxRevision \cup {None}]]
    /\ fact \in [Electors -> 0..MaxVersion \cup {None}]

Init ==
    /\ store = 1 /\ admitted = [s \in Stores |-> IF s = 1 THEN 1 ELSE 0]
    /\ revision = [s \in Stores |-> 0] /\ active = [s \in Stores |-> FALSE]
    /\ closed = [s \in Stores |-> FALSE] /\ poisoned = [s \in Stores |-> FALSE]
    /\ scope = [c \in Commands |-> "Vacant"]
    /\ state = "Healthy" /\ generation = 1 /\ recovery = "none"
    /\ guard = [s \in Stores |-> Free] /\ held = [l \in Locks |-> Free]
    /\ pc = [c \in Commands |-> "idle"]
    /\ of = [c \in Commands |-> NoStore]
    /\ access = [c \in Commands |-> "Ordinary"]
    /\ outcome = [c \in Commands |-> "none"]
    /\ doubt = [c \in Commands |-> "none"]
    /\ version = 0 /\ durable = 0 /\ stamp = 0
    /\ epc = [e \in Electors |-> "idle"]
    /\ at = [e \in Electors |-> NoStore] /\ expected = [e \in Electors |-> 0]
    /\ seen = [e \in Electors |-> Unseen]
    /\ fact = [e \in Electors |-> None]

Goto(c, label) == pc' = [pc EXCEPT ![c] = label]
Unlocked(l) == held[l] = Free
Calls(c, s, a) == of' = [of EXCEPT ![c] = s] /\ access' = [access EXCEPT ![c] = a]
Returns(c) == Calls(c, NoStore, "Ordinary")
NoAdmission == \A c \in Commands : pc[c] \notin Admitted
NoCandidateCall == \A c \in Commands : access[c] = "Ordinary"

-----------------------------------------------------------------------------
(* Commands: execute_serialized.                                             *)

(* reserve_reconciliation, before the writer's mutex.  The command goes      *)
(* through any store, or through recovery_access, which borrows the          *)
(* candidate.                                                                *)
Reserve(c) ==
    /\ pc[c] = "idle" /\ scope[c] = "Vacant" /\ Unlocked("registry")
    /\ \/ \E s \in 1..store : Calls(c, s, "Ordinary")
       \/ recovery = "candidate" /\ Calls(c, store, "Candidate")
    /\ scope' = [scope EXCEPT ![c] = "Reserved"]
    /\ Goto(c, "reserved")
    /\ UNCHANGED <<boundary, health, locks, outcome, doubt, records, elector>>

(* StoreOperationAccess::admit: admit_generation, or admit_candidate.        *)
Admissible(c) ==
    /\ state = IF access[c] = "Ordinary" THEN "Healthy" ELSE "Reopening"
    /\ admitted[of[c]] = generation

(* A command cancelled, reentrant or facing a poisoned mutex returns before  *)
(* it mutates; the poisoned mutex fails the home that would admit it.        *)
Abandon(c) ==
    /\ pc[c] = "reserved" /\ Unlocked("registry")
    /\ scope' = [scope EXCEPT ![c] = "Vacant"]
    /\ Goto(c, "idle") /\ Returns(c)
    /\ \/ UNCHANGED state
       \/ poisoned[of[c]] /\ Unlocked("health") /\ Admissible(c) /\ state' = "Failed"
    /\ UNCHANGED <<boundary, generation, recovery, locks, outcome, doubt, records, elector>>

CheckedNext(r) == IF r = Exhausted \/ r = MaxRevision THEN Exhausted ELSE r + 1

(* acquire_writer: the writer's mutex of the store, then                     *)
(* MutationBoundary::begin, on a closed boundary too.                        *)
Begin(c) ==
    /\ pc[c] = "reserved" /\ ~poisoned[of[c]] /\ guard[of[c]] = Free
    /\ \A d \in Commands : of[d] = of[c] => pc[d] \notin Writing
    /\ revision' = [revision EXCEPT ![of[c]] = CheckedNext(@)]
    /\ active' = [active EXCEPT ![of[c]] = TRUE]
    /\ Goto(c, "begun")
    /\ UNCHANGED <<store, admitted, closed, poisoned, scope, health, locks, of, access,
                   outcome, doubt, records, elector>>

(* The last cancellation check and the admission to the health gate.         *)
Admit(c) ==
    /\ pc[c] = "begun" /\ Unlocked("health")
    /\ \/ Admissible(c) /\ Goto(c, "admitted")
       \/ Goto(c, "refused")
    /\ UNCHANGED <<boundary, scope, health, locks, of, access, outcome, doubt, records,
                   elector>>

(* The database of the store was dropped with its boundary's closing: the    *)
(* command fails the home and does not commit.                               *)
Missing(c) ==
    /\ pc[c] = "admitted" /\ closed[of[c]] /\ Unlocked("health")
    /\ state' = "Failed"
    /\ Goto(c, "missing")
    /\ UNCHANGED <<boundary, scope, generation, recovery, locks, of, access, outcome, doubt,
                   records, elector>>

(* The storage work and its outcome (external): a commit whose result is not *)
(* known may be visible and need not be durable.                             *)
Store(c) ==
    /\ pc[c] = "admitted" /\ ~closed[of[c]]
    /\ \/ /\ outcome' = [outcome EXCEPT ![c] = "NotCommitted"]
          /\ UNCHANGED <<doubt, records>>
       \/ /\ stamp < MaxVersion
          /\ stamp' = stamp + 1 /\ version' = stamp + 1 /\ durable' = stamp + 1
          /\ outcome' = [outcome EXCEPT ![c] = "Committed"]
          /\ UNCHANGED doubt
       \/ /\ stamp < MaxVersion
          /\ stamp' = stamp + 1 /\ version' \in {version, stamp + 1} /\ UNCHANGED durable
          /\ outcome' = [outcome EXCEPT ![c] = "Indeterminate"]
          /\ doubt' = [doubt EXCEPT ![c] = "open"]
    /\ Goto(c, "stored")
    /\ UNCHANGED <<boundary, scope, health, locks, of, access, elector>>

(* Admission::fail when the failure is structural, confirm_database          *)
(* otherwise.                                                                *)
Report(c) ==
    /\ pc[c] = "stored" /\ Unlocked("health")
    /\ state' \in {state, "Failed"}
    /\ Goto(c, "settling")
    /\ UNCHANGED <<boundary, scope, generation, recovery, locks, of, access, outcome, doubt,
                   records, elector>>

(* The reservation is dropped: by finalize_outcome, or by the early return   *)
(* of a command that was not admitted or found no database.  With an outcome *)
(* in doubt it goes with the custody.                                        *)
Settle(c) ==
    /\ pc[c] \in {"settling", "refused"}
    /\ \/ outcome[c] = "Indeterminate" /\ UNCHANGED scope
       \/ /\ outcome[c] # "Indeterminate" /\ Unlocked("registry")
          /\ scope' = [scope EXCEPT ![c] = "Vacant"]
    /\ Goto(c, IF pc[c] = "settling" THEN "settled" ELSE "finishing")
    /\ UNCHANGED <<boundary, health, locks, of, access, outcome, doubt, records, elector>>

(* Drop of the HealthAdmission: after the reservation on return, before it   *)
(* on an early return and on unwinding.                                      *)
DropAdmission(c) ==
    /\ Unlocked("health")
    /\ \/ pc[c] = "settled" /\ Goto(c, "finishing")
       \/ pc[c] = "missing" /\ Goto(c, "refused")
       \/ pc[c] = "unwinding" /\ Goto(c, "dropping")
    /\ UNCHANGED <<boundary, scope, health, locks, of, access, outcome, doubt, records,
                   elector>>

(* Drop of the ObservedWriter: MutationActivity::finish releases the         *)
(* writer's mutex inside the boundary's.                                     *)
Finish(c) ==
    /\ pc[c] = "finishing" /\ guard[of[c]] = Free
    /\ active' = [active EXCEPT ![of[c]] = FALSE]
    /\ Goto(c, IF outcome[c] = "Indeterminate" THEN "custody" ELSE "idle")
    /\ outcome' = [outcome EXCEPT ![c] = "none"]
    /\ Returns(c)
    /\ UNCHANGED <<store, admitted, revision, closed, poisoned, scope, health, locks, doubt,
                   records, elector>>

(* The caller installs the custody, or drops it, which installs it too.      *)
Install(c) ==
    /\ pc[c] = "custody" /\ Unlocked("registry")
    /\ scope' = [scope EXCEPT ![c] = "Verifying"]
    /\ Goto(c, "idle")
    /\ UNCHANGED <<boundary, health, locks, of, access, outcome, doubt, records, elector>>

Readable == state = "Healthy" \/ (state = "Reopening" /\ recovery = "candidate")

(* finish_worker with an exact side: read back, confirmed by the database,   *)
(* through a store in service or through the candidate.                      *)
Resolve(c) ==
    /\ scope[c] = "Verifying" /\ Readable /\ Unlocked("registry")
    /\ scope' = [scope EXCEPT ![c] = "Vacant"]
    /\ doubt' = [doubt EXCEPT ![c] = "none"]
    /\ durable' = IF \A d \in Commands \ {c} : doubt[d] = "none" THEN version ELSE durable
    /\ UNCHANGED <<boundary, health, locks, pc, of, access, outcome, version, stamp, elector>>

-----------------------------------------------------------------------------
(* A command that panics between its admission and its outcome.  Unwinding   *)
(* drops FailClosedOnWriterPanic, the admission, the reservation, the writer. *)

Panic(c) ==
    /\ pc[c] \in {"admitted", "stored"}
    /\ doubt' = [doubt EXCEPT ![c] =
          IF outcome[c] \in {"Committed", "Indeterminate"} THEN "orphan" ELSE "none"]
    /\ outcome' = [outcome EXCEPT ![c] = "none"]
    /\ Goto(c, "panicked")
    /\ UNCHANGED <<boundary, scope, health, locks, of, access, records, elector>>

FailClosedOnWriterPanic(c) ==
    /\ pc[c] = "panicked" /\ Unlocked("health")
    /\ state' = "Failed"
    /\ Goto(c, "unwinding")
    /\ UNCHANGED <<boundary, scope, generation, recovery, locks, of, access, outcome, doubt,
                   records, elector>>

Unwind(c) ==
    /\ pc[c] = "dropping"
    /\ IF scope[c] = "Reserved"
       THEN /\ Unlocked("registry")
            /\ scope' = [scope EXCEPT ![c] = "Vacant"]
            /\ UNCHANGED <<boundary, command>>
       ELSE /\ guard[of[c]] = Free
            /\ active' = [active EXCEPT ![of[c]] = FALSE]
            /\ poisoned' = [poisoned EXCEPT ![of[c]] = TRUE]
            /\ Goto(c, "idle") /\ Returns(c)
            /\ UNCHANGED <<store, admitted, revision, closed, scope, outcome, doubt>>
    /\ UNCHANGED <<health, locks, records, elector>>

-----------------------------------------------------------------------------
(* Failures and recovery of the home.                                        *)

(* signal_failure, from a read, a watcher or a poisoned registry.            *)
HomeFails ==
    /\ state \in {"Healthy", "Reopening"} /\ Unlocked("health")
    /\ state' = "Failed"
    /\ UNCHANGED <<boundary, scope, generation, recovery, locks, command, records, elector>>

(* HealthGate::begin for recover_same_home; it then waits for the admissions *)
(* of the gate to drain, and for nothing else.                               *)
BeginRecovery ==
    /\ state = "Failed" /\ recovery = "none" /\ Unlocked("health")
    /\ store < MaxStore /\ generation < MaxGeneration
    /\ state' = "Reopening" /\ recovery' = "draining"
    /\ UNCHANGED <<boundary, scope, generation, locks, command, records, elector>>

Close(s) == guard[s] = Free /\ closed' = [closed EXCEPT ![s] = TRUE]

(* recover_same_home_inner, once drained: MutationBoundary::close waits for  *)
(* an election on the boundary, the database is dropped and reopened, which  *)
(* may lose what was not durable or may fail.  The next store has a boundary *)
(* and a writer's mutex of its own.                                          *)
Reopen ==
    /\ recovery = "draining" /\ NoAdmission /\ Close(store)
    /\ \/ /\ Unlocked("health")
          /\ state' = "Failed" /\ recovery' = "none"
          /\ UNCHANGED <<store, admitted, records, doubt>>
       \/ /\ store' = store + 1
          /\ admitted' = [admitted EXCEPT ![store + 1] = generation + 1]
          /\ version' \in {version, durable} /\ durable' = version' /\ UNCHANGED stamp
          /\ doubt' = [c \in Commands |-> IF doubt[c] = "orphan" THEN "none" ELSE doubt[c]]
          /\ recovery' = "reopened" /\ UNCHANGED state
    /\ UNCHANGED <<revision, active, poisoned, scope, generation, locks, pc, of, access,
                   outcome, elector>>

(* HealthMaintenance::prepare_candidate; when the home failed meanwhile,     *)
(* finish_failed, and the reopened store is kept for another attempt.        *)
PrepareCandidate ==
    /\ recovery = "reopened" /\ Unlocked("health")
    /\ \/ /\ state = "Reopening" /\ NoAdmission
          /\ generation' = admitted[store] /\ recovery' = "candidate" /\ UNCHANGED state
       \/ /\ ~(state = "Reopening" /\ NoAdmission)
          /\ state' = "Failed" /\ recovery' = "none" /\ UNCHANGED generation
    /\ UNCHANGED <<boundary, scope, locks, command, records, elector>>

(* validate_publication, which owns the candidate: nothing borrows it.       *)
ValidateCandidate ==
    /\ recovery = "candidate" /\ NoCandidateCall
    /\ state = "Reopening" /\ \A c \in Commands : scope[c] = "Vacant"
    /\ recovery' = "validated"
    /\ UNCHANGED <<boundary, scope, state, generation, locks, command, records, elector>>

(* HealthMaintenance::publish_candidate, or the candidate is handed back.    *)
PublishCandidate ==
    /\ recovery = "validated" /\ Unlocked("health")
    /\ \/ /\ state = "Reopening" /\ NoAdmission
          /\ state' = "Healthy" /\ recovery' = "none"
       \/ /\ ~(state = "Reopening" /\ NoAdmission)
          /\ recovery' = "candidate" /\ UNCHANGED state
    /\ UNCHANGED <<boundary, scope, generation, locks, command, records, elector>>

(* HomeRecoveryCandidate::abort: finish_failed, then retire_generation.      *)
AbortCandidate ==
    /\ recovery = "candidate" /\ NoCandidateCall /\ Unlocked("health") /\ Close(store)
    /\ state' = "Failed" /\ recovery' = "none"
    /\ UNCHANGED <<store, admitted, revision, active, poisoned, scope, generation, locks,
                   command, records, elector>>

-----------------------------------------------------------------------------
(* Electors.                                                                 *)

\* Mutant: the closing of the boundary is not checked.
StillQuiet(s) == revision[s] # Exhausted /\ ~active[s]

(* validate and try_elect_quiescent.                                         *)
Quiet(s) == ~closed[s] /\ revision[s] # Exhausted /\ ~active[s]

(* HomeMutationObserver::observe.                                            *)
Observe(e) ==
    /\ epc[e] = "idle"
    /\ \E s \in 1..store :
          /\ guard[s] = Free /\ Quiet(s)
          /\ seen' = [seen EXCEPT ![e] = [store |-> s, revision |-> revision[s]]]
    /\ fact' = [fact EXCEPT ![e] = None]
    /\ UNCHANGED <<boundary, scope, health, locks, command, records, epc, at, expected>>

(* A read of the records, admitted by the gate, outside the boundary.        *)
Read(e) ==
    /\ epc[e] = "idle" /\ seen[e] # Unseen /\ Readable /\ Unlocked("health")
    /\ fact' = [fact EXCEPT ![e] = version]
    /\ UNCHANGED <<boundary, scope, health, locks, command, records, epc, at, expected, seen>>

\* Mutant: the observed revision is not compared.
ObservedQuiet(e, s) == Quiet(s) /\ seen[e].store = s

(* validate_observation on the boundary of this store.                       *)
ObservedInterval(e, s) == Quiet(s) /\ seen[e] = [store |-> s, revision |-> revision[s]]

ReleaseAll(e) ==
    /\ guard' = [s \in Stores |-> IF guard[s] = e THEN Free ELSE guard[s]]
    /\ held' = [l \in Locks |-> IF held[l] = e THEN Free ELSE held[l]]
    /\ at' = [at EXCEPT ![e] = NoStore] /\ expected' = [expected EXCEPT ![e] = 0]

(* try_elect_for, or try_elect_quiescent, which forgets what was read; the   *)
(* caller may expect any generation it has met.                              *)
TakeBoundary(e) ==
    /\ epc[e] = "idle"
    /\ \E s \in 1..store, g \in 1..generation :
          /\ guard[s] = Free
          /\ \/ ObservedInterval(e, s) /\ fact[e] # None /\ UNCHANGED fact
             \/ Quiet(s) /\ fact' = [fact EXCEPT ![e] = None]
          /\ guard' = [guard EXCEPT ![s] = e]
          /\ at' = [at EXCEPT ![e] = s] /\ expected' = [expected EXCEPT ![e] = g]
    /\ epc' = [epc EXCEPT ![e] = "boundary"]
    /\ UNCHANGED <<boundary, scope, health, held, command, records, seen>>

(* try_elect_vacant.                                                         *)
TakeRegistry(e) ==
    /\ epc[e] = "boundary" /\ Unlocked("registry")
    /\ \A c \in Commands : scope[c] = "Vacant"
    /\ held' = [held EXCEPT !["registry"] = e]
    /\ epc' = [epc EXCEPT ![e] = "registry"]
    /\ UNCHANGED <<boundary, scope, health, guard, command, records, at, expected, seen, fact>>

(* try_elect_healthy; the callback runs from here to Elected.                *)
TakeHealth(e) ==
    /\ epc[e] = "registry" /\ Unlocked("health")
    /\ generation = expected[e] /\ state = "Healthy"
    /\ held' = [held EXCEPT !["health"] = e]
    /\ epc' = [epc EXCEPT ![e] = "electing"]
    /\ UNCHANGED <<boundary, scope, health, guard, command, records, at, expected, seen, fact>>

(* A lock was busy or a check failed: the guards are dropped.                *)
Refused(e) ==
    /\ epc[e] \in {"boundary", "registry"}
    /\ ReleaseAll(e)
    /\ epc' = [epc EXCEPT ![e] = "idle"]
    /\ UNCHANGED <<boundary, scope, health, command, records, seen, fact>>

Elected(e) ==
    /\ epc[e] = "electing"
    /\ ReleaseAll(e)
    /\ epc' = [epc EXCEPT ![e] = "idle"]
    /\ UNCHANGED <<boundary, scope, health, command, records, seen, fact>>

-----------------------------------------------------------------------------
Next ==
    \/ \E c \in Commands :
          \/ Reserve(c) \/ Abandon(c) \/ Begin(c) \/ Admit(c) \/ Missing(c) \/ Store(c)
          \/ Report(c) \/ Settle(c) \/ DropAdmission(c) \/ Finish(c) \/ Install(c)
          \/ Resolve(c) \/ Panic(c) \/ FailClosedOnWriterPanic(c) \/ Unwind(c)
    \/ HomeFails \/ BeginRecovery \/ Reopen \/ PrepareCandidate
    \/ ValidateCandidate \/ PublishCandidate \/ AbortCandidate
    \/ \E e \in Electors :
          \/ Observe(e) \/ Read(e) \/ TakeBoundary(e) \/ TakeRegistry(e) \/ TakeHealth(e)
          \/ Refused(e) \/ Elected(e)

Spec == Init /\ [][Next]_vars

-----------------------------------------------------------------------------
(* What an observed election publishes is what the home holds: records read  *)
(* without a lock, between an observation and the election, are refused when *)
(* a command came in between, through whatever store, or a failure with its  *)
(* recovery, or a reopening that lost a doubtful commit (coherence.rs:35-45, *)
(* mutation_observation.rs:189-207, health.rs:277-290, recovery.rs:417).     *)
PublishedIsCurrent ==
    \A e \in Electors : epc[e] = "electing" /\ fact[e] # None => fact[e] = version

Electing(e) == epc[e] = "electing"
Boundary(s) == <<revision[s], active[s], closed[s]>>

(* While an election's callback runs, its store is the last one opened, no   *)
(* command of that store is past its writer's mutex, no command of any store *)
(* holds an admission to the gate or a custody, and no command's effect is   *)
(* in doubt.  Commands of replaced stores may still be on their way out.     *)
(* And the home stays as it is: three locks, each the guard of one part,     *)
(* exclude a command already reserved, a custody, a resolution, a failure    *)
(* and every step of a recovery (coherence.rs:40-44, 53-56).                 *)
ElectionFreezesHome ==
    /\ [](TypeOK /\ \A e \in Electors : Electing(e) =>
          /\ at[e] = store
          /\ \A c \in Commands :
                /\ pc[c] \in Writing => of[c] # store
                /\ pc[c] \notin Admitted \cup {"custody"}
                /\ doubt[c] = "none")
    /\ [][\A e \in Electors : Electing(e) =>
          UNCHANGED <<store, Boundary(store), scope, health, doubt, records>>]_vars
=============================================================================
