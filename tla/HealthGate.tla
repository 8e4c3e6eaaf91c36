----------------------------- MODULE HealthGate -----------------------------
(* crates/beryl-home-store/src/health.rs, with the owner of the home that    *)
(* drives it (initial_open.rs, recovery.rs, store.rs).  One mutex guards     *)
(* {state, generation, active, maintenance} and one condition variable       *)
(* `drained` serves both the callers waiting for a free admission and the    *)
(* owner waiting for the admissions to drain.  Every critical section is one *)
(* step; every notify_all of the file happens inside a critical section, so  *)
(* a waiter is woken by the step that notifies.                              *)
(*                                                                           *)
(* Threads run storage operations through references to a HomeStore; a       *)
(* reference carries the generation it was made for, which may be stale.     *)
(* The owner is the one HomeOpenCandidate, HomeStore or                      *)
(* HomeRecoveryCandidate value: it is moved, never shared, so publication,   *)
(* abort and drop of a candidate cannot overlap an operation that borrows it.*)
EXTENDS Integers, FiniteSets

CONSTANTS
    Threads,
    MaxAdmissions,   \* MAX_CONCURRENT_STORAGE_ADMISSIONS
    MaxGeneration    \* the bound on HomeGeneration (u64::MAX)

ASSUME ThreadsAssumption == IsFiniteSet(Threads)
ASSUME AdmissionsAssumption == MaxAdmissions \in Nat \ {0}
ASSUME GenerationAssumption == MaxGeneration \in Nat \ {0}

States == {"Opening", "Healthy", "Failed", "Reopening"}
Candidate == {"Opening", "Reopening"}
Generations == 1..MaxGeneration

VARIABLES
    state, generation, active, maintenance,   \* HealthInner
    owner,      \* what the owner of the home is doing
    store_gen,  \* HomeStore::admitted_generation of the owner's store
    pc,         \* idle | admit (woken) | wait (on `drained`) | admitted | refused
    want,       \* the state and generation the thread's admission asks for
    held,       \* the generation of the thread's counted admission, 0 if none
    nested,     \* the generation of its nested admission, 0 if none
    status,     \* the outcome of its last confirm, or of a refused admission
    published,  \* history: the last generation made Healthy, 0 before the first
    signalled   \* history: a failure was signalled during the maintenance

gate == <<state, generation, active, maintenance>>
thread == <<pc, want, held, nested, status>>
vars == <<gate, owner, store_gen, thread, published, signalled>>

OwnerStates ==
    {"initial", "held", "begin_wait", "begin_drain", "reopen", "candidate",
     "retire", "retire_wait", "retire_drain", "closed", "abandoned"}

\* One type invariant: HealthInner, the owner and the calls in progress.
TypeOK ==
    /\ state \in States /\ generation \in Generations
    /\ active \in 0..MaxAdmissions /\ maintenance \in BOOLEAN
    /\ owner \in OwnerStates /\ store_gen \in Generations
    /\ pc \in [Threads -> {"idle", "admit", "wait", "admitted", "refused"}]
    /\ want \in [Threads -> [state : States, generation : Generations]]
    /\ held \in [Threads -> {0} \cup Generations]
    /\ nested \in [Threads -> {0} \cup Generations]
    /\ status \in [Threads -> {"none", "Ok", "Err"}]
    /\ published \in {0} \cup Generations /\ signalled \in BOOLEAN

Init ==
    /\ state = "Opening" /\ generation = 1 /\ active = 0 /\ maintenance = FALSE
    /\ owner = "initial" /\ store_gen = 1
    /\ pc = [t \in Threads |-> "idle"]
    /\ want = [t \in Threads |-> [state |-> "Healthy", generation |-> 1]]
    /\ held = [t \in Threads |-> 0]
    /\ nested = [t \in Threads |-> 0]
    /\ status = [t \in Threads |-> "none"]
    /\ published = 0 /\ signalled = FALSE

-----------------------------------------------------------------------------
(* notify_all on `drained`: every waiter has to take the mutex again.        *)

Woken(pcs) == [t \in Threads |-> IF pcs[t] = "wait" THEN "admit" ELSE pcs[t]]

OwnerWoken(o) ==
    CASE o = "begin_wait" -> "begin_drain"
      [] o = "retire_wait" -> "retire_drain"
      [] OTHER -> o

(* Condvar::wait may also return on its own.                                 *)
Wake(t) ==
    /\ pc[t] = "wait"
    /\ pc' = [pc EXCEPT ![t] = "admit"]
    /\ UNCHANGED <<gate, owner, store_gen, want, held, nested, status, published, signalled>>

WakeOwner ==
    /\ owner # OwnerWoken(owner)
    /\ owner' = OwnerWoken(owner)
    /\ UNCHANGED <<gate, store_gen, thread, published, signalled>>

(* No operation borrows the candidate the owner holds.                       *)
CandidateFree == \A t \in Threads : pc[t] # "idle" => want[t].state \notin Candidate

(* The requests a thread can make: an ordinary one through a reference of    *)
(* any store built so far, or one that borrows the owner's candidate.        *)
Requests ==
    [state : {"Healthy"}, generation : 1..store_gen]
    \cup (IF owner = "initial" THEN {[state |-> "Opening", generation |-> store_gen]} ELSE {})
    \cup (IF owner = "candidate" THEN {[state |-> "Reopening", generation |-> store_gen]} ELSE {})

-----------------------------------------------------------------------------
(* admit_state and the generation check of admit_generation/admit_candidate. *)

HasRoom == active < MaxAdmissions

AdmitSection(t, w) ==
    /\ want' = [want EXCEPT ![t] = w]
    /\ \/ /\ state # w.state
          /\ pc' = [pc EXCEPT ![t] = "idle"]
          /\ status' = [status EXCEPT ![t] = "Err"]
          /\ UNCHANGED <<active, held>>
       \/ /\ state = w.state /\ HasRoom
          /\ active' = active + 1
          /\ held' = [held EXCEPT ![t] = generation]
          /\ pc' = [pc EXCEPT ![t] = IF generation = w.generation
                                     THEN "admitted" ELSE "refused"]
          /\ status' = [status EXCEPT ![t] = "none"]
       \/ /\ state = w.state /\ ~HasRoom
          /\ pc' = [pc EXCEPT ![t] = "wait"]
          /\ status' = [status EXCEPT ![t] = "none"]
          /\ UNCHANGED <<active, held>>
    /\ UNCHANGED <<state, generation, maintenance, owner, store_gen, nested,
                   published, signalled>>

Admit(t) == pc[t] = "idle" /\ \E w \in Requests : AdmitSection(t, w)

AdmitWoken(t) == pc[t] = "admit" /\ AdmitSection(t, want[t])

(* A thread already marked in ADMITTED_GATES is admitted without being       *)
(* counted and without waiting.                                              *)
AdmitNested(t) ==
    /\ pc[t] = "admitted" /\ nested[t] = 0
    /\ IF state = want[t].state /\ generation = want[t].generation
       THEN nested' = [nested EXCEPT ![t] = generation] /\ UNCHANGED status
       ELSE status' = [status EXCEPT ![t] = "Err"] /\ UNCHANGED nested
    /\ UNCHANGED <<gate, owner, store_gen, pc, want, held, published, signalled>>

DropNested(t) ==
    /\ nested[t] # 0
    /\ nested' = [nested EXCEPT ![t] = 0]
    /\ UNCHANGED <<gate, owner, store_gen, pc, want, held, status, published, signalled>>

(* HealthAdmission::confirm, of the innermost admission.                     *)
ConfirmsGenerationOnly(t) ==   \* mutant: the state is not compared
    generation = (IF nested[t] # 0 THEN nested[t] ELSE held[t])

Confirms(t) ==
    /\ state = want[t].state
    /\ generation = (IF nested[t] # 0 THEN nested[t] ELSE held[t])

Confirm(t) ==
    /\ pc[t] = "admitted"
    /\ status' = [status EXCEPT ![t] = IF Confirms(t) THEN "Ok" ELSE "Err"]
    /\ UNCHANGED <<gate, owner, store_gen, pc, want, held, nested, published, signalled>>

(* Drop of the counted admission.  A refused admission is dropped on the way *)
(* out of admit_generation, which reports the error.                         *)
ReleaseQuietly(t) ==   \* mutant: the drop does not notify
    /\ held[t] # 0 /\ nested[t] = 0
    /\ active' = active - 1
    /\ held' = [held EXCEPT ![t] = 0]
    /\ pc' = [pc EXCEPT ![t] = "idle"]
    /\ status' = IF pc[t] = "refused" THEN [status EXCEPT ![t] = "Err"] ELSE status
    /\ UNCHANGED <<state, generation, maintenance, owner, store_gen, want, nested,
                   published, signalled>>

Release(t) ==
    /\ held[t] # 0 /\ nested[t] = 0
    /\ active' = active - 1
    /\ held' = [held EXCEPT ![t] = 0]
    /\ pc' = Woken([pc EXCEPT ![t] = "idle"])
    /\ owner' = OwnerWoken(owner)
    /\ status' = IF pc[t] = "refused" THEN [status EXCEPT ![t] = "Err"] ELSE status
    /\ UNCHANGED <<state, generation, maintenance, store_gen, want, nested,
                   published, signalled>>

(* signal_failure: from an admission, or from a guard dropped after it       *)
(* (writer.rs) and from the reconciliation registry, so by anyone, any time. *)
SignalFailure ==
    /\ state' = "Failed"
    /\ pc' = Woken(pc)
    /\ owner' = OwnerWoken(owner)
    /\ signalled' = maintenance
    /\ UNCHANGED <<generation, active, maintenance, store_gen, want, held, nested,
                   status, published>>

-----------------------------------------------------------------------------
(* The owner of an unpublished initial home.                                 *)

(* publish_with_identity.  When the check fails the candidate is failed.     *)
PublishOpening ==
    /\ owner = "initial" /\ CandidateFree
    /\ state = "Opening" /\ generation = store_gen /\ active = 0 /\ ~maintenance
    /\ state' = "Healthy"
    /\ published' = generation
    /\ pc' = Woken(pc)
    /\ owner' = "held"
    /\ UNCHANGED <<generation, active, maintenance, store_gen, want, held, nested,
                   status, signalled>>

(* HomeOpenCandidate::close: fail, then HomeStore::close, which hands the    *)
(* store back while reconciliation scopes are pending.                       *)
CloseInitial ==
    /\ owner = "initial" /\ CandidateFree
    /\ state' = "Failed"
    /\ pc' = Woken(pc)
    /\ owner' \in {"held", "retire"}
    /\ UNCHANGED <<generation, active, maintenance, store_gen, want, held, nested,
                   status, published, signalled>>

-----------------------------------------------------------------------------
(* recover_same_home, which owns the store.                                  *)

BeginRecovery ==
    /\ owner = "held"
    /\ ~maintenance /\ state = "Failed"
    /\ state' = "Reopening"
    /\ maintenance' = TRUE
    /\ signalled' = FALSE
    /\ pc' = Woken(pc)
    /\ owner' = IF active # 0 THEN "begin_wait" ELSE "reopen"
    /\ UNCHANGED <<generation, active, store_gen, want, held, nested, status, published>>

NoDrain(waiting, done) == done   \* mutant: `if` in place of `while`
Drained(waiting, done) == IF active # 0 THEN waiting ELSE done

BeginDrained ==
    /\ owner = "begin_drain"
    /\ owner' = Drained("begin_wait", "reopen")
    /\ UNCHANGED <<gate, store_gen, thread, published, signalled>>

FinishFailed ==
    /\ state' = "Failed"
    /\ maintenance' = FALSE
    /\ pc' = Woken(pc)
    /\ UNCHANGED <<active, want, held, nested, status, published, signalled>>

(* recover_same_home_inner returned an error, an exhausted generation        *)
(* counter included.                                                         *)
ReopenFails ==
    /\ owner = "reopen"
    /\ owner' = "held"
    /\ FinishFailed
    /\ UNCHANGED <<generation, store_gen>>

Preparable == state = "Reopening" /\ maintenance /\ active = 0

(* It returned the new store: prepare_candidate, or, when that is refused,   *)
(* finish_failed with the new store handed back.                             *)
ReopenSucceeds ==
    /\ owner = "reopen"
    /\ generation < MaxGeneration
    /\ store_gen' = generation + 1
    /\ \/ /\ Preparable
          /\ generation' = generation + 1
          /\ owner' = "candidate"
          /\ UNCHANGED <<state, active, maintenance, thread, published, signalled>>
       \/ /\ ~Preparable
          /\ owner' = "held"
          /\ FinishFailed
          /\ UNCHANGED generation

PublishableBlindly ==   \* mutant: the state is not compared
    generation = store_gen /\ maintenance /\ active = 0

Publishable ==
    state = "Reopening" /\ generation = store_gen /\ maintenance /\ active = 0

PublishCandidate ==
    /\ owner = "candidate" /\ CandidateFree
    /\ Publishable
    /\ state' = "Healthy"
    /\ maintenance' = FALSE
    /\ published' = generation
    /\ pc' = Woken(pc)
    /\ owner' = "held"
    /\ UNCHANGED <<generation, active, store_gen, want, held, nested, status, signalled>>

(* HomeRecoveryCandidate::abort.                                             *)
AbortCandidate ==
    /\ owner = "candidate" /\ CandidateFree
    /\ owner' = "held"
    /\ FinishFailed
    /\ UNCHANGED <<generation, store_gen>>

(* Drop of a HomeRecoveryCandidate and of its HealthMaintenance: the home    *)
(* stays locked until the process exits.                                     *)
DropCandidate ==
    /\ owner = "candidate" /\ CandidateFree
    /\ owner' = "abandoned"
    /\ FinishFailed
    /\ UNCHANGED <<generation, store_gen>>

-----------------------------------------------------------------------------
(* HomeStore::close with no pending scope, or Drop of a HomeStore, that of   *)
(* an initial candidate included.                                            *)

CloseHeld ==
    /\ owner = "held" \/ (owner = "initial" /\ CandidateFree)
    /\ owner' = "retire"
    /\ UNCHANGED <<gate, store_gen, thread, published, signalled>>

Retire ==
    /\ owner = "retire"
    /\ IF generation = store_gen
       THEN /\ state' = "Failed"
            /\ pc' = Woken(pc)
            /\ owner' = Drained("retire_wait", "closed")
       ELSE owner' = "closed" /\ UNCHANGED <<state, pc>>
    /\ UNCHANGED <<generation, active, maintenance, store_gen, want, held, nested,
                   status, published, signalled>>

RetireDrained ==
    /\ owner = "retire_drain"
    /\ owner' = Drained("retire_wait", "closed")
    /\ UNCHANGED <<gate, store_gen, thread, published, signalled>>

-----------------------------------------------------------------------------
Operation(t) ==
    \/ Admit(t) \/ AdmitWoken(t) \/ Wake(t)
    \/ AdmitNested(t) \/ DropNested(t) \/ Confirm(t) \/ Release(t)

Owner ==
    \/ PublishOpening \/ CloseInitial
    \/ BeginRecovery \/ BeginDrained \/ ReopenFails \/ ReopenSucceeds
    \/ PublishCandidate \/ AbortCandidate \/ DropCandidate
    \/ CloseHeld \/ Retire \/ RetireDrained \/ WakeOwner

Next == (\E t \in Threads : Operation(t)) \/ SignalFailure \/ Owner

Spec == Init /\ [][Next]_vars

(* Every storage operation ends (its admission is dropped however often it   *)
(* nests another one), and a woken owner runs again.                         *)
FairSpec ==
    /\ Spec
    /\ \A t \in Threads : SF_vars(Release(t)) /\ WF_vars(DropNested(t))
    /\ WF_vars(BeginDrained) /\ WF_vars(Retire) /\ WF_vars(RetireDrained)

-----------------------------------------------------------------------------
Holders == {t \in Threads : held[t] # 0}

(* `active` is the number of admissions held, so the expect() on underflow   *)
(* in Drop never fires; nested admissions are not counted, live inside a     *)
(* counted one and share its generation (health.rs:342-369, 534-551).        *)
AdmissionsCounted ==
    /\ active = Cardinality(Holders)
    /\ \A t \in Threads :
          /\ held[t] # 0 <=> pc[t] \in {"admitted", "refused"}
          /\ nested[t] # 0 => nested[t] = held[t]

(* While recover_same_home drops the old database and recovers it, and once  *)
(* close has released the home, nobody holds an admission: every way through *)
(* the drain loops of begin and retire_generation, the early return of       *)
(* retire_generation for another generation included, ends with the store    *)
(* unused (health.rs:292-308, 434-439).                                      *)
ExclusiveReopen == owner \in {"reopen", "closed", "abandoned"} => Holders = {}

(* `drained` serves two kinds of waiters.  A thread waits for an admission   *)
(* only while the gate is in the state it wants and is full, and the owner   *)
(* only while an admission is out: a waiter whose condition has come true    *)
(* has been notified.                                                        *)
NoLostWakeup ==
    /\ \A t \in Threads : pc[t] = "wait" => state = want[t].state /\ ~(active < MaxAdmissions)
    /\ owner \in {"begin_wait", "retire_wait"} => active # 0

(* A structural failure signalled at any point of a recovery, the wait for   *)
(* the drain included, keeps the recovered generation from being published:  *)
(* only a new recovery leads back to Healthy (health.rs:371-386, 568-609).   *)
FailureStopsPublication ==
    [][owner = "candidate" /\ state' = "Healthy" => ~signalled]_vars

Ordinary(t) == want[t].state = "Healthy"

Availability == INSTANCE HomeAvailability WITH
    live <- IF state = "Healthy" THEN generation ELSE 0,
    last <- published,
    user <- [t \in Threads |-> IF Ordinary(t) THEN held[t] ELSE 0],
    status <- [t \in Threads |-> IF Ordinary(t) THEN status[t] ELSE "none"],
    exclusive <- owner = "reopen"

(* The gate implements HomeAvailability: confirmed results are fresh, live   *)
(* generations strictly increase and never overlap their users.              *)
ImplementsAvailability == Availability!Spec

(* Recovery and close get past the drain, whatever fails meanwhile: a closed *)
(* gate admits nobody, so the admissions run out (health.rs:302, 434).       *)
DrainEnds ==
    /\ owner \in {"begin_wait", "begin_drain"} ~> owner = "reopen"
    /\ owner = "retire" ~> owner = "closed"
=============================================================================
