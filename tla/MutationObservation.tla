------------------------ MODULE MutationObservation ------------------------
(* crates/beryl-home-store/src/mutation_observation.rs: the boundary that    *)
(* lets an in-memory decision (an election) rest on records read outside     *)
(* every lock, and the serialized writers that cross it.  Every critical     *)
(* section of the boundary's mutex is one step; the callback of an election  *)
(* runs inside it.                                                           *)
(*                                                                           *)
(* An elector owns at most one HomeMutationObserver and keeps its latest     *)
(* HomeMutationObservation.  A reader sees the records by their version.     *)
EXTENDS Integers

CONSTANTS
    Writers, Electors,
    MaxRevision,        \* the limit of the u64 revision
    MaxRegistrations, MaxVersion

ASSUME ObservationAssumption ==
    MaxRevision \in Nat /\ MaxRegistrations \in Nat /\ MaxVersion \in Nat
ASSUME ActorsAssumption == Writers \cap Electors = {}

Revisions == 0..MaxRevision
Exhausted == -1         \* MutationState::revision = None
None == -1              \* no observation, nothing read

VARIABLES
    revision, closed,
    mutating,       \* MutationState::active
    observer,       \* the registration MutationState points at, 0 if none
    registrations,  \* the number of registrations made
    step,           \* each writer: idle, locked, begun, waking
    target,         \* the registration a writer is about to wake
    owns,           \* each elector's registration, 0 if none
    token,          \* the registration and revision of its observation
    fact,           \* the version it read since, or None
    woken,          \* its waker was called since it last looked
    version         \* the version of the home's records

boundary == <<revision, mutating, closed, observer, registrations>>
writers == <<step, target, version>>
electors == <<owns, token, fact, woken>>
boundaryVars == <<boundary, writers, electors>>

Registrations == 1..MaxRegistrations
NoToken == [registration |-> 0, revision |-> None]

\* One type invariant: the boundary, the writers and the electors.
BoundaryTypeOK ==
    /\ revision \in Revisions \cup {Exhausted}
    /\ mutating \in BOOLEAN /\ closed \in BOOLEAN
    /\ observer \in {0} \cup Registrations /\ registrations \in {0} \cup Registrations
    /\ step \in [Writers -> {"idle", "locked", "begun", "waking"}]
    /\ target \in [Writers -> {0} \cup Registrations]
    /\ version \in 0..MaxVersion
    /\ owns \in [Electors -> {0} \cup Registrations]
    /\ token \in [Electors -> [registration : {0} \cup Registrations,
                               revision : Revisions \cup {None}]]
    /\ fact \in [Electors -> 0..MaxVersion \cup {None}]
    /\ woken \in [Electors -> BOOLEAN]

BoundaryInit ==
    /\ revision = 0 /\ mutating = FALSE /\ closed = FALSE
    /\ observer = 0 /\ registrations = 0
    /\ step = [w \in Writers |-> "idle"] /\ target = [w \in Writers |-> 0]
    /\ version = 0
    /\ owns = [e \in Electors |-> 0]
    /\ token = [e \in Electors |-> NoToken]
    /\ fact = [e \in Electors |-> None]
    /\ woken = [e \in Electors |-> FALSE]

-----------------------------------------------------------------------------
(* Writers: acquire_writer, the storage work, the drop of ObservedWriter.    *)

Lock(w) ==
    /\ step[w] = "idle"
    /\ \A v \in Writers : step[v] \notin {"locked", "begun"}
    /\ step' = [step EXCEPT ![w] = "locked"]
    /\ UNCHANGED <<boundary, target, version, electors>>

\* Mutant: the revision wraps around at its limit.
WrappingNext(r) == (r + 1) % (MaxRevision + 1)

(* checked_add, sticky at None.                                              *)
CheckedNext(r) == IF r = Exhausted \/ r = MaxRevision THEN Exhausted ELSE r + 1

Begin(w) ==
    /\ step[w] = "locked"
    /\ revision' = CheckedNext(revision)
    /\ mutating' = TRUE
    /\ step' = [step EXCEPT ![w] = "begun"]
    /\ UNCHANGED <<closed, observer, registrations, target, version, electors>>

(* A store whose boundary is closed admits no storage work.                  *)
Mutate(w) ==
    /\ step[w] = "begun" /\ ~closed /\ version < MaxVersion
    /\ version' = version + 1
    /\ UNCHANGED <<boundary, step, target, electors>>

\* Mutant: the observer is not notified.
FinishSilently(w) ==
    /\ step[w] = "begun"
    /\ mutating' = FALSE
    /\ step' = [step EXCEPT ![w] = "idle"]
    /\ UNCHANGED <<revision, closed, observer, registrations, target, version, electors>>

(* MutationActivity::finish: the writer's mutex is released inside the       *)
(* boundary's; the waker is called after both.                               *)
Finish(w) ==
    /\ step[w] = "begun"
    /\ mutating' = FALSE
    /\ target' = [target EXCEPT ![w] = observer]
    /\ step' = [step EXCEPT ![w] = "waking"]
    /\ UNCHANGED <<revision, closed, observer, registrations, version, electors>>

WakeObserver(w) ==
    /\ step[w] = "waking"
    /\ woken' = [e \in Electors |-> woken[e] \/ (owns[e] # 0 /\ owns[e] = target[w])]
    /\ step' = [step EXCEPT ![w] = "idle"]
    /\ target' = [target EXCEPT ![w] = 0]
    /\ UNCHANGED <<boundary, version, owns, token, fact>>

-----------------------------------------------------------------------------
(* Electors.                                                                 *)

(* observe_mutations: the new registration replaces the current one.  The    *)
(* elector's former observer is dropped afterwards and is no longer the      *)
(* current one.                                                              *)
Register(e) ==
    /\ ~closed /\ registrations < MaxRegistrations
    /\ registrations' = registrations + 1
    /\ observer' = registrations + 1
    /\ owns' = [owns EXCEPT ![e] = registrations + 1]
    /\ woken' = [woken EXCEPT ![e] = FALSE]
    /\ UNCHANGED <<revision, mutating, closed, writers, token, fact>>

\* Mutant: the drop of an observer leaves none, whichever is the current one.
DropAny(e) ==
    /\ owns[e] # 0
    /\ observer' = 0
    /\ owns' = [owns EXCEPT ![e] = 0]
    /\ UNCHANGED <<revision, mutating, closed, registrations, writers, token, fact, woken>>

(* Drop of ObserverOwner.                                                    *)
DropObserver(e) ==
    /\ owns[e] # 0
    /\ observer' = IF observer = owns[e] THEN 0 ELSE observer
    /\ owns' = [owns EXCEPT ![e] = 0]
    /\ UNCHANGED <<revision, mutating, closed, registrations, writers, token, fact, woken>>

(* MutationState::validate.                                                  *)
Valid(registration) == ~closed /\ registration # 0 /\ observer = registration

(* HomeMutationObserver::observe; the wake is consumed by looking.           *)
Observe(e) ==
    /\ Valid(owns[e])
    /\ woken' = [woken EXCEPT ![e] = FALSE]
    /\ IF ~mutating /\ revision # Exhausted
       THEN /\ token' = [token EXCEPT ![e] = [registration |-> owns[e], revision |-> revision]]
            /\ fact' = [fact EXCEPT ![e] = None]
       ELSE UNCHANGED <<token, fact>>
    /\ UNCHANGED <<boundary, writers, owns>>

(* A read of the home, outside the boundary: it may overlap a mutation.      *)
Read(e) ==
    /\ token[e] # NoToken
    /\ fact' = [fact EXCEPT ![e] = version]
    /\ UNCHANGED <<boundary, writers, owns, token, woken>>

(* validate_observation, after the registration was upgraded.                *)
Electable(e) ==
    /\ owns[e] = token[e].registration /\ Valid(token[e].registration)
    /\ ~mutating /\ revision # Exhausted /\ revision = token[e].revision

(* try_elect: the callback runs and consumes what was read.                  *)
Elect(e) ==
    /\ Electable(e) /\ fact[e] # None
    /\ fact' = [fact EXCEPT ![e] = None]
    /\ UNCHANGED <<boundary, writers, owns, token, woken>>

(* MutationBoundary::close, when the store is retired or recovered: its      *)
(* storage work has drained.                                                 *)
Close ==
    /\ ~closed
    /\ closed' = TRUE /\ observer' = 0
    /\ UNCHANGED <<revision, mutating, registrations, writers, electors>>

-----------------------------------------------------------------------------
BoundaryNext ==
    \/ \E w \in Writers : Lock(w) \/ Begin(w) \/ Mutate(w) \/ Finish(w) \/ WakeObserver(w)
    \/ \E e \in Electors :
           Register(e) \/ DropObserver(e) \/ Observe(e) \/ Read(e) \/ Elect(e)
    \/ Close

BoundarySpec == BoundaryInit /\ [][BoundaryNext]_boundaryVars

-----------------------------------------------------------------------------
\* Whenever an election would succeed, what its elector read since observing is
\* still what the home holds (try_elect excludes new mutations, and every
\* mutation since the observation made it stale).
ElectionIsCurrent ==
    \A e \in Electors : Electable(e) /\ fact[e] # None => fact[e] = version

\* No mutation is between its begin and its finish when the boundary says the
\* home is quiet (try_elect_quiescent relies on `active`, here mutating, alone).
QuietIsIdle == ~mutating => \A w \in Writers : step[w] # "begun"

\* A current observer whose observation went stale has been woken or will be:
\* the wake is not lost however registration, observation and the finish of a
\* mutation interleave.
StaleIsWoken ==
    \A e \in Electors :
        Valid(owns[e]) /\ token[e].registration = owns[e] /\ revision # Exhausted
            /\ token[e].revision # revision
        => mutating \/ woken[e] \/ \E w \in Writers : step[w] = "waking" /\ target[w] = owns[e]

\* A replaced or dropped observer never elects again: once an observation's
\* registration is not the current one, no step makes it electable.  And it takes
\* nobody with it: the current observer stays valid until its owner drops it, a
\* successor registers or the boundary closes, however late the observers it
\* replaced are dropped (the ptr_eq in the drop of ObserverOwner).
RevocationIsFinal ==
    [][\A e \in Electors :
          /\ token[e] # NoToken /\ observer # token[e].registration /\ token'[e] = token[e]
             => ~Electable(e)'
          /\ Valid(owns[e]) /\ owns'[e] = owns[e] /\ registrations' = registrations
             => Valid(owns[e])' \/ closed']_boundaryVars
=============================================================================
