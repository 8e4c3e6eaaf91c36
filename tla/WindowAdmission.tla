-------------------------- MODULE WindowAdmission --------------------------
(* crates/beryl-app/src/window_acquisition.rs with selection_admission.rs    *)
(* and close_admission.rs: the process registry of main windows, acquisition *)
(* flights, window-set selections and window closes, and the process gate    *)
(* (AdmissionGate) that it is locked under.                                  *)
(*                                                                           *)
(* A section under the process lock and the registry lock is one step: an    *)
(* operation that finds a lock taken is refused and changes nothing          *)
(* (ProcessAdmission has the locks).  A membership revision is the identity  *)
(* of an allocation that its holders keep alive: same is the set of holders  *)
(* that still have the registry's.                                           *)
EXTENDS AdmissionGate, FiniteSets

CONSTANTS
    Windows,            \* window identities
    MaxWindows,         \* MAX_RESTORABLE_WINDOWS
    Selections,         \* selection leases, one identity each
    Closes              \* close snapshots and the leases made of them

VARIABLES
    active, main_window_reservations, close_owner, selection_owner,   \* AcquisitionFlights
    same,               \* who holds the current membership_revision
    lease,              \* where each selection and each close is
    members, invoking,  \* the window set it was admitted for; the window that asked
    fence,              \* the epoch of the shutdown's fence; 0 without one
    closing             \* the window set whose close published the fence, if any

registry == <<active, main_window_reservations, close_owner, selection_owner, same>>
leases == <<lease, members, invoking>>
vars == <<gate, registry, leases, fence, closing>>

Holders == Selections \cup Closes
Option(S) == {<<>>} \cup {<<x>> : x \in S}

\* A selection's reservation is outstanding.
Reserving == {"live", "committed", "dropped", "retiring"}

\* One type invariant: the registry and its leases.
TypeOK ==
    /\ epoch \in 1..EpochMax /\ fenced \in BOOLEAN /\ fence \in 0..EpochMax
    /\ admissions \in 0..Cardinality(Selections)
    /\ \A s \in {active, main_window_reservations} :
           s \subseteq Windows /\ Cardinality(s) <= MaxWindows
    /\ close_owner \in Option(Closes) /\ selection_owner \in Option(Selections)
    /\ same \subseteq Holders
    /\ lease \in [Holders -> Reserving \cup {"none", "retired", "released", "snapshot"}]
    /\ members \in [Holders -> SUBSET Windows] /\ invoking \in [Holders -> Option(Windows)]
    /\ closing \in Option(SUBSET Windows)

Init ==
    /\ GateInit
    /\ active = {} /\ main_window_reservations = {} /\ close_owner = <<>>
    /\ selection_owner = <<>> /\ same = {}
    /\ lease = [h \in Holders |-> "none"] /\ members = [h \in Holders |-> {}]
    /\ invoking = [h \in Holders |-> <<>>]
    /\ fence = 0 /\ closing = <<>>

Vacant == close_owner = <<>> /\ selection_owner = <<>>

\* A lease or snapshot begins for the resident window set, or its value is gone.
Admit(h, state, w) ==
    /\ lease' = [lease EXCEPT ![h] = state] /\ same' = same \cup {h}
    /\ members' = [members EXCEPT ![h] = main_window_reservations]
    /\ invoking' = [invoking EXCEPT ![h] = w]

Move(h, state) == lease' = [lease EXCEPT ![h] = state] /\ UNCHANGED <<members, invoking>>

Forget(h) ==
    /\ lease' = [lease EXCEPT ![h] = "none"] /\ members' = [members EXCEPT ![h] = {}]
    /\ invoking' = [invoking EXCEPT ![h] = <<>>] /\ same' = same \ {h}

-----------------------------------------------------------------------------
(* Windows and acquisition flights.                                          *)

\* Mutant: a new window leaves the membership revision alone.
RevisionKept == same

\* membership_revision = Arc::new(()): nobody holds the new one.
NewRevision == {}

\* Mutant: the capacity test is off by one.
ReserveOneMore(w) ==
    /\ ~fenced /\ Vacant /\ w \notin main_window_reservations
    /\ Cardinality(main_window_reservations) <= MaxWindows
    /\ main_window_reservations' = main_window_reservations \cup {w} /\ same' = NewRevision
    /\ UNCHANGED <<gate, active, close_owner, selection_owner, leases, fence, closing>>

\* Mutant: a window is reserved without the process gate.
ReserveUngated(w) ==
    /\ Vacant /\ w \notin main_window_reservations
    /\ Cardinality(main_window_reservations) < MaxWindows
    /\ main_window_reservations' = main_window_reservations \cup {w} /\ same' = NewRevision
    /\ UNCHANGED <<gate, active, close_owner, selection_owner, leases, fence, closing>>

ReserveMainWindow(w) ==
    /\ ~fenced /\ Vacant /\ w \notin main_window_reservations
    /\ Cardinality(main_window_reservations) < MaxWindows
    /\ main_window_reservations' = main_window_reservations \cup {w} /\ same' = NewRevision
    /\ UNCHANGED <<gate, active, close_owner, selection_owner, leases, fence, closing>>

\* The drop of a window's reservation is never refused.
DropMainWindow(w) ==
    /\ w \in main_window_reservations
    /\ main_window_reservations' = main_window_reservations \ {w} /\ same' = NewRevision
    /\ UNCHANGED <<gate, active, close_owner, selection_owner, leases, fence, closing>>

\* Mutant: a flight only minds closes.
FlightDuringSelection(w) ==
    /\ close_owner = <<>> /\ w \notin active /\ Cardinality(active) < MaxWindows
    /\ active' = active \cup {w}
    /\ UNCHANGED <<gate, main_window_reservations, close_owner, selection_owner, same, leases,
                   fence, closing>>

\* AcquisitionFlight::acquire; the process gate plays no part.
AcquireFlight(w) ==
    /\ Vacant /\ w \notin active /\ Cardinality(active) < MaxWindows
    /\ active' = active \cup {w}
    /\ UNCHANGED <<gate, main_window_reservations, close_owner, selection_owner, same, leases,
                   fence, closing>>

DropFlight(w) ==
    /\ w \in active /\ active' = active \ {w}
    /\ UNCHANGED <<gate, main_window_reservations, close_owner, selection_owner, same, leases,
                   fence, closing>>

-----------------------------------------------------------------------------
(* Selections.                                                               *)

\* admit_selection, for the resident windows.
AdmitSelection(s, w) ==
    /\ lease[s] = "none" /\ ~fenced /\ Reserve
    /\ Vacant /\ active = {} /\ w \in main_window_reservations
    /\ selection_owner' = <<s>> /\ Admit(s, "live", <<w>>)
    /\ UNCHANGED <<active, main_window_reservations, close_owner, fence, closing>>

\* WindowSelectionLease::validate, and the same test of a retired one.
SelectionValid(s) ==
    /\ close_owner = <<>> /\ active = {} /\ selection_owner = <<s>> /\ s \in same
    /\ \E w \in main_window_reservations : invoking[s] = <<w>>

Owning == {"live", "committed"}

\* admit_commit; what the selection changes is outside.
CommitSelection(s) ==
    /\ lease[s] \in Owning /\ ~fenced /\ SelectionValid(s) /\ Move(s, "committed")
    /\ UNCHANGED <<gate, registry, fence, closing>>

\* Mutant: whoever owns the selection loses it.
WithoutAnyOwner(s) == <<>>

\* Only the lease's own ownership is given up.
WithoutOwner(s) == IF selection_owner = <<s>> THEN <<>> ELSE selection_owner

\* Drop of a lease: the owner under the locks, then the reservation.
DropSelection(s) ==
    /\ lease[s] \in Owning /\ selection_owner' = WithoutOwner(s) /\ Move(s, "dropped")
    /\ UNCHANGED <<gate, active, main_window_reservations, close_owner, same, fence, closing>>

\* retire_failed_home: the exclusion outlives the lease, the reservation does not.
RetireSelection(s) ==
    /\ lease[s] \in Owning /\ SelectionValid(s) /\ Move(s, "retiring")
    /\ UNCHANGED <<gate, registry, fence, closing>>

DropReservation(s) ==
    /\ lease[s] \in {"dropped", "retiring"} /\ Release
    /\ IF lease[s] = "retiring" THEN Move(s, "retired") /\ UNCHANGED same ELSE Forget(s)
    /\ UNCHANGED <<active, main_window_reservations, close_owner, selection_owner, fence, closing>>

\* try_prepare_coherent_release and apply: the value itself is dropped later.
ReleaseRetired(s) ==
    /\ lease[s] = "retired" /\ SelectionValid(s) /\ selection_owner' = <<>>
    /\ Move(s, "released")
    /\ UNCHANGED <<gate, active, main_window_reservations, close_owner, same, fence, closing>>

DropRetired(s) ==
    /\ lease[s] \in {"retired", "released"} /\ selection_owner' = WithoutOwner(s) /\ Forget(s)
    /\ UNCHANGED <<gate, active, main_window_reservations, close_owner, fence, closing>>

-----------------------------------------------------------------------------
(* Window closes and the shutdown they lead to.                              *)

\* snapshot_for_close.
SnapshotForClose(k, w) ==
    /\ lease[k] = "none" /\ ~fenced /\ Vacant /\ w \in main_window_reservations
    /\ Admit(k, "snapshot", <<w>>)
    /\ UNCHANGED <<gate, active, main_window_reservations, close_owner, selection_owner, fence,
                   closing>>

\* admit_close.
AdmitClose(k) ==
    /\ lease[k] = "snapshot" /\ ~fenced /\ Vacant /\ k \in same
    /\ close_owner' = <<k>> /\ Move(k, "live")
    /\ UNCHANGED <<gate, active, main_window_reservations, selection_owner, same, fence, closing>>

DropClose(k) ==
    /\ lease[k] \in {"snapshot", "live"} /\ Forget(k)
    /\ close_owner' = IF close_owner = <<k>> THEN <<>> ELSE close_owner
    /\ UNCHANGED <<gate, active, main_window_reservations, selection_owner, fence, closing>>

\* WindowShutdownAdmission::validate, then the publication of the fence.  A close
\* that must be final is refused for a larger set.
CloseWindows(k) ==
    /\ lease[k] = "live" /\ CanClose /\ close_owner = <<k>> /\ k \in same /\ Publish
    /\ fence' = epoch' /\ closing' = <<members[k]>>
    /\ UNCHANGED <<registry, leases>>

\* ProcessAdmissionGate::fence, without windows.
FenceProcess ==
    /\ Fence /\ fence' = epoch' /\ closing' = IF fenced THEN closing ELSE <<>>
    /\ UNCHANGED <<registry, leases>>

ReopenProcess ==
    /\ Settled(fence) /\ Reopen /\ closing' = <<>>
    /\ UNCHANGED <<registry, leases, fence>>

-----------------------------------------------------------------------------
WindowStep(w) == ReserveMainWindow(w) \/ DropMainWindow(w) \/ AcquireFlight(w) \/ DropFlight(w)

SelectionStep(s) == \/ \E w \in Windows : AdmitSelection(s, w)
                    \/ CommitSelection(s) \/ DropSelection(s) \/ RetireSelection(s)
                    \/ DropReservation(s) \/ ReleaseRetired(s) \/ DropRetired(s)

CloseStep(k) == \/ \E w \in Windows : SnapshotForClose(k, w)
                \/ AdmitClose(k) \/ DropClose(k) \/ CloseWindows(k)

Next == \/ \E w \in Windows : WindowStep(w)
        \/ \E s \in Selections : SelectionStep(s)
        \/ \E k \in Closes : CloseStep(k)
        \/ FenceProcess \/ ReopenProcess

Spec == Init /\ [][Next]_vars

-----------------------------------------------------------------------------
(* A selection that is live or retired owns the registry until it gives it  *)
(* up itself: no value of an earlier selection, dropped late, takes the     *)
(* exclusion away (selection_admission.rs:198-217, 275-291).                *)
ExclusionHeld ==
    \A s \in Selections : lease[s] \in Owning \cup {"retiring", "retired"} => selection_owner = <<s>>

(* While a selection owns the registry nothing else moves in it: no flight  *)
(* is under way, no close is admitted and no window arrives, so the set it  *)
(* was admitted for can only shrink (selection_admission.rs:71-94,          *)
(* window_acquisition.rs:466-495, 957-978).                                 *)
SelectionExcludes ==
    \A s \in Selections : selection_owner = <<s>> =>
        active = {} /\ close_owner = <<>> /\ main_window_reservations \subseteq members[s]

(* A selection commits only for the very window set it was admitted for     *)
(* (selection_admission.rs:154-181).                                        *)
CommitsAdmittedSet ==
    [][\A s \in Selections :
        CommitSelection(s) => main_window_reservations = members[s]]_vars

(* A close fences the process for the window set it was confirmed for: no   *)
(* window is left out of that set, and none joins it before the fence is    *)
(* reopened, so a final close stays final (close_admission.rs:41-67,        *)
(* shutdown_admission.rs:30-33).                                            *)
ClosedSetIsAll ==
    closing # <<>> => fenced /\ \A w \in main_window_reservations : w \in closing[1]

(* A close is not published over a selection, nor over the reservation one  *)
(* is about to drop, and none begins behind it                              *)
(* (process_admission.rs:217-239, selection_admission.rs:70-73).            *)
ClosedWithoutSelection ==
    closing # <<>> => \A s \in Selections : lease[s] \notin Reserving

=============================================================================
