-------------------------- MODULE ProcessAdmission --------------------------
(* The process admission gate among the locks it is nested with: the live    *)
(* command gate (cas_projection/persistent_failure/gate) is locked before it *)
(* by every permit, and the shutdown admission                               *)
(* (cas_projection/service/process_work/shutdown_admission.rs) locks it      *)
(* first and then only tries the others.                                     *)
(*                                                                           *)
(* A thread runs one operation at a time: it takes the operation's locks in  *)
(* order and does its work, or is refused, in one step that releases them.   *)
(* What a check reads under a lock cannot change before that step.  Outside  *)
(* this module: the work itself, the connections and sessions that a         *)
(* shutdown holds too, and the home, whose election may refuse.              *)
EXTENDS AdmissionGate, Sequences, FiniteSets

CONSTANT Workers        \* the threads that execute admitted work

Owner == "owner"        \* the thread that owns the process's services
ASSUME WorkersAssumption == IsFiniteSet(Workers) /\ Owner \notin Workers

Threads == Workers \cup {Owner}

VARIABLES
    lock,               \* the owner of each mutex, or <<>>
    op,                 \* the operation each thread is in
    gate_open,          \* the command gate has elected neither shutdown nor failure
    current,            \* threads whose command permit has the gate's epoch
    permit,             \* the execution permit's epoch; 0 admits nothing
    candidates,         \* threads with a committed execution candidate
    reserved,           \* threads that hold a process reservation made by a permit
    selecting,          \* threads that hold one made by a window selection
    fence,              \* the epoch of the owner's fence; 0 without one
    published,          \* a settlement was published behind this fence
    fresh               \* threads whose permit is from after the last fence

vars == <<gate, lock, op, gate_open, current, permit, candidates, reserved, selecting, fence,
          published, fresh>>

Wait(l) == [lock |-> l, wait |-> TRUE]

\* Mutant: the shutdown waits for the locks it should only try.
TryWaits(l) == [lock |-> l, wait |-> TRUE]

Try(l) == [lock |-> l, wait |-> FALSE]

Locks == {"gate", "process", "registry"}

\* The locks of each operation, in the order it takes them.
Plan == [
    authorize |-> <<Wait("gate"), Wait("process")>>,
    commit    |-> <<Wait("gate"), Wait("process")>>,
    reserve   |-> <<Wait("gate"), Wait("process")>>,
    release   |-> <<Wait("process")>>,
    cut       |-> <<Wait("gate")>>,
    select    |-> <<Try("process"), Try("registry")>>,
    window    |-> <<Wait("process"), Wait("registry")>>,
    flight    |-> <<Wait("registry")>>,
    fence     |-> <<Wait("process")>>,
    close     |-> <<Wait("process"), Try("registry"), Try("gate")>>,
    settle    |-> <<Wait("gate"), Wait("process")>>,
    reopen    |-> <<Wait("gate"), Wait("process")>>]

OwnerOps == {"authorize", "fence", "close", "settle", "reopen"}
WorkerOps == {"authorize", "commit", "reserve", "release", "cut", "select", "window", "flight"}

\* One type invariant: the gate, the locks and the permits.
TypeOK ==
    /\ epoch \in 1..EpochMax /\ admissions \in 0..Cardinality(Workers)
    /\ {fenced, gate_open, published} \subseteq BOOLEAN
    /\ lock \in [Locks -> {<<>>} \cup {<<t>> : t \in Threads}]
    /\ op \in [Threads -> DOMAIN Plan \cup {"idle"}]
    /\ permit \in [Threads -> 0..EpochMax] /\ fence \in 0..EpochMax
    /\ {current, fresh} \subseteq SUBSET Threads
    /\ {candidates, reserved, selecting} \subseteq SUBSET Workers

Init ==
    /\ GateInit
    /\ lock = [l \in Locks |-> <<>>] /\ op = [t \in Threads |-> "idle"]
    /\ gate_open = TRUE /\ current = {} /\ permit = [t \in Threads |-> 0]
    /\ candidates = {} /\ reserved = {} /\ selecting = {}
    /\ fence = 0 /\ published = FALSE /\ fresh = {}

-----------------------------------------------------------------------------
(* Operations and their locks.                                               *)

Held(t) == {l \in Locks : lock[l] = <<t>>}
NextLock(t) == Plan[op[t]][Cardinality(Held(t)) + 1]
HoldsAll(t) == op[t] # "idle" /\ Cardinality(Held(t)) = Len(Plan[op[t]])

\* The owners of the reservations; a thread owns at most one.
Holders == reserved \cup selecting

\* A thread starts an operation it has the values for.
Begin(t) ==
    /\ op[t] = "idle"
    /\ \E o \in (IF t = Owner THEN OwnerOps ELSE WorkerOps) :
        /\ o = "release" => t \in Holders
        /\ o \in {"reserve", "select"} => t \notin Holders
        /\ o \in {"settle", "reopen"} => fence # 0
        /\ op' = [op EXCEPT ![t] = o]
    /\ UNCHANGED <<gate, lock, gate_open, current, permit, candidates, reserved, selecting, fence,
                   published, fresh>>

Take(t) ==
    /\ op[t] # "idle" /\ ~HoldsAll(t) /\ lock[NextLock(t).lock] = <<>>
    /\ lock' = [lock EXCEPT ![NextLock(t).lock] = <<t>>]
    /\ UNCHANGED <<gate, op, gate_open, current, permit, candidates, reserved, selecting, fence,
                   published, fresh>>

\* The operation returns and its guards are dropped.
Return(t) ==
    /\ op' = [op EXCEPT ![t] = "idle"]
    /\ lock' = [l \in Locks |-> IF lock[l] = <<t>> THEN <<>> ELSE lock[l]]

\* A tried lock is taken: the operation is Busy.
Busy(t) ==
    /\ op[t] # "idle" /\ ~HoldsAll(t) /\ ~NextLock(t).wait /\ lock[NextLock(t).lock] # <<>>
    /\ Return(t)
    /\ UNCHANGED <<gate, gate_open, current, permit, candidates, reserved, selecting, fence,
                   published, fresh>>

Runs(t, o) == op[t] = o /\ HoldsAll(t) /\ Return(t)

-----------------------------------------------------------------------------
(* What an operation does once it has its locks.                             *)

\* LiveCommandAuthorizer::authorize, with the process permit it takes along.
Authorize(t) ==
    /\ Runs(t, "authorize") /\ gate_open
    /\ permit' = [permit EXCEPT ![t] = ExecutionEpoch]
    /\ current' = current \cup {t} /\ candidates' = candidates \ {t}
    /\ fresh' = IF fenced THEN fresh \ {t} ELSE fresh \cup {t}
    /\ UNCHANGED <<gate, gate_open, reserved, selecting, fence, published>>

\* commit_if_current, then the process permit: commit_execution_if_current.
Accepts(t) == t \in current /\ Valid(permit[t])

Commit(t) ==
    /\ Runs(t, "commit") /\ Accepts(t) /\ candidates' = candidates \cup {t}
    /\ UNCHANGED <<gate, gate_open, current, permit, reserved, selecting, fence, published, fresh>>

\* reserve_execution.
ReserveExecution(t) ==
    /\ Runs(t, "reserve") /\ Accepts(t) /\ Reserve /\ reserved' = reserved \cup {t}
    /\ UNCHANGED <<gate_open, current, permit, candidates, selecting, fence, published, fresh>>

\* try_reserve_with, the registry having admitted the selection: no permit is asked for.
ReserveSelection(t) ==
    /\ Runs(t, "select") /\ ~fenced /\ Reserve /\ selecting' = selecting \cup {t}
    /\ UNCHANGED <<gate_open, current, permit, candidates, reserved, fence, published, fresh>>

\* The drop of a reservation, whoever made it.
DropReservation(t) ==
    /\ Runs(t, "release") /\ Release
    /\ reserved' = reserved \ {t} /\ selecting' = selecting \ {t}
    /\ UNCHANGED <<gate_open, current, permit, candidates, fence, published, fresh>>

\* The gate elects a failure or a shutdown: every permit is of an old epoch.
Cut(t) ==
    /\ Runs(t, "cut") /\ gate_open' = FALSE /\ current' = {}
    /\ UNCHANGED <<gate, permit, candidates, reserved, selecting, fence, published, fresh>>

\* The window registry's operations under admit or settle, and on its flights
\* alone: they leave the gate as it is, and WindowAdmission has their state.
WindowWork(t) ==
    /\ Runs(t, "window") \/ Runs(t, "flight")
    /\ UNCHANGED <<gate, gate_open, current, permit, candidates, reserved, selecting, fence,
                   published, fresh>>

OwnerFences ==
    /\ Runs(Owner, "fence") /\ Fence
    /\ fence' = epoch' /\ published' = (published /\ fenced)
    /\ fresh' = IF fenced THEN fresh ELSE {}
    /\ UNCHANGED <<gate_open, current, permit, candidates, reserved, selecting>>

\* try_admit_observed_shutdown, the home having elected.
OwnerCloses ==
    /\ Runs(Owner, "close") /\ CanClose /\ gate_open /\ Publish
    /\ fence' = epoch' /\ published' = FALSE /\ fresh' = {}
    /\ UNCHANGED <<gate_open, current, permit, candidates, reserved, selecting>>

\* with_shutdown_fence.
OwnerSettles ==
    /\ Runs(Owner, "settle") /\ Owner \in current /\ Settled(fence) /\ published' = TRUE
    /\ UNCHANGED <<gate, gate_open, current, permit, candidates, reserved, selecting, fence, fresh>>

\* reopen_process_admission and its observed form, the home having elected.
OwnerReopens ==
    /\ Runs(Owner, "reopen") /\ Owner \in current /\ Settled(fence) /\ Reopen
    /\ published' = FALSE
    /\ UNCHANGED <<gate_open, current, permit, candidates, reserved, selecting, fence, fresh>>

\* What each operation requires; the home may refuse a close or a reopening, and
\* the registry a selection.
Admissible(t) ==
    CASE op[t] = "authorize" -> gate_open
      [] op[t] \in {"commit", "reserve"} -> Accepts(t)
      [] op[t] = "fence" -> fenced \/ epoch < EpochMax
      [] op[t] = "settle" -> Owner \in current /\ Settled(fence)
      [] op[t] \in {"close", "reopen", "select"} -> FALSE
      [] OTHER -> TRUE

Refused(t) ==
    /\ HoldsAll(t) /\ ~Admissible(t) /\ Return(t)
    /\ UNCHANGED <<gate, gate_open, current, permit, candidates, reserved, selecting, fence,
                   published, fresh>>

-----------------------------------------------------------------------------
ThreadStep(t) == Begin(t) \/ Take(t) \/ Busy(t) \/ Refused(t) \/ Authorize(t)

WorkerStep(t) == \/ Commit(t) \/ ReserveExecution(t) \/ ReserveSelection(t)
                 \/ DropReservation(t) \/ Cut(t) \/ WindowWork(t)

OwnerStep == OwnerFences \/ OwnerCloses \/ OwnerSettles \/ OwnerReopens

Next == \/ \E t \in Threads : ThreadStep(t)
        \/ \E t \in Workers : WorkerStep(t)
        \/ OwnerStep

Spec == Init /\ [][Next]_vars

-----------------------------------------------------------------------------
(* What is settled stays settled.  Every reservation is counted once until  *)
(* it is dropped, whatever fences and reopenings it lives through, whether  *)
(* a permit made it or a window selection, which needs none                 *)
(* (process_admission.rs:124-151, 261-275, 358-367); from the publication   *)
(* of a settlement behind a fence until that fence is reopened, the gate    *)
(* stays fenced at that epoch and nothing is reserved (process_admission.rs:*)
(* 310-330, 277-285; cas_projection/process_sessions/retirement.rs:87-110). *)
(* And a command commits or reserves only with a permit issued after the    *)
(* last fence, also when that fence was reopened in between: what was       *)
(* authorized before a shutdown attempt, or during it, never starts after   *)
(* it (process_admission.rs:175-185, 277-285).                              *)
SettledStaysSettled ==
    /\ [](/\ TypeOK
          /\ admissions = Cardinality(Holders)
          /\ published => fenced /\ fence = epoch /\ Holders = {})
    /\ [][(candidates' \ candidates) \cup (reserved' \ reserved) \subseteq fresh]_vars

(* No threads wait for each other: the gate's lock comes before the process *)
(* lock, and the shutdown, which holds the process lock first, only tries   *)
(* the others (shutdown_admission.rs:24-50, permit.rs:3-30).                *)
NoWaitCycle ==
    \A S \in (SUBSET Threads) \ {{}} :
        \E t \in S : \/ op[t] = "idle" \/ HoldsAll(t)
                     \/ \A u \in S : lock[NextLock(t).lock] # <<u>>
                     \/ ~NextLock(t).wait

=============================================================================
