----------------------- MODULE ReconciliationRegistry -----------------------
(* crates/beryl-home-store/src/reconciliation.rs and reconciliation/         *)
(* registry.rs: the per-home table of operation scopes.  A command reserves  *)
(* a scope before it writes; the reservation is dropped when the outcome is  *)
(* known and installed, with the descriptor, when it is not.  An installed   *)
(* scope is classified by one reconciliation flight at a time, on a bounded  *)
(* number of workers.                                                        *)
(*                                                                           *)
(* A scope is installed once, by the slot that reserved its token, so a      *)
(* token names one scope and one ReconciliationFlight; handles (index,       *)
(* token, flight) are cloned and outlive their scope, whose index is reused. *)
(* Every section under the registry mutex or a flight mutex is one step; the *)
(* only nesting is retry_handle's, which is one step.                        *)
EXTENDS Integers, FiniteSets

CONSTANTS
    Threads,         \* callers of reconcile and retry_reconciliation
    ScopeCapacity,   \* RECONCILIATION_SCOPE_CAPACITY
    WorkerCapacity,  \* RECONCILIATION_WORKER_CAPACITY
    DescriptorLimit, \* descriptor_byte_limit
    ReservedLimit,   \* reserved_byte_limit
    MaxToken,        \* the bound on tokens (u64::MAX)
    Exact            \* ExactOld, ExactNew and ExactSuccessor, treated alike here

ASSUME ThreadsAssumption == IsFiniteSet(Threads)
ASSUME CapacityAssumption == ScopeCapacity \in Nat \ {0} /\ WorkerCapacity \in Nat \ {0}
ASSUME LimitAssumption ==
    DescriptorLimit \in Nat \ {0} /\ ReservedLimit \in Nat /\ ReservedLimit >= DescriptorLimit
ASSUME TokenAssumption == MaxToken \in Nat \ {0}
ASSUME ExactAssumption ==
    Exact \cap {"none", "Idle", "Running", "Collision", "Err"} = {}

Indexes == 0..ScopeCapacity-1
Tokens == 1..MaxToken
Resolutions == Exact \cup {"Collision"}
Results == Resolutions \cup {"Err"}

VARIABLES
    accepting, kind, token, charge, reserved_bytes, active_workers, next_token,
    retained_core,  \* RegistryState; scopes is split into kind, token and charge
    index,          \* the index a slot or handle with this token carries
    slots,          \* tokens of the live ReconciliationSlots (with their command)
    flight,         \* the FlightState of a token's flight, "none" before install
    pc, at,         \* a thread's position in reconcile, and its handle's token
    outcome,        \* what its hook found
    result,         \* what its last call returned
    quiet           \* history: begin_close has returned 0

scope == <<kind, token, charge, reserved_bytes, index, slots>>
caller == <<pc, at, outcome, result>>
vars == <<accepting, scope, active_workers, next_token, retained_core, flight, caller, quiet>>

Working == {"execute", "finish"}
Running == {"acquire", "wait_worker"} \cup Working \cup {"complete"}

\* One type invariant: RegistryState, the flights and the calls in progress.
TypeOK ==
    /\ accepting \in BOOLEAN /\ retained_core \in BOOLEAN /\ quiet \in BOOLEAN
    /\ kind \in [Indexes -> {"Vacant", "Reserved", "Verifying", "Closed"}]
    /\ token \in [Indexes -> {0} \cup Tokens]
    /\ charge \in [Indexes -> 0..DescriptorLimit]
    /\ reserved_bytes \in 0..ReservedLimit
    /\ active_workers \in 0..WorkerCapacity
    /\ next_token \in 1..MaxToken+1
    /\ index \in [Tokens -> Indexes]
    /\ slots \subseteq Tokens
    /\ flight \in [Tokens -> {"none", "Idle", "Running"} \cup Results]
    /\ pc \in [Threads -> {"idle", "join", "wait_flight"} \cup Running]
    /\ at \in [Threads -> Tokens]
    /\ outcome \in [Threads -> {"none"} \cup Results]
    /\ result \in [Threads -> {"none"} \cup Results]

Init ==
    /\ accepting = TRUE /\ retained_core = FALSE /\ quiet = FALSE
    /\ kind = [i \in Indexes |-> "Vacant"]
    /\ token = [i \in Indexes |-> 0]
    /\ charge = [i \in Indexes |-> 0]
    /\ reserved_bytes = 0 /\ active_workers = 0 /\ next_token = 1
    /\ index = [k \in Tokens |-> 0]
    /\ slots = {}
    /\ flight = [k \in Tokens |-> "none"]
    /\ pc = [t \in Threads |-> "idle"]
    /\ at = [t \in Threads |-> 1]
    /\ outcome = [t \in Threads |-> "none"]
    /\ result = [t \in Threads |-> "none"]

-----------------------------------------------------------------------------
IsScope(k, kd) == kind[index[k]] = kd /\ token[index[k]] = k

Pending == {i \in Indexes : kind[i] \in {"Reserved", "Verifying"}}
Installed == {i \in Indexes : kind[i] \in {"Verifying", "Closed"}}

(* The bytes charged to the scopes of I, by scope and position: as many as   *)
(* the charges add up to.                                                    *)
Bytes(I) == {b \in I \X (1..DescriptorLimit) : b[2] <= charge[b[1]]}

Vacate(i) ==
    /\ kind' = [kind EXCEPT ![i] = "Vacant"]
    /\ token' = [token EXCEPT ![i] = 0]
    /\ charge' = [charge EXCEPT ![i] = 0]

(* reserve: the first vacant index.                                          *)
AlwaysAccepts == TRUE   \* mutant: begin_close does not stop reservations
Accepts == accepting

Reserve(bytes) ==
    /\ Accepts
    /\ reserved_bytes + bytes <= ReservedLimit
    /\ next_token <= MaxToken
    /\ \E i \in Indexes :
          /\ kind[i] = "Vacant"
          /\ \A j \in 0..i-1 : kind[j] # "Vacant"
          /\ kind' = [kind EXCEPT ![i] = "Reserved"]
          /\ token' = [token EXCEPT ![i] = next_token]
          /\ charge' = [charge EXCEPT ![i] = bytes]
          /\ index' = [index EXCEPT ![next_token] = i]
    /\ reserved_bytes' = reserved_bytes + bytes
    /\ slots' = slots \cup {next_token}
    /\ next_token' = next_token + 1
    /\ UNCHANGED <<accepting, active_workers, retained_core, flight, caller, quiet>>

(* Drop of a slot whose command's outcome is known.  When the scope is not   *)
(* the slot's own the code only fails the home.                              *)
DropSlotKeepingCharge(k) ==   \* mutant: the charge is not given back
    /\ k \in slots
    /\ slots' = slots \ {k}
    /\ Vacate(index[k])
    /\ UNCHANGED <<accepting, reserved_bytes, index, active_workers, next_token,
                   retained_core, flight, caller, quiet>>

DropSlot(k) ==
    /\ k \in slots
    /\ slots' = slots \ {k}
    /\ IF IsScope(k, "Reserved")
       THEN /\ Vacate(index[k])
            /\ reserved_bytes' = reserved_bytes - charge[index[k]]
       ELSE UNCHANGED <<kind, token, charge, reserved_bytes>>
    /\ UNCHANGED <<accepting, index, active_workers, next_token, retained_core,
                   flight, caller, quiet>>

(* ReconciliationCustody::install_pending, also run by its Drop.             *)
Install(k) ==
    /\ k \in slots
    /\ slots' = slots \ {k}
    /\ kind' = [kind EXCEPT ![index[k]] = "Verifying"]
    /\ token' = [token EXCEPT ![index[k]] = k]
    /\ flight' = [flight EXCEPT ![k] = "Idle"]
    /\ retained_core' = TRUE
    /\ UNCHANGED <<accepting, charge, reserved_bytes, index, active_workers,
                   next_token, caller, quiet>>

(* begin_close, and dispose_closed_scopes when nothing is pending.           *)
ClosedCharge == Cardinality(Bytes({i \in Indexes : kind[i] = "Closed"}))

BeginClose ==
    /\ accepting' = FALSE
    /\ IF Pending = {}
       THEN /\ kind' = [i \in Indexes |-> IF kind[i] = "Closed" THEN "Vacant" ELSE kind[i]]
            /\ token' = [i \in Indexes |-> IF kind[i] = "Closed" THEN 0 ELSE token[i]]
            /\ charge' = [i \in Indexes |-> IF kind[i] = "Closed" THEN 0 ELSE charge[i]]
            /\ reserved_bytes' = reserved_bytes - ClosedCharge
            /\ retained_core' = FALSE
            /\ quiet' = TRUE
       ELSE UNCHANGED <<kind, token, charge, reserved_bytes, retained_core, quiet>>
    /\ UNCHANGED <<index, slots, active_workers, next_token, flight, caller>>

BeginDrop ==
    /\ accepting' = FALSE
    /\ retained_core' = (retained_core \/ \E i \in Indexes : kind[i] # "Vacant")
    /\ UNCHANGED <<scope, active_workers, next_token, flight, caller, quiet>>

-----------------------------------------------------------------------------
(* reconcile and retry_reconciliation.  A call whose admission is refused    *)
(* returns at once and is left out.                                          *)

Enter(t, k) ==
    /\ pc' = [pc EXCEPT ![t] = "join"]
    /\ at' = [at EXCEPT ![t] = k]
    /\ result' = [result EXCEPT ![t] = "none"]
    /\ UNCHANGED outcome

Call(t, k) ==
    /\ pc[t] = "idle" /\ flight[k] # "none"
    /\ Enter(t, k)
    /\ UNCHANGED <<accepting, scope, active_workers, next_token, retained_core, flight, quiet>>

(* retry_handle: a failed flight of a scope still verifying is reset; a      *)
(* handle whose scope is gone joins the flight that disposed of it.          *)
ResetFailedFlight(k) ==
    flight' = IF flight[k] = "Err" THEN [flight EXCEPT ![k] = "Idle"] ELSE flight

RetryAnyScope(t, k) ==   \* mutant: any completed flight is run again
    /\ pc[t] = "idle" /\ flight[k] # "none"
    /\ flight' = IF flight[k] \in Results THEN [flight EXCEPT ![k] = "Idle"] ELSE flight
    /\ Enter(t, k)
    /\ UNCHANGED <<accepting, scope, active_workers, next_token, retained_core, quiet>>

Retry(t, k) ==
    /\ pc[t] = "idle" /\ flight[k] # "none"
    /\ \/ IsScope(k, "Verifying") /\ ResetFailedFlight(k) /\ Enter(t, k)
       \/ IsScope(k, "Closed") /\ Enter(t, k) /\ UNCHANGED flight
       \/ /\ ~IsScope(k, "Verifying") /\ ~IsScope(k, "Closed")
          /\ flight[k] \in {"Running"} \cup Resolutions
          /\ Enter(t, k) /\ UNCHANGED flight
       \/ /\ ~IsScope(k, "Verifying") /\ ~IsScope(k, "Closed")
          /\ flight[k] \in {"Idle", "Err"}
          /\ result' = [result EXCEPT ![t] = "Err"]
          /\ at' = [at EXCEPT ![t] = k]
          /\ UNCHANGED <<pc, outcome, flight>>
    /\ UNCHANGED <<accepting, scope, active_workers, next_token, retained_core, quiet>>

NoClaim(k) == UNCHANGED flight   \* mutant: the flight is not marked Running
Claim(k) == flight' = [flight EXCEPT ![k] = "Running"]

Join(t) ==
    /\ pc[t] = "join"
    /\ \/ /\ flight[at[t]] \in Results
          /\ result' = [result EXCEPT ![t] = flight[at[t]]]
          /\ pc' = [pc EXCEPT ![t] = "idle"]
          /\ UNCHANGED flight
       \/ /\ flight[at[t]] = "Running"
          /\ pc' = [pc EXCEPT ![t] = "wait_flight"]
          /\ UNCHANGED <<flight, result>>
       \/ /\ flight[at[t]] = "Idle"
          /\ Claim(at[t])
          /\ pc' = [pc EXCEPT ![t] = "acquire"]
          /\ UNCHANGED result
    /\ UNCHANGED <<accepting, scope, active_workers, next_token, retained_core, at,
                   outcome, quiet>>

WorkerFree == active_workers < WorkerCapacity

(* acquire_worker, entered first or after a wakeup.                          *)
Acquire(t) ==
    /\ pc[t] = "acquire"
    /\ \/ /\ ~IsScope(at[t], "Verifying")
          /\ outcome' = [outcome EXCEPT ![t] = "Err"]
          /\ pc' = [pc EXCEPT ![t] = "complete"]
          /\ UNCHANGED active_workers
       \/ /\ IsScope(at[t], "Verifying") /\ WorkerFree
          /\ active_workers' = active_workers + 1
          /\ pc' = [pc EXCEPT ![t] = "execute"]
          /\ UNCHANGED outcome
       \/ /\ IsScope(at[t], "Verifying") /\ ~WorkerFree
          /\ pc' = [pc EXCEPT ![t] = "wait_worker"]
          /\ UNCHANGED <<active_workers, outcome>>
    /\ UNCHANGED <<accepting, scope, next_token, retained_core, flight, at, result, quiet>>

(* execute_reconciliation_hook: an error, or what ordinary_exact_side and    *)
(* the successor make of the domains' sides.                                 *)
Execute(t) ==
    /\ pc[t] = "execute"
    /\ \E r \in Results :
          /\ IsScope(at[t], "Verifying") \/ r = "Err"
          /\ outcome' = [outcome EXCEPT ![t] = r]
    /\ pc' = [pc EXCEPT ![t] = "finish"]
    /\ UNCHANGED <<accepting, scope, active_workers, next_token, retained_core, flight, at,
                   result, quiet>>

(* finish_worker.  notify_one wakes one thread waiting for a worker.         *)
NotifyNone(pcs) == {pcs}   \* mutant: the release does not notify
NotifyOne(pcs) ==
    LET waiting == {t \in Threads : pcs[t] = "wait_worker"}
    IN  IF waiting = {} THEN {pcs} ELSE {[pcs EXCEPT ![t] = "acquire"] : t \in waiting}

ResolveScope(i, r) ==
    \/ /\ r = "Collision"
       /\ kind' = [kind EXCEPT ![i] = "Closed"]
       /\ \E sealed \in 0..charge[i] :
             /\ charge' = [charge EXCEPT ![i] = sealed]
             /\ reserved_bytes' = reserved_bytes - charge[i] + sealed
       /\ UNCHANGED <<token, retained_core>>
    \/ /\ r \in Exact
       /\ Vacate(i)
       /\ reserved_bytes' = reserved_bytes - charge[i]
       /\ retained_core' = (retained_core /\ Installed \ {i} # {})

Finish(t) ==
    /\ pc[t] = "finish"
    /\ \/ /\ outcome[t] # "Err" /\ IsScope(at[t], "Verifying")
          /\ ResolveScope(index[at[t]], outcome[t])
          /\ UNCHANGED outcome
       \/ /\ outcome[t] = "Err" \/ ~IsScope(at[t], "Verifying")
          /\ outcome' = [outcome EXCEPT ![t] = "Err"]
          /\ UNCHANGED <<kind, token, charge, reserved_bytes, retained_core>>
    /\ active_workers' = active_workers - 1
    /\ pc' \in NotifyOne([pc EXCEPT ![t] = "complete"])
    /\ UNCHANGED <<accepting, index, slots, next_token, flight, at, result, quiet>>

(* The end of reconcile: the shared result, and notify_all on the flight.    *)
Complete(t) ==
    /\ pc[t] = "complete"
    /\ flight' = [flight EXCEPT ![at[t]] = outcome[t]]
    /\ result' = [result EXCEPT ![t] = outcome[t]]
    /\ outcome' = [outcome EXCEPT ![t] = "none"]
    /\ pc' = [u \in Threads |-> IF u = t THEN "idle"
                                ELSE IF pc[u] = "wait_flight" /\ at[u] = at[t] THEN "join"
                                ELSE pc[u]]
    /\ UNCHANGED <<accepting, scope, active_workers, next_token, retained_core, at, quiet>>

(* Condvar::wait returns on its own.                                         *)
Wake(t) ==
    /\ \/ pc[t] = "wait_flight" /\ pc' = [pc EXCEPT ![t] = "join"]
       \/ pc[t] = "wait_worker" /\ pc' = [pc EXCEPT ![t] = "acquire"]
    /\ UNCHANGED <<accepting, scope, active_workers, next_token, retained_core, flight, at,
                   outcome, result, quiet>>

-----------------------------------------------------------------------------
Begin(t) == \E k \in Tokens : Call(t, k) \/ Retry(t, k)
Step(t) == Join(t) \/ Acquire(t) \/ Execute(t) \/ Finish(t) \/ Complete(t)

Next ==
    \/ \E bytes \in 1..DescriptorLimit : Reserve(bytes)
    \/ \E k \in Tokens : DropSlot(k) \/ Install(k)
    \/ BeginClose \/ BeginDrop
    \/ \E t \in Threads : Begin(t) \/ Step(t) \/ Wake(t)

Spec == Init /\ [][Next]_vars

(* A caller runs until it blocks; its hook returns.                          *)
FairSpec == Spec /\ \A t \in Threads : WF_vars(Step(t))

-----------------------------------------------------------------------------
(* The scope table stays consistent in whatever order slots, flights and     *)
(* close interleave.  Every byte charged is accounted for, so no checked_sub *)
(* of Drop, release_charge, finish_worker or dispose_closed_scopes           *)
(* underflows (registry.rs:350, 387, reconciliation.rs:450, 483).  A live    *)
(* slot owns the Reserved scope it indexes, though indexes are reused: the   *)
(* failure branch of Drop and the debug_assert of install are never reached  *)
(* (registry.rs:308, 341).  And the registry is kept alive as long as a      *)
(* scope is installed, also after every store that shares it is gone         *)
(* (registry.rs:317, 362).                                                   *)
TableConsistent ==
    /\ TypeOK
    /\ reserved_bytes = Cardinality(Bytes(Indexes))
    /\ \A i \in Indexes : kind[i] = "Vacant" => charge[i] = 0
    /\ \A k \in slots : IsScope(k, "Reserved") /\ k < next_token
    /\ \A i \in Indexes : kind[i] = "Reserved" => token[i] \in slots
    /\ Installed # {} => retained_core

(* A flight has one runner, and its scope stays Verifying until that runner  *)
(* finishes.  So a scope reached through a stale handle is never classified  *)
(* again, finish_worker never finds a stale scope, and a thread woken by     *)
(* notify_one never gives the wakeup up (reconciliation.rs:376, 424, 446).   *)
RunnerOwnsScope ==
    \A t \in Threads : pc[t] \in Running =>
        /\ flight[at[t]] = "Running"
        /\ pc[t] # "complete" => IsScope(at[t], "Verifying")
        /\ \A u \in Threads \ {t} : pc[u] \in Running => at[u] # at[t]

(* The workers are counted, and none stays free while a thread sleeps for    *)
(* one: notify_one is enough (reconciliation.rs:382-389, 465-469).           *)
WorkersUsed ==
    /\ active_workers = Cardinality({t \in Threads : pc[t] \in Working})
    /\ (\E t \in Threads : pc[t] = "wait_worker") =>
          active_workers + Cardinality({t \in Threads : pc[t] = "acquire"}) >= WorkerCapacity

(* A resolution is never revised, by a retry or by a later operation in the  *)
(* same index: every holder of a handle, also one kept after the scope is    *)
(* gone, is told the same (reconciliation.rs:212-243, registry.rs:235-285).  *)
ResolutionIsFinal ==
    [][\A k \in Tokens : flight[k] \in Resolutions => flight'[k] = flight[k]]_vars

(* Once begin_close has reported no pending scope there never is one again,  *)
(* so close may release the home although references to it still exist.      *)
CloseIsFinal == quiet => Pending = {}

(* If only finitely many calls are made, each of them returns: nobody waits  *)
(* for a flight that is not run or for a worker that is free.                *)
CallsReturn ==
    (<>[][\A t \in Threads : ~Begin(t)]_vars)
        => \A t \in Threads : pc[t] # "idle" ~> pc[t] = "idle"
=============================================================================
