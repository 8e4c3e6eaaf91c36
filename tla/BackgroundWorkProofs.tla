------------------------ MODULE BackgroundWorkProofs ------------------------
(* Work that outlives the call that asked for it. The first half proves      *)
(* ReconciliationRegistry for every finite set of callers, every number of   *)
(* scopes and workers and every bound on tokens. The second half proves      *)
(* ServiceSupervisor, whose worker disposes of a service its clients still   *)
(* borrow, for every finite set of clients.                                  *)
EXTENDS ReconciliationRegistry, ServiceSupervisor, TLAPS

\* What TypeOK says of the table, the flights and the callers.
Flags == accepting \in BOOLEAN /\ retained_core \in BOOLEAN /\ quiet \in BOOLEAN

Sorts ==
    /\ kind \in [Indexes -> {"Vacant", "Reserved", "Verifying", "Closed"}]
    /\ token \in [Indexes -> {0} \cup Tokens] /\ index \in [Tokens -> Indexes]
    /\ next_token \in 1..MaxToken+1 /\ slots \subseteq Tokens
    /\ flight \in [Tokens -> {"none", "Idle", "Running"} \cup Results]
    /\ pc \in [Threads -> {"idle", "join", "wait_flight"} \cup Running]
    /\ at \in [Threads -> Tokens]
    /\ outcome \in [Threads -> {"none"} \cup Results]

\* A slot owns the Reserved scope it indexes; a token in use is below the next one.
Owned ==
    /\ \A k \in slots : IsScope(k, "Reserved") /\ k < next_token /\ flight[k] = "none"
    /\ \A i \in Indexes : kind[i] # "Vacant" =>
          /\ token[i] \in Tokens /\ token[i] < next_token /\ index[token[i]] = i
          /\ kind[i] = "Reserved" => token[i] \in slots
          /\ kind[i] # "Reserved" => flight[token[i]] # "none"
    /\ \A k \in Tokens : k >= next_token => flight[k] = "none"

\* A flight that can be claimed is that of a scope still verifying.
Claimable == \A k \in Tokens : flight[k] = "Idle" => IsScope(k, "Verifying")

\* A runner that is about to finish has a result to publish.
Answered == \A t \in Threads : pc[t] \in {"finish", "complete"} => outcome[t] \in Results

\* An installed scope keeps the core of the home alive.
Kept == Installed # {} => retained_core

\* Once close has found nothing pending nothing is reserved again.
Quiet == quiet => ~accepting /\ Pending = {}

\* The threads that have a worker, that are about to ask for one, and that
\* sleep until one is free.
Busy == {t \in Threads : pc[t] \in Working}
Acquiring == {t \in Threads : pc[t] = "acquire"}
Sleeping == {t \in Threads : pc[t] = "wait_worker"}

\* active_workers is the number of workers in use, and a sleeper always finds
\* as many busy or asking as there are workers, so that notify_one loses no
\* wakeup.
Counted == active_workers = Cardinality(Busy)

Awake == Sleeping # {} => active_workers + Cardinality(Acquiring) >= WorkerCapacity

\* The inductive invariant.
IInv == Flags /\ Sorts /\ Owned /\ Claimable /\ Answered /\ RunnerOwnsScope /\ Kept /\ Quiet
        /\ Counted /\ Awake

USE ThreadsAssumption, CapacityAssumption, TokenAssumption, ExactAssumption

\* What the proofs use of the cardinality of the subsets of a finite set.
Countable(T) ==
    \A S \in SUBSET T :
        /\ Cardinality(S) \in Nat /\ (Cardinality(S) = 0 <=> S = {})
        /\ \A x \in T \ S : Cardinality(S \cup {x}) = Cardinality(S) + 1
        /\ \A x \in S : Cardinality(S \ {x}) = Cardinality(S) - 1
        /\ \A R \in SUBSET S : Cardinality(R) <= Cardinality(S)

\* An empty registry satisfies the invariant.
LEMMA InitIInv ==
    ASSUME Countable(Threads), Init
    PROVE  IInv
  <1> USE DEF Init
  <1>1. Flags BY Zenon DEF Flags
  <1>2. Sorts BY DEF Sorts, Indexes, Tokens, Running, Results
  <1>3. Owned /\ Claimable /\ Answered /\ RunnerOwnsScope
    BY Zenon DEF Owned, Claimable, Answered, RunnerOwnsScope, Running, Working, Tokens
  <1>4. Kept /\ Quiet BY Zenon DEF Kept, Quiet, Installed
  <1>5. Busy = {} /\ Sleeping = {} BY Zenon DEF Busy, Sleeping, Working
  <1>6. Cardinality(Busy) = 0 BY <1>5, Zenon DEF Countable
  <1>7. Counted /\ Awake BY <1>5, <1>6, Zenon DEF Counted, Awake
  <1> QED BY <1>1, <1>2, <1>3, <1>4, <1>7, Zenon DEF IInv

\* Every call, every step of a flight, and close and drop of the home keep the
\* invariant.
LEMMA NextIInv ==
    ASSUME Countable(Threads), IInv, [Next]_vars
    PROVE  IInv'
  <1> USE DEF IInv, scope, caller
  <1>a. /\ Busy \in SUBSET Threads /\ Acquiring \in SUBSET Threads
        /\ Acquiring' \in SUBSET Threads
    BY Zenon DEF Busy, Acquiring
  <1>0. /\ Cardinality(Busy) \in Nat /\ Cardinality(Acquiring) \in Nat
        /\ Cardinality(Acquiring') \in Nat
    BY <1>a, Zenon DEF Countable
  <1>1. ASSUME NEW bytes \in 1..DescriptorLimit, Reserve(bytes) PROVE IInv'
    <2>1. Flags' BY <1>1, Zenon DEF Reserve, Accepts, Flags
    <2>7. /\ Sorts' /\ Owned' /\ Claimable' /\ RunnerOwnsScope' /\ Answered'
          /\ Kept' /\ Quiet' /\ Counted' /\ Awake'
      BY <1>1 DEF Reserve, Accepts, Flags, Sorts, Tokens, Owned, IsScope, Claimable,
         RunnerOwnsScope, Pending, Answered, Kept, Quiet, Installed, Counted, Awake, Busy,
         Sleeping, Acquiring
    <2> QED BY <2>1, <2>7, Zenon
  <1>2. ASSUME NEW k \in Tokens, DropSlot(k) PROVE IInv'
    <2>1. Flags' BY <1>2, Zenon DEF DropSlot, Vacate, Flags
    <2>7. /\ Sorts' /\ Owned' /\ Claimable' /\ RunnerOwnsScope' /\ Answered'
          /\ Kept' /\ Quiet' /\ Counted' /\ Awake'
      BY <1>2 DEF DropSlot, Vacate, Flags, Sorts, Owned, IsScope, Claimable, RunnerOwnsScope,
         Pending, Answered, Kept, Quiet, Installed, Counted, Awake, Busy, Sleeping, Acquiring
    <2> QED BY <2>1, <2>7, Zenon
  <1>3. ASSUME NEW k \in Tokens, Install(k) PROVE IInv'
    <2>1. Flags' BY <1>3, Zenon DEF Install, Flags
    <2>3. Owned'
      <3>1. token' = token /\ kind[index[k]] = "Reserved" /\ token[index[k]] = k
        BY <1>3 DEF Install, Sorts, Owned, IsScope
      <3>2. /\ kind' = [kind EXCEPT ![index[k]] = "Verifying"] /\ slots' = slots \ {k}
            /\ flight' = [flight EXCEPT ![k] = "Idle"] /\ index' = index /\ next_token' = next_token
        BY <1>3, Zenon DEF Install
      <3>3. \A j \in slots \ {k} : index[j] # index[k] BY <3>1 DEF Owned, IsScope
      <3>4. \A j \in slots' : IsScope(j, "Reserved")' /\ j < next_token' /\ flight'[j] = "none"
        BY <3>1, <3>2, <3>3 DEF Sorts, Owned, IsScope
      <3>5. \A i \in Indexes : kind'[i] # "Vacant" =>
               /\ token'[i] \in Tokens /\ token'[i] < next_token' /\ index'[token'[i]] = i
               /\ kind'[i] = "Reserved" => token'[i] \in slots'
               /\ kind'[i] # "Reserved" => flight'[token'[i]] # "none"
        BY <3>1, <3>2 DEF Sorts, Owned
      <3>6. \A j \in Tokens : j >= next_token' => flight'[j] = "none"
        BY <1>3, <3>2 DEF Install, Sorts, Owned, Tokens
      <3> QED BY <3>4, <3>5, <3>6, Zenon DEF Owned
    <2>7. /\ Sorts' /\ Claimable' /\ RunnerOwnsScope' /\ Answered'
          /\ Kept' /\ Quiet' /\ Counted' /\ Awake'
      BY <1>3 DEF Install, Flags, Sorts, Owned, Claimable, RunnerOwnsScope, IsScope, Pending,
         Answered, Kept, Quiet, Installed, Counted, Awake, Busy, Sleeping, Acquiring
    <2> QED BY <2>1, <2>7, <2>3, Zenon
  <1>4. CASE BeginClose
    <2>1. Flags' BY <1>4, Zenon DEF BeginClose, Flags
    <2>7. /\ Sorts' /\ Owned' /\ Claimable' /\ RunnerOwnsScope' /\ Answered'
          /\ Kept' /\ Quiet' /\ Counted' /\ Awake'
      BY <1>4 DEF BeginClose, Flags, Sorts, Owned, IsScope, Claimable, RunnerOwnsScope,
         Pending, Answered, Kept, Quiet, Installed, Counted, Awake, Busy, Sleeping, Acquiring
    <2> QED BY <2>1, <2>7, Zenon
  <1>5. CASE BeginDrop
    <2>1. Flags' BY <1>5, Zenon DEF BeginDrop, Flags
    <2>7. /\ Sorts' /\ Owned' /\ Claimable' /\ RunnerOwnsScope' /\ Answered'
          /\ Kept' /\ Quiet' /\ Counted' /\ Awake'
      BY <1>5 DEF BeginDrop, Flags, Sorts, Owned, IsScope, Claimable, RunnerOwnsScope,
         Pending, Answered, Kept, Quiet, Installed, Counted, Awake, Busy, Sleeping, Acquiring
    <2> QED BY <2>1, <2>7, Zenon
  <1>6. ASSUME NEW t \in Threads, NEW k \in Tokens, Call(t, k) \/ Retry(t, k) PROVE IInv'
    <2>1. Flags' BY <1>6, Zenon DEF Call, Retry, ResetFailedFlight, Enter, Flags
    <2>7. Sorts' /\ Owned' /\ Claimable' /\ RunnerOwnsScope' /\ Answered' /\ Kept' /\ Quiet'
      BY <1>6 DEF Call, Retry, ResetFailedFlight, Enter, Sorts, Running, Working, Answered,
         Results, Owned, IsScope, Claimable, RunnerOwnsScope, Resolutions, Flags, Kept,
         Quiet, Installed, Pending
    <2>8. Counted' /\ Awake'
      <3>1. Busy' = Busy /\ Sleeping' = Sleeping /\ Acquiring' = Acquiring
        BY <1>6 DEF Call, Retry, ResetFailedFlight, Enter, Sorts, Busy, Sleeping, Acquiring,
           Working
      <3> QED BY <1>6, <3>1, Zenon DEF Call, Retry, ResetFailedFlight, Enter, Counted, Awake
    <2> QED BY <2>1, <2>7, <2>8, Zenon
  <1>7. ASSUME NEW t \in Threads, Join(t) PROVE IInv'
    <2>1. Flags' BY <1>7, Zenon DEF Join, Claim, Flags
    <2>2. Sorts' /\ Answered' /\ Kept' /\ Quiet'
      BY <1>7 DEF Join, Claim, Sorts, Running, Working, Answered, Results, Resolutions, Flags,
         Kept, Quiet, Installed, Pending
    <2>3. Owned' /\ Claimable'
      BY <1>7 DEF Join, Claim, Sorts, Results, Owned, IsScope, Claimable, Resolutions
    <2>4. RunnerOwnsScope'
      BY <1>7 DEF Join, Claim, Sorts, Running, Working, Results, IsScope, Claimable,
         RunnerOwnsScope, Resolutions
    <2>8. Counted' /\ Awake'
      <3>1. Busy' = Busy /\ Sleeping' = Sleeping /\ t \notin Acquiring
            /\ (Acquiring' = Acquiring \/ Acquiring' = Acquiring \cup {t})
        BY <1>7 DEF Join, Sorts, Busy, Sleeping, Acquiring, Working
      <3>2. Cardinality(Acquiring \cup {t}) = Cardinality(Acquiring) + 1
        BY <1>a, <3>1, Zenon DEF Countable
      <3>3. active_workers' = active_workers /\ active_workers \in Nat
        BY <1>7, <1>0, Zenon DEF Join, Counted
      <3>4. Counted' BY <3>1, <3>3, Zenon DEF Counted
      <3>5. Cardinality(Acquiring') \in {Cardinality(Acquiring), Cardinality(Acquiring) + 1}
        BY <3>1, <3>2, Zenon
      <3>6. Sleeping' # {} => Sleeping # {} BY <3>1, Zenon
      <3>7. Awake' BY <1>0, <3>3, <3>5, <3>6 DEF Awake
      <3> QED BY <3>4, <3>7, Zenon
    <2> QED BY <2>1, <2>2, <2>3, <2>4, <2>8, Zenon
  <1>8. ASSUME NEW t \in Threads, Acquire(t) PROVE IInv'
    <2>1. Flags' BY <1>8, Zenon DEF Acquire, WorkerFree, Flags
    <2>7. Sorts' /\ Owned' /\ Claimable' /\ RunnerOwnsScope' /\ Answered' /\ Kept' /\ Quiet'
      BY <1>8 DEF Acquire, WorkerFree, Sorts, Running, Working, Answered, Results, Owned,
         IsScope, Claimable, RunnerOwnsScope, Resolutions, Flags, Kept, Quiet, Installed,
         Pending
    <2>8. Counted' /\ Awake'
      <3>1. /\ t \in Acquiring /\ t \notin Busy /\ Acquiring' = Acquiring \ {t}
            /\ \/ /\ Busy' = Busy \cup {t} /\ Sleeping' = Sleeping
                  /\ active_workers' = active_workers + 1
               \/ /\ Busy' = Busy /\ active_workers >= WorkerCapacity
                  /\ active_workers' = active_workers
        <4>1. IsScope(at[t], "Verifying") BY <1>8, Zenon DEF Acquire, RunnerOwnsScope, Running
        <4>2. active_workers \in Nat BY <1>0, Zenon DEF Counted
        <4> QED BY <1>8, <4>1, <4>2 DEF Acquire, WorkerFree, Sorts, Busy, Sleeping,
           Acquiring, Working
      <3>2. Cardinality(Busy \cup {t}) = Cardinality(Busy) + 1
        BY <1>a, <3>1, Zenon DEF Countable
      <3>3. Cardinality(Acquiring \ {t}) = Cardinality(Acquiring) - 1
        BY <1>a, <3>1, Zenon DEF Countable
      <3>5. CASE /\ Busy' = Busy \cup {t} /\ Sleeping' = Sleeping
                 /\ active_workers' = active_workers + 1
        BY <1>0, <3>1, <3>2, <3>3, <3>5 DEF Counted, Awake
      <3>6. CASE /\ Busy' = Busy /\ active_workers >= WorkerCapacity
                 /\ active_workers' = active_workers
        <4>1. Counted' BY <3>6, Zenon DEF Counted
        <4>2. Awake' BY <1>0, <3>6 DEF Counted, Awake
        <4> QED BY <4>1, <4>2, Zenon
      <3> QED BY <3>1, <3>5, <3>6, Zenon
    <2> QED BY <2>1, <2>7, <2>8, Zenon
  <1>9. ASSUME NEW t \in Threads, Execute(t) PROVE IInv'
    <2>1. Flags' BY <1>9, Zenon DEF Execute, Flags
    <2>7. Sorts' /\ Owned' /\ Claimable' /\ RunnerOwnsScope' /\ Answered' /\ Kept' /\ Quiet'
      BY <1>9 DEF Execute, Sorts, Running, Working, Answered, Results, Owned, IsScope,
         Claimable, RunnerOwnsScope, Resolutions, Flags, Kept, Quiet, Installed, Pending
    <2>8. Counted' /\ Awake'
      <3>1. Busy' = Busy /\ Sleeping' = Sleeping /\ Acquiring' = Acquiring
        BY <1>9, Zenon DEF Execute, Sorts, Busy, Sleeping, Acquiring, Working
      <3> QED BY <1>9, <3>1, Zenon DEF Execute, Counted, Awake
    <2> QED BY <2>1, <2>7, <2>8, Zenon
  <1>10. ASSUME NEW t \in Threads, Finish(t) PROVE IInv'
    <2>1. Flags' BY <1>10, Zenon DEF Finish, NotifyOne, ResolveScope, Vacate, Flags
    <2>7. Sorts' /\ Owned' /\ Claimable' /\ RunnerOwnsScope' /\ Answered' /\ Kept' /\ Quiet'
      BY <1>10 DEF Finish, NotifyOne, ResolveScope, Vacate, Sorts, Running, Working,
         Answered, Results, Owned, IsScope, Claimable, RunnerOwnsScope, Resolutions, Flags,
         Kept, Quiet, Installed, Pending
    <2>8. Counted' /\ Awake'
      <3>1. t \in Busy /\ Busy' = Busy \ {t} /\ active_workers' = active_workers - 1
        BY <1>10 DEF Finish, NotifyOne, Sorts, Busy, Working
      <3>2. \/ Sleeping' = {}
            \/ \E u \in Threads :
                  u \notin Acquiring /\ u \in Sleeping /\ Acquiring' = Acquiring \cup {u}
        BY <1>10 DEF Finish, NotifyOne, Sorts, Acquiring, Sleeping
      <3>3. Cardinality(Busy \ {t}) = Cardinality(Busy) - 1
        BY <1>a, <3>1, Zenon DEF Countable
      <3>4. \A u \in Threads :
               u \notin Acquiring => Cardinality(Acquiring \cup {u}) = Cardinality(Acquiring) + 1
        BY <1>a, Zenon DEF Countable
      <3> QED BY <1>0, <3>1, <3>2, <3>3, <3>4 DEF Counted, Awake
    <2> QED BY <2>1, <2>7, <2>8, Zenon
  <1>11. ASSUME NEW t \in Threads, Complete(t) PROVE IInv'
    <2>1. Flags' BY <1>11, Zenon DEF Complete, Flags
    <2>3. Owned'
      <3>1. flight[at[t]] = "Running" /\ outcome[t] # "none"
        BY <1>11, Zenon DEF Complete, Answered, RunnerOwnsScope, Running, Results, Resolutions
      <3> QED BY <1>11, <3>1 DEF Complete, Sorts, Owned, IsScope
    <2>7. Sorts' /\ Claimable' /\ RunnerOwnsScope' /\ Answered' /\ Kept' /\ Quiet'
      BY <1>11 DEF Complete, Sorts, Running, Working, Answered, Results, Claimable,
         RunnerOwnsScope, IsScope, Resolutions, Owned, Flags, Kept, Quiet, Installed, Pending
    <2>8. Counted' /\ Awake'
      <3>1. Busy' = Busy /\ Sleeping' = Sleeping /\ Acquiring' = Acquiring
        BY <1>11, Zenon DEF Complete, Sorts, Busy, Sleeping, Acquiring, Working
      <3> QED BY <1>11, <3>1, Zenon DEF Complete, Counted, Awake
    <2> QED BY <2>1, <2>7, <2>3, <2>8, Zenon
  <1>12. ASSUME NEW t \in Threads, Wake(t) PROVE IInv'
    <2>1. Flags' BY <1>12, Zenon DEF Wake, Flags
    <2>7. Sorts' /\ Owned' /\ Claimable' /\ RunnerOwnsScope' /\ Answered' /\ Kept' /\ Quiet'
      BY <1>12 DEF Wake, Sorts, Running, Working, Answered, Results, Owned, IsScope,
         Claimable, RunnerOwnsScope, Resolutions, Flags, Kept, Quiet, Installed, Pending
    <2>8. Counted' /\ Awake'
      <3>1. Busy' = Busy /\ Sleeping' \subseteq Sleeping /\ t \notin Acquiring
            /\ (Acquiring' = Acquiring \/ Acquiring' = Acquiring \cup {t})
        BY <1>12 DEF Wake, Sorts, Busy, Sleeping, Acquiring, Working
      <3>2. Cardinality(Acquiring \cup {t}) = Cardinality(Acquiring) + 1
        BY <1>a, <3>1, Zenon DEF Countable
      <3>3. active_workers' = active_workers /\ active_workers \in Nat
        BY <1>12, <1>0, Zenon DEF Wake, Counted
      <3>4. Counted' BY <3>1, <3>3, Zenon DEF Counted
      <3>5. Cardinality(Acquiring') \in {Cardinality(Acquiring), Cardinality(Acquiring) + 1}
        BY <3>1, <3>2, Zenon
      <3>6. Sleeping' # {} => Sleeping # {} BY <3>1, Zenon
      <3>7. Awake' BY <1>0, <3>3, <3>5, <3>6 DEF Awake
      <3> QED BY <3>4, <3>7, Zenon
    <2> QED BY <2>1, <2>7, <2>8, Zenon
  <1>13. CASE UNCHANGED vars
    BY <1>13 DEF vars, Flags, Sorts, Owned, Claimable, Answered, RunnerOwnsScope, Kept,
       Quiet, Counted, Awake, Busy, Sleeping, Acquiring, IsScope, Installed, Pending
  <1> HIDE DEF IInv
  <1> QED BY <1>1, <1>2, <1>3, <1>4, <1>5, <1>6, <1>7, <1>8, <1>9, <1>10, <1>11, <1>12, <1>13, Zenon
     DEF Next, Begin, Step

\* Only the runner of a flight writes its result, and a runner finds the
\* flight Running, so no step replaces a resolution.
LEMMA NextKeepsResolutions ==
    ASSUME IInv, [Next]_vars
    PROVE  \A k \in Tokens : flight[k] \in Resolutions => flight'[k] = flight[k]
  <1> USE DEF IInv, scope, caller, Resolutions
  <1>1. ASSUME NEW k \in Tokens, Install(k)
        PROVE  \A j \in Tokens : flight[j] \in Resolutions => flight'[j] = flight[j]
    BY <1>1 DEF Install, Owned, Sorts
  <1>2. ASSUME NEW t \in Threads, NEW k \in Tokens, Call(t, k) \/ Retry(t, k)
        PROVE  \A j \in Tokens : flight[j] \in Resolutions => flight'[j] = flight[j]
    BY <1>2, Zenon DEF Call, Retry, ResetFailedFlight, Sorts
  <1>3. ASSUME NEW t \in Threads, Join(t)
        PROVE  \A j \in Tokens : flight[j] \in Resolutions => flight'[j] = flight[j]
    BY <1>3, Zenon DEF Join, Claim, Sorts
  <1>4. ASSUME NEW t \in Threads, Complete(t)
        PROVE  \A j \in Tokens : flight[j] \in Resolutions => flight'[j] = flight[j]
    BY <1>4, Zenon DEF Complete, RunnerOwnsScope, Running, Sorts
  <1>5. ASSUME NEW t \in Threads, Acquire(t) \/ Execute(t) \/ Finish(t) \/ Wake(t)
        PROVE  flight' = flight
    BY <1>5, Zenon DEF Acquire, Execute, Finish, Wake
  <1>6. ASSUME NEW k \in Tokens, DropSlot(k) PROVE flight' = flight BY <1>6, Zenon DEF DropSlot
  <1>7. ASSUME NEW bytes \in 1..DescriptorLimit, Reserve(bytes) PROVE flight' = flight
    BY <1>7, Zenon DEF Reserve
  <1>8. ASSUME BeginClose \/ BeginDrop \/ UNCHANGED vars PROVE flight' = flight
    BY <1>8, Zenon DEF BeginClose, BeginDrop, vars
  <1> HIDE DEF IInv
  <1> QED BY <1>1, <1>2, <1>3, <1>4, <1>5, <1>6, <1>7, <1>8, Zenon DEF Next, Begin, Step

USE LimitAssumption

\* The charges and results, and the bounds on the counters.
Charges ==
    /\ charge \in [Indexes -> 0..DescriptorLimit]
    /\ result \in [Threads -> {"none"} \cup Results]
    /\ \A i \in Indexes : kind[i] = "Vacant" => charge[i] = 0
    /\ active_workers <= WorkerCapacity
    /\ reserved_bytes = Cardinality(Bytes(Indexes)) /\ reserved_bytes <= ReservedLimit

\* The bytes a registry could ever charge.
AllBytes == Indexes \X (1..DescriptorLimit)

\* What the proofs use of the number of bytes.
Weighed ==
    /\ \A X \in SUBSET AllBytes : Cardinality(X) \in Nat
    /\ \A X, Y \in SUBSET AllBytes :
          X \cap Y = {} => Cardinality(X \cup Y) = Cardinality(X) + Cardinality(Y)
    /\ \A i \in Indexes, n \in 0..DescriptorLimit : Cardinality({i} \X (1..n)) = n

\* A scope is charged anew.
LEMMA Recharged ==
    ASSUME Weighed, charge \in [Indexes -> 0..DescriptorLimit], NEW i \in Indexes,
           NEW n \in 0..DescriptorLimit, charge' = [charge EXCEPT ![i] = n]
    PROVE  /\ charge' \in [Indexes -> 0..DescriptorLimit]
           /\ Cardinality(Bytes(Indexes)) \in Nat /\ Cardinality(Bytes(Indexes)) >= charge[i]
           /\ Cardinality(Bytes(Indexes)') = Cardinality(Bytes(Indexes)) - charge[i] + n
  <1> DEFINE Rest == {b \in AllBytes : b[1] # i /\ b[2] <= charge[b[1]]}
             Mine(m) == {i} \X (1..m)
  <1>1. ASSUME NEW m \in 0..DescriptorLimit
        PROVE  /\ Mine(m) \in SUBSET AllBytes /\ Rest \in SUBSET AllBytes /\ Rest \cap Mine(m) = {}
               /\ \A b \in AllBytes : b \in Mine(m) <=> b[1] = i /\ b[2] <= m
    BY <1>1, LimitAssumption DEF AllBytes
  <1>2. /\ charge[i] \in 0..DescriptorLimit /\ charge'[i] = n
        /\ charge' \in [Indexes -> 0..DescriptorLimit]
        /\ \A j \in Indexes \ {i} : charge'[j] = charge[j]
    BY Zenon
  <1>3. Bytes(Indexes) = Rest \cup Mine(charge[i]) BY <1>1, <1>2, Zenon DEF Bytes, AllBytes
  <1>4. Bytes(Indexes)' = Rest \cup Mine(n) BY <1>1, <1>2 DEF Bytes, AllBytes
  <1>5. ASSUME NEW m \in 0..DescriptorLimit
        PROVE  /\ Cardinality(Rest \cup Mine(m)) = Cardinality(Rest) + Cardinality(Mine(m))
               /\ Cardinality(Mine(m)) = m /\ Cardinality(Rest) \in Nat
    <2> HIDE DEF Rest
    <2> QED BY <1>1, Zenon DEF Weighed
  <1> HIDE DEF Rest, Mine
  <1>6. /\ Cardinality(Rest \cup Mine(charge[i])) = Cardinality(Rest) + charge[i]
        /\ Cardinality(Rest \cup Mine(n)) = Cardinality(Rest) + n /\ Cardinality(Rest) \in Nat
    BY <1>2, <1>5, Zenon
  <1> QED BY <1>2, <1>3, <1>4, <1>6

\* The closed scopes are disposed of.
LEMMA Uncharged ==
    ASSUME Weighed, charge \in [Indexes -> 0..DescriptorLimit], NEW C \in SUBSET Indexes,
           charge' = [i \in Indexes |-> IF i \in C THEN 0 ELSE charge[i]]
    PROVE  /\ charge' \in [Indexes -> 0..DescriptorLimit]
           /\ Cardinality(Bytes(C)) \in Nat /\ Cardinality(Bytes(Indexes)') \in Nat
           /\ Cardinality(Bytes(Indexes)) = Cardinality(Bytes(Indexes)') + Cardinality(Bytes(C))
  <1>1. /\ charge' \in [Indexes -> 0..DescriptorLimit]
        /\ \A i \in Indexes : charge'[i] = IF i \in C THEN 0 ELSE charge[i]
    OBVIOUS
  <1>2. /\ Bytes(C) \in SUBSET AllBytes /\ Bytes(Indexes)' \in SUBSET AllBytes
        /\ Bytes(C) \cap Bytes(Indexes)' = {}
        /\ Bytes(Indexes) = Bytes(Indexes)' \cup Bytes(C)
    BY <1>1 DEF Bytes, AllBytes
  <1> QED BY <1>1, <1>2, Zenon DEF Weighed

\* Every byte charged is accounted for, whatever happens to the scopes.
LEMMA NextCharges ==
    ASSUME Countable(Threads), Weighed, IInv, Charges, [Next]_vars
    PROVE  Charges'
  <1>0. /\ charge \in [Indexes -> 0..DescriptorLimit]
        /\ result \in [Threads -> {"none"} \cup Results] /\ active_workers <= WorkerCapacity
        /\ reserved_bytes = Cardinality(Bytes(Indexes)) /\ reserved_bytes <= ReservedLimit
        /\ kind \in [Indexes -> {"Vacant", "Reserved", "Verifying", "Closed"}]
        /\ index \in [Tokens -> Indexes] /\ at \in [Threads -> Tokens]
        /\ \A i \in Indexes : kind[i] = "Vacant" => charge[i] = 0
    BY Zenon DEF Charges, IInv, Sorts
  <1>a. active_workers \in Nat
    <2>1. Busy \in SUBSET Threads BY Zenon DEF Busy
    <2> QED BY <2>1, Zenon DEF Countable, IInv, Counted
  <1>b. ReservedLimit \in Nat /\ DescriptorLimit \in Nat BY LimitAssumption, Zenon
  <1>1. ASSUME NEW bytes \in 1..DescriptorLimit, Reserve(bytes) PROVE Charges'
    <2>1. PICK i \in Indexes : /\ kind[i] = "Vacant" /\ kind' = [kind EXCEPT ![i] = "Reserved"]
                               /\ charge' = [charge EXCEPT ![i] = bytes]
      BY <1>1, Zenon DEF Reserve
    <2>2. /\ result' = result /\ active_workers' = active_workers
          /\ reserved_bytes' = reserved_bytes + bytes /\ reserved_bytes' <= ReservedLimit
      BY <1>1, Zenon DEF Reserve, caller
    <2>3. charge[i] = 0 /\ bytes \in 0..DescriptorLimit BY <1>0, <2>1
    <2>4. /\ charge' \in [Indexes -> 0..DescriptorLimit]
          /\ Cardinality(Bytes(Indexes)) \in Nat
          /\ Cardinality(Bytes(Indexes)') = Cardinality(Bytes(Indexes)) - charge[i] + bytes
      BY <1>0, <2>1, <2>3, Recharged, Zenon
    <2>5. \A j \in Indexes : kind'[j] = "Vacant" => charge'[j] = 0 BY <1>0, <2>1, Zenon
    <2> QED BY <1>0, <2>2, <2>3, <2>4, <2>5 DEF Charges
  <1>2. ASSUME NEW k \in Tokens, DropSlot(k) PROVE Charges'
    <2>1. PICK i \in Indexes : i = index[k] BY <1>0, Zenon
    <2>2. IsScope(k, "Reserved") BY <1>2, Zenon DEF DropSlot, IInv, Owned
    <2>3. /\ kind' = [kind EXCEPT ![i] = "Vacant"] /\ charge' = [charge EXCEPT ![i] = 0]
          /\ reserved_bytes' = reserved_bytes - charge[i]
          /\ result' = result /\ active_workers' = active_workers
      BY <1>2, <2>1, <2>2, Zenon DEF DropSlot, Vacate, caller
    <2>4. 0 \in 0..DescriptorLimit /\ charge[i] \in Nat BY <1>0, <1>b
    <2>6. /\ charge' \in [Indexes -> 0..DescriptorLimit] /\ Cardinality(Bytes(Indexes)) \in Nat
          /\ Cardinality(Bytes(Indexes)') = Cardinality(Bytes(Indexes)) - charge[i] + 0
      BY <1>0, <2>3, <2>4, Recharged, Zenon
    <2>5. \A j \in Indexes : kind'[j] = "Vacant" => charge'[j] = 0 BY <1>0, <2>3, Zenon
    <2> QED BY <1>0, <1>b, <2>3, <2>4, <2>5, <2>6 DEF Charges
  <1>3. ASSUME NEW k \in Tokens, Install(k) PROVE Charges'
    <2>1. /\ kind' = [kind EXCEPT ![index[k]] = "Verifying"] /\ charge' = charge
          /\ reserved_bytes' = reserved_bytes /\ result' = result
          /\ active_workers' = active_workers
      BY <1>3, Zenon DEF Install, caller
    <2>2. Bytes(Indexes)' = Bytes(Indexes) BY <2>1, Zenon DEF Bytes
    <2>3. \A j \in Indexes : kind'[j] = "Vacant" => charge'[j] = 0 BY <1>0, <2>1, Zenon
    <2> QED BY <1>0, <2>1, <2>2, <2>3, Zenon DEF Charges
  <1>4. CASE BeginClose
    <2>1. result' = result /\ active_workers' = active_workers
      BY <1>4, Zenon DEF BeginClose, caller
    <2>2. CASE Pending = {}
      <3> DEFINE C == {i \in Indexes : kind[i] = "Closed"}
      <3>1. /\ charge' = [i \in Indexes |-> IF i \in C THEN 0 ELSE charge[i]]
            /\ kind' = [i \in Indexes |-> IF kind[i] = "Closed" THEN "Vacant" ELSE kind[i]]
            /\ reserved_bytes' = reserved_bytes - Cardinality(Bytes(C))
        BY <1>4, <2>2, Zenon DEF BeginClose, ClosedCharge
      <3>2. \A j \in Indexes : kind'[j] = "Vacant" => charge'[j] = 0 BY <1>0, <3>1, Zenon
      <3>3. C \in SUBSET Indexes BY Zenon
      <3> HIDE DEF C
      <3>4. /\ charge' \in [Indexes -> 0..DescriptorLimit]
            /\ Cardinality(Bytes(C)) \in Nat /\ Cardinality(Bytes(Indexes)') \in Nat
            /\ Cardinality(Bytes(Indexes)) = Cardinality(Bytes(Indexes)') + Cardinality(Bytes(C))
        BY <1>0, <3>1, <3>3, Uncharged, Zenon
      <3>5. reserved_bytes' = Cardinality(Bytes(Indexes)') /\ reserved_bytes' <= ReservedLimit
        BY <1>0, <3>1, <3>4, LimitAssumption
      <3> QED BY <1>0, <2>1, <3>2, <3>4, <3>5, Zenon DEF Charges
    <2>3. CASE Pending # {}
      <3>1. charge' = charge /\ kind' = kind /\ reserved_bytes' = reserved_bytes
        BY <1>4, <2>3, Zenon DEF BeginClose
      <3>2. Bytes(Indexes)' = Bytes(Indexes) BY <3>1, Zenon DEF Bytes
      <3> QED BY <1>0, <2>1, <3>1, <3>2, Zenon DEF Charges
    <2> QED BY <2>2, <2>3, Zenon
  <1>5. ASSUME NEW t \in Threads, Finish(t) PROVE Charges'
    <2>1. result' = result /\ active_workers' <= WorkerCapacity
      BY <1>0, <1>a, <1>5 DEF Finish
    <2>2. CASE charge' = charge /\ kind' = kind /\ reserved_bytes' = reserved_bytes
      <3>1. Bytes(Indexes)' = Bytes(Indexes) BY <2>2, Zenon DEF Bytes
      <3> QED BY <1>0, <2>1, <2>2, <3>1, Zenon DEF Charges
    <2>3. ASSUME ResolveScope(index[at[t]], outcome[t]) PROVE Charges'
      <3>1. PICK i \in Indexes : i = index[at[t]] BY <1>0, Zenon
      <3>2. PICK n \in 0..DescriptorLimit :
               /\ charge' = [charge EXCEPT ![i] = n] /\ n <= charge[i]
               /\ reserved_bytes' = reserved_bytes - charge[i] + n
               /\ \/ kind' = [kind EXCEPT ![i] = "Closed"]
                  \/ kind' = [kind EXCEPT ![i] = "Vacant"] /\ n = 0
        <4>1. CASE outcome[t] = "Collision"
          <5>1. PICK n \in 0..charge[i] :
                   /\ charge' = [charge EXCEPT ![i] = n]
                   /\ reserved_bytes' = reserved_bytes - charge[i] + n
                   /\ kind' = [kind EXCEPT ![i] = "Closed"]
            BY <2>3, <3>1, <4>1, Zenon DEF ResolveScope
          <5>2. n \in 0..DescriptorLimit /\ n <= charge[i] BY <1>0, LimitAssumption
          <5> QED BY <5>1, <5>2, Zenon
        <4>2. CASE outcome[t] # "Collision"
          <5>1. /\ charge' = [charge EXCEPT ![i] = 0] /\ kind' = [kind EXCEPT ![i] = "Vacant"]
                /\ reserved_bytes' = reserved_bytes - charge[i]
            BY <2>3, <3>1, <4>2, Zenon DEF ResolveScope, Vacate
          <5>2. Bytes(Indexes) \in SUBSET AllBytes BY Zenon DEF Bytes, AllBytes
          <5>3. reserved_bytes \in Nat BY <1>0, <5>2, Zenon DEF Weighed
          <5>4. /\ 0 \in 0..DescriptorLimit /\ 0 <= charge[i]
                /\ reserved_bytes - charge[i] = reserved_bytes - charge[i] + 0
            BY <1>0, <1>b, <5>3
          <5> QED BY <5>1, <5>4, Zenon
        <4> QED BY <4>1, <4>2, Zenon
      <3>3. /\ charge' \in [Indexes -> 0..DescriptorLimit] /\ Cardinality(Bytes(Indexes)) \in Nat
            /\ Cardinality(Bytes(Indexes)') = Cardinality(Bytes(Indexes)) - charge[i] + n
        BY <1>0, <3>2, Recharged, Zenon
      <3>5. charge[i] \in Nat BY <1>0
      <3>4. \A j \in Indexes : kind'[j] = "Vacant" => charge'[j] = 0 BY <1>0, <3>2, Zenon
      <3> QED BY <1>0, <1>b, <2>1, <3>2, <3>3, <3>4, <3>5 DEF Charges
    <2> QED BY <1>5, <2>2, <2>3, Zenon DEF Finish
  <1>6. ASSUME NEW t \in Threads, Acquire(t) PROVE Charges'
    <2>1. charge' = charge /\ kind' = kind /\ reserved_bytes' = reserved_bytes /\ result' = result
      BY <1>6, Zenon DEF Acquire, scope
    <2>2. active_workers' <= WorkerCapacity
      BY <1>0, <1>a, <1>6 DEF Acquire, WorkerFree
    <2>3. Bytes(Indexes)' = Bytes(Indexes) BY <2>1, Zenon DEF Bytes
    <2> QED BY <1>0, <2>1, <2>2, <2>3, Zenon DEF Charges
  <1>7. ASSUME \/ BeginDrop \/ UNCHANGED vars
               \/ \E t \in Threads : Begin(t) \/ Join(t) \/ Execute(t) \/ Complete(t) \/ Wake(t)
        PROVE  Charges'
    <2>1. /\ charge' = charge /\ kind' = kind /\ reserved_bytes' = reserved_bytes
          /\ active_workers' = active_workers
      BY <1>7, Zenon DEF BeginDrop, vars, Begin, Call, Retry, Enter, Join, Execute, Complete, Wake,
         scope, caller
    <2>2. result' \in [Threads -> {"none"} \cup Results]
      BY <1>0, <1>7 DEF BeginDrop, vars, Begin, Call, Retry, Enter, Join, Execute, Complete, Wake,
         caller, IInv, Sorts, Answered, Results
    <2>3. Bytes(Indexes)' = Bytes(Indexes) BY <2>1, Zenon DEF Bytes
    <2> QED BY <1>0, <2>1, <2>2, <2>3, Zenon DEF Charges
  <1> QED BY <1>1, <1>2, <1>3, <1>4, <1>5, <1>6, <1>7, Zenon DEF Next, Step

\* An empty registry charges nothing.
LEMMA InitCharges == ASSUME Weighed, Init PROVE Charges
  <1>1. Bytes(Indexes) = {} BY DEF Init, Bytes
  <1>2. Cardinality({}) = 0
    <2>1. Cardinality({} \cup {}) = Cardinality({}) + Cardinality({}) /\ Cardinality({}) \in Nat
      BY Zenon DEF Weighed
    <2>2. {} \cup {} = {} BY Zenon
    <2> QED BY <2>1, <2>2
  <1> QED BY <1>1, <1>2, LimitAssumption DEF Init, Charges

-----------------------------------------------------------------------------
HIDE ThreadsAssumption
HIDE CapacityAssumption
HIDE TokenAssumption
HIDE ExactAssumption
HIDE LimitAssumption

\* The assumptions of ServiceSupervisor on its constant.
SupervisorOK == IsFiniteSet(Clients) /\ {Slot, Worker} \cap Clients = {}

(* They hold of every instance of the component. *)
LEMMA SupervisorConstants == SupervisorOK
  BY ClientsAssumption, HoldersAssumption, Zenon DEF SupervisorOK

\* The clients whose lease is counted, and the holders of the service: a
\* client that uses its lease, the slot while it publishes the service, and
\* the worker once it has withdrawn it.
Leased == {c \in Clients : client[c] \in Leasing}

Holders == {c \in Clients : client[c] = "leased"}
           \cup (IF current THEN {Slot} ELSE {})
           \cup (IF worker \in {"wait", "unwrap"} THEN {Worker} ELSE {})

\* The worker before it withdraws the service from the slot, and with the
\* service in hand.
Before == {"unspawned", "recv", "check", "notify", "cut", "withdraw"}
Taken == {"wait", "unwrap", "close"}

\* active_leases counts the leases, and arcs are exactly the holders.
LeasesCounted == active_leases = Cardinality(Leased)

Held == arcs = Holders

\* Where the service is at each step of the worker. It leaves the slot once,
\* and the worker gets past its wait only with no lease out.
Phases ==
    /\ worker # "panicked"
    /\ worker \in Before \cup {"mark", "begin", "settle"} \/ ~current
    /\ worker \in Before => current
    /\ worker \in Taken => ~current
    /\ service \in {"live", "closed", "kept"}
    /\ service = "live" <=> (current \/ worker \in Taken)
    /\ service_error <=> service = "kept"
    /\ ~current => worker = "wait" \/ active_leases = 0
    /\ supervisor = "start" => worker = "unspawned"

\* The terminal failure is recorded on one path only, and counted once.
Failures ==
    /\ worker \in Before => ~terminal_unavailable
    /\ worker \in Taken /\ path = "cut" => ~terminal_unavailable
    /\ worker = "mark" => terminal_unavailable /\ terminal_failures = 0
    /\ worker # "mark" => (terminal_unavailable <=> terminal_failures = 1)
    /\ disposing => worker = "mark" \/ (worker \in Taken /\ path = "cut")

\* Diagnostics and shutdown speak after the worker has ended.
Told ==
    /\ terminal_settled => worker = "exited" /\ terminal_unavailable
    /\ shutdown_result # "none" => worker = "exited" /\ shutdown_result = IntoResult

\* What TypeOK says of everything but the flags and the count of leases.
SupervisorSorts ==
    /\ terminal_failures \in 0..1
    /\ arcs \subseteq {Slot, Worker} \cup Clients
    /\ client \in [Clients -> {"idle"} \cup Leasing] /\ monitor \in {"idle", "send"}
    /\ supervisor \in {"start", "unstarted", "running", "send", "join", "drop", "dropped", "done"}
    /\ worker \in {"unspawned", "recv", "check", "notify", "cut", "withdraw", "wait", "unwrap",
                   "close", "mark", "begin", "settle", "finish", "exited", "panicked"}
    /\ path \in {"cut", "settle"}
    /\ service \in {"live", "closed", "kept", "stranded"} /\ shutdown_result \in ShutdownResults

SupervisorFlags ==
    /\ current \in BOOLEAN /\ disposing \in BOOLEAN /\ shutting_down \in BOOLEAN
    /\ terminal_settled \in BOOLEAN /\ asleep \in BOOLEAN /\ signal \in BOOLEAN
    /\ failed \in BOOLEAN /\ observed \in BOOLEAN /\ poisoned \in BOOLEAN
    /\ terminal_unavailable \in BOOLEAN /\ service_error \in BOOLEAN

\* The inductive invariant.
SupervisorInv ==
    /\ SupervisorOK /\ SupervisorFlags /\ SupervisorSorts /\ LeasesCounted
    /\ Held /\ Phases /\ Failures /\ Told

USE DEF SupervisorOK, Slot, Worker, Leasing, Before, Taken

\* Nobody is counted exactly when nobody leases, and the count is at most the
\* clients.
LEMMA LeasedCounted ==
    ASSUME Countable(Clients), LeasesCounted
    PROVE  /\ Leased \in SUBSET Clients
           /\ active_leases \in 0..Cardinality(Clients)
           /\ active_leases = 0 <=> Leased = {}
  <1>1. Leased \in SUBSET Clients
    BY Zenon DEF Leased
  <1>2. /\ Cardinality(Clients) \in Nat /\ Cardinality(Leased) \in Nat
        /\ Cardinality(Leased) <= Cardinality(Clients)
        /\ Cardinality(Leased) = 0 <=> Leased = {}
    BY <1>1, Zenon DEF Countable
  <1> QED BY <1>1, <1>2 DEF LeasesCounted

\* A published service nobody borrows satisfies the invariant.
LEMMA SupervisorInvInit ==
    ASSUME Countable(Clients), SupervisorOK, SupervisorInit
    PROVE  SupervisorInv
  <1>1. Leased = {}
    BY Zenon DEF SupervisorInit, Leased
  <1>2. LeasesCounted
    <2>1. Cardinality(Leased) = 0 BY <1>1, Zenon DEF Countable
    <2> QED BY <2>1, Zenon DEF SupervisorInit, LeasesCounted
  <1>3. SupervisorFlags /\ SupervisorSorts
    <2>1. SupervisorFlags BY Zenon DEF SupervisorInit, SupervisorFlags
    <2>2. SupervisorSorts BY DEF SupervisorInit, SupervisorSorts, ShutdownResults
    <2> QED BY <2>1, <2>2, Zenon
  <1>4. Held
    BY Zenon DEF SupervisorInit, Held, Holders
  <1>5. Phases /\ Failures /\ Told
    BY DEF SupervisorInit, Phases, Failures, Told
  <1> QED BY <1>2, <1>3, <1>4, <1>5, Zenon DEF SupervisorInv

\* No step but an acquisition and a drop changes a lease.
LEMMA SameLeases ==
    ASSUME LeasesCounted, UNCHANGED <<client, active_leases>>
    PROVE  LeasesCounted' /\ Leased' = Leased
  <1>1. Leased' = Leased
    BY Zenon DEF Leased
  <1> QED BY <1>1, Zenon DEF LeasesCounted

\* Every step of the clients, of the home, of the owner and of the worker
\* keeps the invariant.
LEMMA SupervisorInvNext ==
    ASSUME Countable(Clients), SupervisorInv, [SupervisorNext]_supervisorVars
    PROVE  SupervisorInv'
  <1> USE DEF SupervisorInv, home, slot, exit
  <1>1. CASE \/ HomeFails \/ GatePoisoned \/ Notify
             \/ BeginShutdown \/ Receive \/ Check
             \/ WorkerShuts
    <2>0. /\ UNCHANGED <<current, active_leases, disposing, terminal_failures,
                         terminal_settled, arcs, client, path, exit, service, shutdown_result>>
          /\ \/ UNCHANGED worker
             \/ worker = "recv" /\ worker' = "check"
             \/ worker = "check" /\ worker' \in {"begin", "notify"}
             \/ worker = "begin" /\ worker' = "settle"
          /\ supervisor' = supervisor \/ supervisor' \in {"send", "drop", "join", "dropped"}
          /\ monitor' \in {monitor, "idle", "send"}
      BY <1>1, Zenon DEF HomeFails, GatePoisoned, Notify,
         BeginShutdown, ShutThenWake, Receive,
         Check, WorkerShuts
    <2>2. SupervisorFlags'
      <3>1. CASE HomeFails BY <3>1, Zenon DEF HomeFails, SupervisorFlags
      <3>7. CASE GatePoisoned
        BY <3>7, Zenon DEF GatePoisoned, SupervisorFlags
      <3>2. CASE Notify BY <3>2, Zenon DEF Notify, SupervisorFlags
      <3>3. CASE BeginShutdown
        BY <3>3, Zenon DEF BeginShutdown, ShutThenWake,
           WorkerGone, SupervisorFlags
      <3>4. CASE Receive BY <3>4, Zenon DEF Receive, SupervisorFlags
      <3>5. CASE Check BY <3>5, Zenon DEF Check, SupervisorFlags
      <3>6. CASE WorkerShuts
        BY <3>6, Zenon DEF WorkerShuts, SupervisorFlags
      <3> QED BY <1>1, <3>1, <3>2, <3>3, <3>4, <3>5, <3>6, <3>7, Zenon
    <2>5. LeasesCounted' /\ SupervisorSorts' /\ Held' /\ Phases' /\ Failures' /\ Told'
      BY <2>0, SameLeases DEF SupervisorSorts, SupervisorFlags, Held, Holders, Phases,
         Failures, Told, IntoResult
    <2> QED BY <2>5, <2>2, Zenon
  <1>2. CASE Spawn
    <2>2. SupervisorFlags' BY <1>2, Zenon DEF Spawn, SupervisorFlags
    <2>4. LeasesCounted' /\ SupervisorSorts' /\ Held' /\ Phases' /\ Failures' /\ Told'
      BY <1>2, SameLeases, Zenon DEF Spawn, SupervisorSorts, ShutdownResults,
         Failures, SupervisorFlags, Held, Holders, Phases, Told, IntoResult
    <2> QED BY <2>4, <2>2, Zenon
  <1>3. CASE JoinWorker
    <2>2. SupervisorFlags'
      BY <1>3, Zenon DEF JoinWorker, WorkerGone, IntoResult,
         SupervisorFlags
    <2>4. LeasesCounted' /\ SupervisorSorts' /\ Held' /\ Phases' /\ Failures' /\ Told'
      BY <1>3, SameLeases DEF JoinWorker, WorkerGone, IntoResult,
         SupervisorSorts, ShutdownResults, Failures, SupervisorFlags, Held, Holders,
         Phases, Told
    <2> QED BY <2>4, <2>2, Zenon
  <1>4. CASE WorkerNotifies
    <2>2. SupervisorFlags' BY <1>4, Zenon DEF WorkerNotifies, SupervisorFlags
    <2>4. LeasesCounted' /\ SupervisorSorts' /\ Held' /\ Phases' /\ Failures' /\ Told'
      BY <1>4, SameLeases DEF WorkerNotifies, SupervisorSorts, ShutdownResults,
         Failures, SupervisorFlags, Held, Holders, Phases, Told, IntoResult
    <2> QED BY <2>4, <2>2, Zenon
  <1>5. CASE Withdraw
    <2>2. SupervisorFlags' BY <1>5, Zenon DEF Withdraw, SupervisorFlags
    <2>4. LeasesCounted' /\ SupervisorSorts' /\ Held' /\ Phases' /\ Failures' /\ Told'
      BY <1>5, SameLeases, Zenon DEF Withdraw, SupervisorSorts, ShutdownResults,
         Failures, SupervisorFlags, Held, Holders, Phases, Told, IntoResult
    <2> QED BY <2>4, <2>2, Zenon
  <1>6. CASE WaitUntilUnleased
    <2>2. SupervisorFlags' BY <1>6, Zenon DEF WaitUntilUnleased, SupervisorFlags
    <2>4. LeasesCounted' /\ SupervisorSorts' /\ Held' /\ Phases' /\ Failures' /\ Told'
      BY <1>6, SameLeases DEF WaitUntilUnleased, SupervisorSorts,
         ShutdownResults, Failures, SupervisorFlags, Held, Holders, Phases, Told,
         IntoResult
    <2> QED BY <2>4, <2>2, Zenon
  <1>7. CASE Unwrap
    <2>0. arcs = {Worker}
      <3>1. ~current /\ active_leases = 0 BY <1>7, Zenon DEF Unwrap, Phases
      <3>2. Leased = {} BY <3>1, LeasedCounted, Zenon
      <3> QED BY <1>7, <3>1, <3>2, Zenon DEF Unwrap, Held, Holders, Leased
    <2>2. SupervisorFlags' BY <1>7, Zenon DEF Unwrap, SupervisorFlags
    <2>7. LeasesCounted' /\ SupervisorSorts' /\ Held' /\ Phases' /\ Failures' /\ Told'
      BY <1>7, SameLeases, <2>0 DEF Unwrap, SupervisorSorts, ShutdownResults,
         Failures, SupervisorFlags, Held, Holders, Phases, Told, IntoResult
    <2> QED BY <2>7, <2>2, Zenon
  <1>8. CASE CloseService
    <2>2. SupervisorFlags' BY <1>8, Zenon DEF CloseService, SupervisorFlags
    <2>6. Failures'
      <3>1. terminal_unavailable' <=> (terminal_unavailable \/ path = "cut")
        BY <1>8, Zenon DEF CloseService
      <3> QED BY <1>8, <3>1 DEF CloseService, SupervisorFlags, SupervisorSorts,
         Phases, Failures
    <2>7. LeasesCounted' /\ SupervisorSorts' /\ Held' /\ Phases' /\ Told'
      BY <1>8, SameLeases DEF CloseService, SupervisorSorts, ShutdownResults,
         Failures, SupervisorFlags, Held, Holders, Phases, Told, IntoResult
    <2> QED BY <2>7, <2>2, <2>6, Zenon
  <1>9. CASE MarkTerminal
    <2>2. SupervisorFlags' BY <1>9, Zenon DEF MarkTerminal, SupervisorFlags
    <2>4. LeasesCounted' /\ SupervisorSorts' /\ Held' /\ Phases' /\ Failures' /\ Told'
      BY <1>9, SameLeases DEF MarkTerminal, SupervisorSorts, ShutdownResults,
         Failures, SupervisorFlags, Held, Holders, Phases, Told, IntoResult
    <2> QED BY <2>4, <2>2, Zenon
  <1>10. CASE Settle
    <2>2. SupervisorFlags' BY <1>10, Zenon DEF Settle, SupervisorFlags
    <2>4. LeasesCounted' /\ SupervisorSorts' /\ Held' /\ Phases' /\ Failures' /\ Told'
      BY <1>10, SameLeases DEF Settle, SupervisorSorts, ShutdownResults,
         Failures, SupervisorFlags, Held, Holders, Phases, Told, IntoResult
    <2> QED BY <2>4, <2>2, Zenon
  <1>11. CASE FinishSettlement
    <2>2. SupervisorFlags' BY <1>11, Zenon DEF FinishSettlement, SupervisorFlags
    <2>4. LeasesCounted' /\ SupervisorSorts' /\ Held' /\ Phases' /\ Failures' /\ Told'
      BY <1>11, SameLeases DEF FinishSettlement, SupervisorSorts, ShutdownResults,
         Failures, SupervisorFlags, Held, Holders, Phases, Told, IntoResult
    <2> QED BY <2>4, <2>2, Zenon
  <1>12. ASSUME NEW c \in Clients, AcquireLease(c) PROVE SupervisorInv'
    <2>0. client[c] = "idle" /\ client' = [client EXCEPT ![c] = "leased"]
          /\ active_leases' = active_leases + 1
      BY <1>12, Zenon DEF AcquireLease
    <2>1. Leased' = Leased \cup {c} /\ c \notin Leased
      BY <2>0, Zenon DEF Leased, SupervisorSorts
    <2>2. LeasesCounted'
      BY <2>0, <2>1, LeasedCounted, Zenon DEF LeasesCounted, Countable
    <2>7. SupervisorFlags' /\ SupervisorSorts' /\ Held' /\ Phases' /\ Failures' /\ Told'
      BY <1>12 DEF AcquireLease, SupervisorFlags, SupervisorSorts,
         Available, Held, Holders, Phases, Failures, Told, IntoResult
    <2> QED BY <2>2, <2>7, Zenon
  <1>13. ASSUME NEW c \in Clients, DropLease(c) PROVE SupervisorInv'
    <2>0. UNCHANGED <<current, disposing, shutting_down, terminal_failures,
                      terminal_settled, signal, home, supervisor, worker, path,
                      exit, service, shutdown_result>>
      BY <1>13, Zenon DEF DropLease
    <2>1. CASE client[c] = "leased"
      <3>1. /\ client' = [client EXCEPT ![c] = "dropping"] /\ arcs' = arcs \ {c}
            /\ active_leases' = active_leases /\ asleep' = asleep
        BY <1>13, <2>1, Zenon DEF DropLease, DropSteps
      <3>2. Leased' = Leased
        BY <2>1, <3>1, Zenon DEF Leased, SupervisorSorts
      <3>3. Holders' = Holders \ {c}
        BY <2>0, <2>1, <3>1, Zenon DEF Holders, SupervisorSorts
      <3>4. LeasesCounted' /\ SupervisorFlags' /\ Held'
        BY <2>0, <3>1, <3>2, <3>3, Zenon DEF LeasesCounted, SupervisorFlags, Held
      <3>5. Phases' /\ Failures' /\ Told'
        BY <2>0, <3>1, Zenon DEF Phases, Failures, Told, IntoResult
      <3>6. arcs' \subseteq {Slot, Worker} \cup Clients
        BY <3>1, Zenon DEF SupervisorSorts
      <3>7. SupervisorSorts' BY <2>0, <3>1, <3>6 DEF SupervisorSorts
      <3> QED BY <3>4, <3>5, <3>7, Zenon
    <2>2. CASE client[c] = "dropping"
      <3>1. /\ client' = [client EXCEPT ![c] = "idle"] /\ arcs' = arcs
            /\ active_leases' = active_leases - 1 /\ asleep' = (asleep /\ active_leases # 1)
        BY <1>13, <2>2, Zenon DEF DropLease, DropSteps
      <3>2. Leased' = Leased \ {c} /\ c \in Leased
        BY <2>2, <3>1, Zenon DEF Leased, SupervisorSorts
      <3>3. Holders' = Holders
        BY <2>0, <2>2, <3>1, Zenon DEF Holders, SupervisorSorts
      <3>4. LeasesCounted'
        BY <3>1, <3>2, LeasedCounted, Zenon DEF LeasesCounted, Countable
      <3>5. SupervisorFlags' /\ Held' BY <2>0, <3>1, <3>3, Zenon DEF SupervisorFlags, Held
      <3>6. active_leases # 0 BY <3>2, LeasedCounted, Zenon
      <3>7. SupervisorSorts' /\ Phases' /\ Failures' /\ Told'
        BY <2>0, <3>1, <3>6 DEF SupervisorSorts, Phases, Failures, Told, IntoResult
      <3> QED BY <3>4, <3>5, <3>7, Zenon
    <2> QED BY <1>13, <2>1, <2>2, Zenon DEF DropLease, DropSteps
  <1>14. CASE UNCHANGED supervisorVars
    <2>1. LeasesCounted' BY <1>14, SameLeases, Zenon DEF supervisorVars
    <2> QED BY <1>14, <2>1 DEF supervisorVars, SupervisorFlags, SupervisorSorts, Held,
       Holders, Phases, Failures, Told, IntoResult
  <1> HIDE DEF SupervisorInv
  <1> QED BY <1>1, <1>2, <1>3, <1>4, <1>5, <1>6, <1>7, <1>8, <1>9, <1>10, <1>11, <1>12,
     <1>13, <1>14, Zenon DEF SupervisorNext, OwnerStep, WorkerStep

\* What the invariant says of the service and of what the owner is told.
LEMMA SupervisorGives ==
    ASSUME Countable(Clients), SupervisorInv
    PROVE  NeverStranded /\ ResultIsTruthful
  <1>1. SupervisorTypeOK
    <2>1. {current, disposing, shutting_down, terminal_settled, asleep, signal, failed, observed,
           poisoned, terminal_unavailable, service_error} \subseteq BOOLEAN
      BY Zenon DEF SupervisorInv, SupervisorFlags
    <2>2. active_leases \in 0..Cardinality(Clients) BY LeasedCounted, Zenon DEF SupervisorInv
    <2> QED BY <2>1, <2>2, Zenon DEF SupervisorInv, SupervisorSorts,
       SupervisorTypeOK
  <1>2. Cardinality(arcs \cap Clients) <= active_leases
    <2>1. arcs \cap Clients \in SUBSET Leased BY Zenon DEF SupervisorInv, Held, Holders, Leased
    <2>2. Cardinality(arcs \cap Clients) <= Cardinality(Leased)
      BY <2>1, LeasedCounted, Zenon DEF SupervisorInv, Countable
    <2> QED BY <2>2, Zenon DEF SupervisorInv, LeasesCounted
  <1>3. worker = "exited" => ~current /\ arcs = {} /\ service \in {"closed", "kept"}
    <2> SUFFICES ASSUME worker = "exited"
                 PROVE  ~current /\ arcs = {} /\ service \in {"closed", "kept"}
      BY Zenon
    <2>1. ~current /\ active_leases = 0 /\ service \in {"closed", "kept"}
      BY Zenon DEF SupervisorInv, Phases
    <2>2. Leased = {} BY <2>1, LeasedCounted, Zenon DEF SupervisorInv
    <2> QED BY <2>1, <2>2, Zenon DEF SupervisorInv, Held, Holders, Leased
  <1>4. NeverStranded
    <2>1. service # "stranded" /\ worker # "panicked" BY Zenon DEF SupervisorInv, Phases
    <2> QED BY <1>1, <1>2, <1>3, <2>1, Zenon DEF NeverStranded
  <1>5. ResultIsTruthful
    BY DEF SupervisorInv, SupervisorFlags, SupervisorSorts, Phases, Failures, Told,
       IntoResult, ResultIsTruthful
  <1> QED BY <1>4, <1>5, Zenon
-----------------------------------------------------------------------------
INSTANCE FiniteSetTheorems

\* Every finite set has what the proofs use of its subsets' cardinalities.
LEMMA FiniteIsCountable ==
    ASSUME NEW T, IsFiniteSet(T)
    PROVE  Countable(T)
  <1> SUFFICES ASSUME NEW S \in SUBSET T
               PROVE  /\ Cardinality(S) \in Nat /\ (Cardinality(S) = 0 <=> S = {})
                      /\ \A x \in T \ S : Cardinality(S \cup {x}) = Cardinality(S) + 1
                      /\ \A x \in S : Cardinality(S \ {x}) = Cardinality(S) - 1
                      /\ \A R \in SUBSET S : Cardinality(R) <= Cardinality(S)
    BY Zenon DEF Countable
  <1>1. IsFiniteSet(S) BY FS_Subset, Zenon
  <1>2. Cardinality(S) \in Nat BY <1>1, FS_CardinalityType, Zenon
  <1>3. Cardinality(S) = 0 <=> S = {} BY <1>1, FS_EmptySet, Zenon
  <1>4. \A x \in T \ S : Cardinality(S \cup {x}) = Cardinality(S) + 1
    BY <1>1, FS_AddElement, Zenon
  <1>5. \A x \in S : Cardinality(S \ {x}) = Cardinality(S) - 1
    BY <1>1, FS_RemoveElement, Zenon
  <1>6. \A R \in SUBSET S : Cardinality(R) <= Cardinality(S)
    BY <1>1, FS_Subset, Zenon
  <1> QED BY <1>2, <1>3, <1>4, <1>5, <1>6, Zenon

(* Every reachable state of the registry of reconciliation.rs satisfies the  *)
(* invariant: slots own their scopes, claimable flights belong to scopes     *)
(* still verifying, and workers are counted.                                 *)
THEOREM Safe == Spec => []IInv
  <1>1. Countable(Threads) BY ThreadsAssumption, FiniteIsCountable, Zenon
  <1>2. Init => IInv BY <1>1, InitIInv, Zenon
  <1>3. IInv /\ [Next]_vars => IInv' BY <1>1, NextIInv, Zenon
  <1> QED BY <1>2, <1>3, PTL DEF Spec

\* There are finitely many bytes, so they can be counted.
LEMMA BytesAreWeighed == Weighed
  <1>0. ScopeCapacity \in Nat /\ DescriptorLimit \in Nat
    BY CapacityAssumption, LimitAssumption, Zenon
  <1>1. IsFiniteSet(Indexes) BY <1>0, FS_Interval DEF Indexes
  <1>2. IsFiniteSet(1..DescriptorLimit) BY <1>0, FS_Interval
  <1>3. IsFiniteSet(AllBytes) BY <1>1, <1>2, FS_Product, Zenon DEF AllBytes
  <1>4. ASSUME NEW X \in SUBSET AllBytes PROVE IsFiniteSet(X) /\ Cardinality(X) \in Nat
    BY <1>3, FS_Subset, FS_CardinalityType, Zenon
  <1>5. ASSUME NEW X \in SUBSET AllBytes, NEW Y \in SUBSET AllBytes, X \cap Y = {}
        PROVE  Cardinality(X \cup Y) = Cardinality(X) + Cardinality(Y)
    <2>1. /\ IsFiniteSet(X) /\ Cardinality(X) \in Nat
          /\ IsFiniteSet(Y) /\ Cardinality(Y) \in Nat
      BY <1>4, Zenon
    <2>2. Cardinality(X \cup Y) = Cardinality(X) + Cardinality(Y) - Cardinality(X \cap Y)
      BY <2>1, FS_Union, Zenon
    <2>3. Cardinality(X \cap Y) = 0 BY <1>5, FS_EmptySet, Zenon
    <2> QED BY <2>1, <2>2, <2>3
  <1>6. ASSUME NEW i \in Indexes, NEW n \in 0..DescriptorLimit
        PROVE  Cardinality({i} \X (1..n)) = n
    <2>1. n \in Nat BY <1>0
    <2>2. IsFiniteSet(1..n) /\ Cardinality(1..n) = n BY <2>1, FS_Interval
    <2>3. IsFiniteSet({i}) /\ Cardinality({i}) = 1 BY FS_Singleton, Zenon
    <2>4. Cardinality({i} \X (1..n)) = Cardinality({i}) * Cardinality(1..n)
      BY <2>2, <2>3, FS_Product, Zenon
    <2> QED BY <2>1, <2>2, <2>3, <2>4
  <1> QED BY <1>4, <1>5, <1>6, Zenon DEF Weighed

(* The tables of the registry stay consistent: the reserved bytes are those  *)
(* charged to its scopes and within the limit, the slots out are those of    *)
(* the reserved scopes, and an installed scope retains the core.             *)
THEOREM TableStaysConsistent == Spec => []TableConsistent
  <1>1. Countable(Threads) BY ThreadsAssumption, FiniteIsCountable, Zenon
  <1>2. Init => Charges BY BytesAreWeighed, InitCharges, Zenon
  <1>3. IInv /\ Charges /\ [Next]_vars => Charges' BY <1>1, BytesAreWeighed, NextCharges, Zenon
  <1>4. IInv /\ Charges => TableConsistent
    <2> SUFFICES ASSUME IInv, Charges PROVE TableConsistent BY Zenon
    <2>1. Bytes(Indexes) \in SUBSET AllBytes /\ Busy \in SUBSET Threads
      BY Zenon DEF Bytes, AllBytes, Busy
    <2>2. Cardinality(Bytes(Indexes)) \in Nat BY <2>1, BytesAreWeighed, Zenon DEF Weighed
    <2>3. Cardinality(Busy) \in Nat BY <1>1, <2>1, Zenon DEF Countable
    <2>4. reserved_bytes \in 0..ReservedLimit /\ active_workers \in 0..WorkerCapacity
      BY <2>2, <2>3, CapacityAssumption, LimitAssumption DEF Charges, IInv, Counted
    <2>5. TypeOK BY <2>4, Zenon DEF TypeOK, IInv, Flags, Sorts, Charges
    <2>6. \A k \in slots : IsScope(k, "Reserved") /\ k < next_token BY Zenon DEF IInv, Owned
    <2>7. \A i \in Indexes : kind[i] = "Reserved" => token[i] \in slots BY Zenon DEF IInv, Owned
    <2> QED BY <2>5, <2>6, <2>7, Zenon DEF TableConsistent, Charges, IInv, Kept
  <1> QED BY Safe, <1>2, <1>3, <1>4, PTL DEF Spec

(* A flight has one runner, and its scope stays Verifying until that runner  *)
(* finishes it, also against callers with stale handles.                     *)
THEOREM OneRunner == Spec => []RunnerOwnsScope
  <1>1. IInv => RunnerOwnsScope BY Zenon DEF IInv
  <1> QED BY Safe, <1>1, PTL

(* The workers are counted exactly, and none stays free while a caller       *)
(* sleeps for one: the notify_one of finish_worker is enough.                *)
THEOREM NoWorkerIdles == Spec => []WorkersUsed
  <1>1. IInv => WorkersUsed
    BY Zenon DEF IInv, Counted, Awake, Busy, Sleeping, Acquiring, WorkersUsed
  <1> QED BY Safe, <1>1, PTL

(* Once begin_close has reported no pending scope there never is one again.  *)
THEOREM CloseFindsNothing == Spec => []CloseIsFinal
  <1>1. IInv => CloseIsFinal BY Zenon DEF IInv, Quiet, CloseIsFinal
  <1> QED BY Safe, <1>1, PTL

(* A resolution is never revised, neither by retry_reconciliation nor by a   *)
(* later operation that reuses the index.                                    *)
THEOREM ResolutionsStay == Spec => ResolutionIsFinal
  <1> DEFINE Keeps == \A k \in Tokens : flight[k] \in Resolutions => flight'[k] = flight[k]
  <1>1. IInv /\ [Next]_vars => [Keeps]_vars BY NextKeepsResolutions, Zenon
  <1>2. Spec => [][Keeps]_vars BY Safe, <1>1, PTL DEF Spec
  <1> QED BY <1>2, Zenon DEF ResolutionIsFinal

(* Every reachable state of slot, leases and worker satisfies the invariant. *)
THEOREM SupervisorSafe == SupervisorSpec => []SupervisorInv
  <1>1. SupervisorOK => Countable(Clients) BY FiniteIsCountable, Zenon
  <1>2. SupervisorOK /\ SupervisorInit => SupervisorInv BY <1>1, SupervisorInvInit, Zenon
  <1>3. SupervisorInv /\ [SupervisorNext]_supervisorVars => SupervisorInv'
    BY <1>1, SupervisorInvNext, Zenon DEF SupervisorInv
  <1> QED BY SupervisorConstants, <1>2, <1>3, PTL DEF SupervisorSpec

(* The service is taken apart once and by its sole holder: try_unwrap in the *)
(* worker never fails, and a worker that has ended has closed the service or *)
(* keeps it in the error it returns.                                         *)
THEOREM ServiceNeverStranded == SupervisorSpec => []NeverStranded
  <1>1. SupervisorInv => NeverStranded
    BY FiniteIsCountable, SupervisorGives, Zenon DEF SupervisorInv
  <1> QED BY <1>1, SupervisorSafe, PTL

(* What shutdown and the diagnostics tell the owner about the service, its   *)
(* leases and a terminal failure is true.                                    *)
THEOREM ShutdownIsTruthful == SupervisorSpec => []ResultIsTruthful
  <1>1. SupervisorInv => ResultIsTruthful
    BY FiniteIsCountable, SupervisorGives, Zenon DEF SupervisorInv
  <1> QED BY <1>1, SupervisorSafe, PTL
=============================================================================
