----------------------- MODULE AdmissionReplayProofs ------------------------
(* First the process admission gate and the locks around it, for every       *)
(* finite set of workers and every bound on epochs: no set of threads waits  *)
(* in a cycle, and a published settlement stays settled. Then the recovery   *)
(* source over its pool of one page, for every length of the history and     *)
(* every width of the counters: what is replayed is a prefix of the history, *)
(* and the page is neither lost nor shared.                                  *)
EXTENDS ProcessAdmission, RecoverySource, TLAPS

\* The operations that lock the command gate and then the process gate.
GateFirst == {"authorize", "commit", "reserve", "settle", "reopen"}

\* The sets of locks an operation goes through, in the order of its plan.
Prefixes(o) ==
    CASE o = "idle" -> {{}}
      [] o \in GateFirst -> {{}, {"gate"}, {"gate", "process"}}
      [] o \in {"release", "fence"} -> {{}, {"process"}}
      [] o = "cut" -> {{}, {"gate"}}
      [] o \in {"select", "window"} -> {{}, {"process"}, {"process", "registry"}}
      [] o = "flight" -> {{}, {"registry"}}
      [] o = "close" -> {{}, {"process"}, {"process", "registry"}, {"gate", "process", "registry"}}

\* What TypeOK says of everything but the count of admissions.
Flags == fenced \in BOOLEAN /\ gate_open \in BOOLEAN /\ published \in BOOLEAN

Sorts ==
    /\ epoch \in 1..EpochMax
    /\ lock \in [Locks -> {<<>>} \cup {<<t>> : t \in Threads}]
    /\ op \in [Threads -> DOMAIN Plan \cup {"idle"}]
    /\ permit \in [Threads -> 0..EpochMax] /\ fence \in 0..EpochMax
    /\ current \subseteq Threads /\ fresh \subseteq Threads
    /\ candidates \subseteq Workers /\ reserved \subseteq Workers /\ selecting \subseteq Workers

\* A thread holds an initial part of the locks of its operation.
InOrder == \A t \in Threads : Held(t) \in Prefixes(op[t])

\* The count of admissions is that of the reservations, and a published
\* settlement found none and is still behind its fence.
Reservations ==
    /\ admissions = Cardinality(Holders)
    /\ \A t \in Threads : /\ op[t] \in {"reserve", "select"} => t \notin Holders
                          /\ op[t] = "release" => t \in Holders
    /\ published => fenced /\ fence = epoch /\ Holders = {}

\* A permit of the gate's epoch was issued after the last fence.
Permits ==
    \A t \in Threads : /\ permit[t] <= epoch
                       /\ permit[t] = epoch => ~fenced /\ t \in fresh

\* The inductive invariant.
IInv == Flags /\ Sorts /\ InOrder /\ Reservations /\ Permits

\* The operations of Plan.
Operations == GateFirst \cup {"release", "fence", "cut", "select", "window", "flight", "close"}

USE WorkersAssumption, EpochMaxAssumption

\* The plans, operation by operation.
LEMMA PlanIs ==
    /\ DOMAIN Plan = Operations
    /\ \A o \in GateFirst : Plan[o] = <<Wait("gate"), Wait("process")>>
    /\ \A o \in {"release", "fence"} : Plan[o] = <<Wait("process")>>
    /\ Plan["cut"] = <<Wait("gate")>>
    /\ Plan["select"] = <<Try("process"), Try("registry")>>
    /\ Plan["window"] = <<Wait("process"), Wait("registry")>>
    /\ Plan["flight"] = <<Wait("registry")>>
    /\ Plan["close"] = <<Wait("process"), Try("registry"), Try("gate")>>
  <1>1. DOMAIN Plan = Operations BY Zenon DEF Plan, Operations, GateFirst
  <1>2. \A o \in GateFirst : Plan[o] = <<Wait("gate"), Wait("process")>>
    BY DEF Plan, GateFirst
  <1>3. \A o \in {"release", "fence"} : Plan[o] = <<Wait("process")>> BY DEF Plan
  <1>4. Plan["cut"] = <<Wait("gate")>> BY Zenon DEF Plan
  <1>5. /\ Plan["select"] = <<Try("process"), Try("registry")>>
        /\ Plan["window"] = <<Wait("process"), Wait("registry")>>
    BY Zenon DEF Plan
  <1>6. Plan["flight"] = <<Wait("registry")>> BY Zenon DEF Plan
  <1>7. Plan["close"] = <<Wait("process"), Try("registry"), Try("gate")>> BY Zenon DEF Plan
  <1> QED BY <1>1, <1>2, <1>3, <1>4, <1>5, <1>6, <1>7

\* What the proofs use of cardinalities: how many locks each initial part has,
\* and how the reservations are counted.
Counting ==
    /\ Cardinality({}) = 0
    /\ \A l : Cardinality({l}) = 1
    /\ Cardinality({"gate", "process"}) = 2 /\ Cardinality({"process", "registry"}) = 2
    /\ Cardinality({"gate", "process", "registry"}) = 3
    /\ \A S \in SUBSET Workers :
          /\ Cardinality(S) \in Nat /\ (Cardinality(S) = 0 => S = {})
          /\ \A x \in Workers \ S : Cardinality(S \cup {x}) = Cardinality(S) + 1
          /\ \A x \in S : Cardinality(S \ {x}) = Cardinality(S) - 1
          /\ Cardinality(S) <= Cardinality(Workers)

\* A thread that holds S and takes next, and one that has all its locks.
At(t, S, next) == Held(t) = S /\ ~HoldsAll(t) /\ NextLock(t) = next
Done(t, S) == Held(t) = S /\ HoldsAll(t)

\* Where each thread is in its plan.
LEMMA Position ==
    ASSUME Counting, Sorts, InOrder, NEW t \in Threads
    PROVE  /\ op[t] \in Operations \cup {"idle"}
           /\ op[t] = "idle" => Held(t) = {} /\ ~HoldsAll(t)
           /\ op[t] \in GateFirst =>
                 \/ At(t, {}, Wait("gate"))
                 \/ At(t, {"gate"}, Wait("process"))
                 \/ Done(t, {"gate", "process"})
           /\ op[t] \in {"release", "fence"} =>
                 \/ At(t, {}, Wait("process"))
                 \/ Done(t, {"process"})
           /\ op[t] = "cut" =>
                 \/ At(t, {}, Wait("gate"))
                 \/ Done(t, {"gate"})
           /\ op[t] = "select" =>
                 \/ At(t, {}, Try("process"))
                 \/ At(t, {"process"}, Try("registry"))
                 \/ Done(t, {"process", "registry"})
           /\ op[t] = "window" =>
                 \/ At(t, {}, Wait("process"))
                 \/ At(t, {"process"}, Wait("registry"))
                 \/ Done(t, {"process", "registry"})
           /\ op[t] = "flight" =>
                 \/ At(t, {}, Wait("registry"))
                 \/ Done(t, {"registry"})
           /\ op[t] = "close" =>
                 \/ At(t, {}, Wait("process"))
                 \/ At(t, {"process"}, Try("registry"))
                 \/ At(t, {"process", "registry"}, Try("gate"))
                 \/ Done(t, {"gate", "process", "registry"})
  <1>1. Held(t) \in Prefixes(op[t]) BY Zenon DEF InOrder
  <1>2. op[t] \in Operations \cup {"idle"} BY PlanIs, Zenon DEF Sorts
  <1>3. op[t] = "idle" => Held(t) = {} /\ ~HoldsAll(t)
    BY <1>1, Zenon DEF Prefixes, HoldsAll, GateFirst
  <1>4. ASSUME op[t] \in GateFirst
        PROVE  \/ At(t, {}, Wait("gate"))
               \/ At(t, {"gate"}, Wait("process"))
               \/ Done(t, {"gate", "process"})
    <2>1. Held(t) \in {{}, {"gate"}, {"gate", "process"}}
      BY <1>1, <1>4, Zenon DEF Prefixes, GateFirst
    <2>2. op[t] # "idle" /\ Plan[op[t]] = <<Wait("gate"), Wait("process")>>
      BY <1>4, PlanIs, Zenon DEF GateFirst
    <2>3. CASE Held(t) = {}
      <3>1. Cardinality(Held(t)) = 0 BY <2>3, Zenon DEF Counting
      <3> QED BY <2>2, <2>3, <3>1 DEF At, Done, HoldsAll, NextLock
    <2>4. CASE Held(t) = {"gate"}
      <3>1. Cardinality(Held(t)) = 1 BY <2>4, Zenon DEF Counting
      <3> QED BY <2>2, <2>4, <3>1 DEF At, Done, HoldsAll, NextLock
    <2>5. CASE Held(t) = {"gate", "process"}
      <3>1. Cardinality(Held(t)) = 2 BY <2>5, Zenon DEF Counting
      <3> QED BY <2>2, <2>5, <3>1, Zenon DEF At, Done, HoldsAll, NextLock
    <2> QED BY <2>1, <2>3, <2>4, <2>5
  <1>5. ASSUME op[t] \in {"release", "fence"}
        PROVE  \/ At(t, {}, Wait("process"))
               \/ Done(t, {"process"})
    <2>1. Held(t) \in {{}, {"process"}} BY <1>1, <1>5, Zenon DEF Prefixes, GateFirst
    <2>2. op[t] # "idle" /\ Plan[op[t]] = <<Wait("process")>> BY <1>5, PlanIs, Zenon DEF GateFirst
    <2>3. CASE Held(t) = {}
      <3>1. Cardinality(Held(t)) = 0 BY <2>3, Zenon DEF Counting
      <3> QED BY <2>2, <2>3, <3>1 DEF At, Done, HoldsAll, NextLock
    <2>4. CASE Held(t) = {"process"}
      <3>1. Cardinality(Held(t)) = 1 BY <2>4, Zenon DEF Counting
      <3> QED BY <2>2, <2>4, <3>1, Zenon DEF At, Done, HoldsAll, NextLock
    <2> QED BY <2>1, <2>3, <2>4, Zenon
  <1>6. ASSUME op[t] = "cut"
        PROVE  \/ At(t, {}, Wait("gate"))
               \/ Done(t, {"gate"})
    <2>1. Held(t) \in {{}, {"gate"}} BY <1>1, <1>6, Zenon DEF Prefixes, GateFirst
    <2>2. op[t] # "idle" /\ Plan[op[t]] = <<Wait("gate")>> BY <1>6, PlanIs, Zenon DEF GateFirst
    <2>3. CASE Held(t) = {}
      <3>1. Cardinality(Held(t)) = 0 BY <2>3, Zenon DEF Counting
      <3> QED BY <2>2, <2>3, <3>1 DEF At, Done, HoldsAll, NextLock
    <2>4. CASE Held(t) = {"gate"}
      <3>1. Cardinality(Held(t)) = 1 BY <2>4, Zenon DEF Counting
      <3> QED BY <2>2, <2>4, <3>1 DEF At, Done, HoldsAll, NextLock
    <2> QED BY <2>1, <2>3, <2>4, Zenon
  <1>7. ASSUME op[t] = "window"
        PROVE  \/ At(t, {}, Wait("process"))
               \/ At(t, {"process"}, Wait("registry"))
               \/ Done(t, {"process", "registry"})
    <2>1. Held(t) \in {{}, {"process"}, {"process", "registry"}}
      BY <1>1, <1>7, Zenon DEF Prefixes, GateFirst
    <2>2. op[t] # "idle" /\ Plan[op[t]] = <<Wait("process"), Wait("registry")>>
      BY <1>7, PlanIs, Zenon DEF GateFirst
    <2>3. CASE Held(t) = {}
      <3>1. Cardinality(Held(t)) = 0 BY <2>3, Zenon DEF Counting
      <3> QED BY <2>2, <2>3, <3>1 DEF At, Done, HoldsAll, NextLock
    <2>4. CASE Held(t) = {"process"}
      <3>1. Cardinality(Held(t)) = 1 BY <2>4, Zenon DEF Counting
      <3> QED BY <2>2, <2>4, <3>1 DEF At, Done, HoldsAll, NextLock
    <2>5. CASE Held(t) = {"process", "registry"}
      <3>1. Cardinality(Held(t)) = 2 BY <2>5, Zenon DEF Counting
      <3> QED BY <2>2, <2>5, <3>1 DEF At, Done, HoldsAll, NextLock
    <2> QED BY <2>1, <2>3, <2>4, <2>5, Zenon
  <1>8. ASSUME op[t] = "flight"
        PROVE  \/ At(t, {}, Wait("registry"))
               \/ Done(t, {"registry"})
    <2>1. Held(t) \in {{}, {"registry"}} BY <1>1, <1>8, Zenon DEF Prefixes, GateFirst
    <2>2. op[t] # "idle" /\ Plan[op[t]] = <<Wait("registry")>> BY <1>8, PlanIs, Zenon DEF GateFirst
    <2>3. CASE Held(t) = {}
      <3>1. Cardinality(Held(t)) = 0 BY <2>3, Zenon DEF Counting
      <3> QED BY <2>2, <2>3, <3>1 DEF At, Done, HoldsAll, NextLock
    <2>4. CASE Held(t) = {"registry"}
      <3>1. Cardinality(Held(t)) = 1 BY <2>4, Zenon DEF Counting
      <3> QED BY <2>2, <2>4, <3>1 DEF At, Done, HoldsAll, NextLock
    <2> QED BY <2>1, <2>3, <2>4, Zenon
  <1>9. ASSUME op[t] = "close"
        PROVE  \/ At(t, {}, Wait("process"))
               \/ At(t, {"process"}, Try("registry"))
               \/ At(t, {"process", "registry"}, Try("gate"))
               \/ Done(t, {"gate", "process", "registry"})
    <2>1. Held(t) \in {{}, {"process"}, {"process", "registry"}, {"gate", "process", "registry"}}
      BY <1>1, <1>9, Zenon DEF Prefixes, GateFirst
    <2>2. op[t] # "idle" /\ Plan[op[t]] = <<Wait("process"), Try("registry"), Try("gate")>>
      BY <1>9, PlanIs, Zenon DEF GateFirst
    <2>3. CASE Held(t) = {}
      <3>1. Cardinality(Held(t)) = 0 BY <2>3, Zenon DEF Counting
      <3> QED BY <2>2, <2>3, <3>1 DEF At, Done, HoldsAll, NextLock
    <2>4. CASE Held(t) = {"process"}
      <3>1. Cardinality(Held(t)) = 1 BY <2>4, Zenon DEF Counting
      <3> QED BY <2>2, <2>4, <3>1 DEF At, Done, HoldsAll, NextLock
    <2>5. CASE Held(t) = {"process", "registry"}
      <3>1. Cardinality(Held(t)) = 2 BY <2>5, Zenon DEF Counting
      <3> QED BY <2>2, <2>5, <3>1 DEF At, Done, HoldsAll, NextLock
    <2>6. CASE Held(t) = {"gate", "process", "registry"}
      <3>1. Cardinality(Held(t)) = 3 BY <2>6, Zenon DEF Counting
      <3> QED BY <2>2, <2>6, <3>1 DEF At, Done, HoldsAll, NextLock
    <2> QED BY <2>1, <2>3, <2>4, <2>5, <2>6
  <1>10. ASSUME op[t] = "select"
        PROVE  \/ At(t, {}, Try("process"))
               \/ At(t, {"process"}, Try("registry"))
               \/ Done(t, {"process", "registry"})
    <2>1. Held(t) \in {{}, {"process"}, {"process", "registry"}}
      BY <1>1, <1>10, Zenon DEF Prefixes, GateFirst
    <2>2. op[t] # "idle" /\ Plan[op[t]] = <<Try("process"), Try("registry")>>
      BY <1>10, PlanIs, Zenon DEF GateFirst
    <2>3. CASE Held(t) = {}
      <3>1. Cardinality(Held(t)) = 0 BY <2>3, Zenon DEF Counting
      <3> QED BY <2>2, <2>3, <3>1 DEF At, Done, HoldsAll, NextLock
    <2>4. CASE Held(t) = {"process"}
      <3>1. Cardinality(Held(t)) = 1 BY <2>4, Zenon DEF Counting
      <3> QED BY <2>2, <2>4, <3>1 DEF At, Done, HoldsAll, NextLock
    <2>5. CASE Held(t) = {"process", "registry"}
      <3>1. Cardinality(Held(t)) = 2 BY <2>5, Zenon DEF Counting
      <3> QED BY <2>2, <2>5, <3>1 DEF At, Done, HoldsAll, NextLock
    <2> QED BY <2>1, <2>3, <2>4, <2>5, Zenon
  <1> QED BY <1>2, <1>3, <1>4, <1>5, <1>6, <1>7, <1>8, <1>9, <1>10

\* The next lock of a plan is not yet held, and taking it keeps the order.
LEMMA Steps ==
    ASSUME Counting, Sorts, InOrder, NEW t \in Threads, op[t] # "idle", ~HoldsAll(t)
    PROVE  /\ NextLock(t).lock \in Locks \ Held(t)
           /\ Held(t) \cup {NextLock(t).lock} \in Prefixes(op[t])
  <1>1. CASE op[t] \in GateFirst
    <2>1. At(t, {}, Wait("gate")) \/ At(t, {"gate"}, Wait("process"))
      BY <1>1, Position, Zenon DEF Done
    <2> QED BY <1>1, <2>1 DEF At, Wait, Locks, Prefixes, GateFirst
  <1>2. CASE op[t] \in {"release", "fence"}
    <2>1. At(t, {}, Wait("process")) BY <1>2, Position, Zenon DEF Done
    <2> QED BY <1>2, <2>1 DEF At, Wait, Locks, Prefixes, GateFirst
  <1>3. CASE op[t] = "cut"
    <2>1. At(t, {}, Wait("gate")) BY <1>3, Position, Zenon DEF Done
    <2> QED BY <1>3, <2>1 DEF At, Wait, Locks, Prefixes, GateFirst
  <1>4. CASE op[t] = "window"
    <2>1. At(t, {}, Wait("process")) \/ At(t, {"process"}, Wait("registry"))
      BY <1>4, Position, Zenon DEF Done
    <2> QED BY <1>4, <2>1 DEF At, Wait, Locks, Prefixes, GateFirst
  <1>5. CASE op[t] = "flight"
    <2>1. At(t, {}, Wait("registry")) BY <1>5, Position, Zenon DEF Done
    <2> QED BY <1>5, <2>1 DEF At, Wait, Locks, Prefixes, GateFirst
  <1>6. CASE op[t] = "close"
    <2>1. \/ At(t, {}, Wait("process")) \/ At(t, {"process"}, Try("registry"))
          \/ At(t, {"process", "registry"}, Try("gate"))
      BY <1>6, Position, Zenon DEF Done
    <2> QED BY <1>6, <2>1 DEF At, Wait, Try, Locks, Prefixes, GateFirst
  <1>7. CASE op[t] = "select"
    <2>1. At(t, {}, Try("process")) \/ At(t, {"process"}, Try("registry"))
      BY <1>7, Position, Zenon DEF Done
    <2> QED BY <1>7, <2>1 DEF At, Try, Locks, Prefixes, GateFirst
  <1> QED BY <1>1, <1>2, <1>3, <1>4, <1>5, <1>6, <1>7, Position DEF Operations

\* A thread takes the next lock of its plan, or gives all of them back.
LEMMA Locking ==
    ASSUME Counting, Sorts, InOrder, NEW t \in Threads,
           \/ Take(t)
           \/ Return(t)
    PROVE  /\ InOrder'
           /\ lock' \in [Locks -> {<<>>} \cup {<<u>> : u \in Threads}]
           /\ op' \in [Threads -> DOMAIN Plan \cup {"idle"}]
  <1>1. CASE Take(t)
    <2> DEFINE l == NextLock(t).lock
    <2>1. l \in Locks \ Held(t) /\ Held(t) \cup {l} \in Prefixes(op[t])
      BY <1>1, Steps, Zenon DEF Take
    <2>2. op' = op /\ lock[l] = <<>> /\ lock' = [lock EXCEPT ![l] = <<t>>]
      BY <1>1 DEF Take
    <2> HIDE DEF l
    <2>3. lock' \in [Locks -> {<<>>} \cup {<<u>> : u \in Threads}]
      BY <2>1, <2>2 DEF Sorts
    <2>4. Held(t)' = Held(t) \cup {l}
      BY <2>1, <2>2, Zenon DEF Held, Sorts
    <2>5. ASSUME NEW u \in Threads, u # t PROVE Held(u)' = Held(u)
      BY <2>1, <2>2, <2>5 DEF Held, Sorts
    <2>6. InOrder'
      BY <2>1, <2>2, <2>4, <2>5, Zenon DEF InOrder
    <2> QED BY <2>2, <2>3, <2>6 DEF Sorts
  <1>2. CASE Return(t)
    <2>1. lock' \in [Locks -> {<<>>} \cup {<<u>> : u \in Threads}]
      BY <1>2, Zenon DEF Return, Sorts
    <2>2. op' \in [Threads -> DOMAIN Plan \cup {"idle"}]
      BY <1>2, Zenon DEF Return, Sorts
    <2>3. Held(t)' = {} /\ op'[t] = "idle"
      BY <1>2, Zenon DEF Return, Held, Sorts
    <2>4. ASSUME NEW u \in Threads, u # t PROVE Held(u)' = Held(u) /\ op'[u] = op[u]
      <3>1. <<t>> # <<u>> /\ <<>> # <<u>> BY <2>4, Zenon
      <3>2. \A l \in Locks : lock'[l] = IF lock[l] = <<t>> THEN <<>> ELSE lock[l]
        BY <1>2, Zenon DEF Return
      <3>3. op'[u] = op[u] BY <1>2, <2>4, Zenon DEF Return, Sorts
      <3> QED BY <3>1, <3>2, <3>3 DEF Held
    <2>5. InOrder'
      BY <2>3, <2>4, Zenon DEF InOrder, Prefixes
    <2> QED BY <2>1, <2>2, <2>5
  <1> QED BY <1>1, <1>2

\* A new gate with idle threads satisfies the invariant.
LEMMA InitIInv == ASSUME Counting, Init PROVE IInv
  <1> USE DEF Init, GateInit
  <1>1. Flags BY Zenon DEF Flags
  <1>2. Sorts BY DEF Sorts
  <1>3. \A t \in Threads : Held(t) = {} BY Zenon DEF Held
  <1>4. InOrder BY <1>3, Zenon DEF InOrder, Prefixes
  <1>5. Reservations BY Zenon DEF Holders, Reservations, Counting
  <1>6. Permits BY DEF Permits
  <1> QED BY <1>1, <1>2, <1>4, <1>5, <1>6 DEF IInv

\* Every step of the workers and of the owner keeps the invariant: an
\* operation that reads the fence or the count does so under the process lock,
\* in one step.
LEMMA NextIInv == ASSUME Counting, IInv, [Next]_vars PROVE IInv'
  <1> USE DEF IInv, gate, Threads
  <1>1. ASSUME NEW t \in Threads, Begin(t) PROVE IInv'
    <2>1. \A u \in Threads : Held(u)' = Held(u) BY <1>1, Zenon DEF Begin, Held
    <2>2. /\ \A u \in Threads : u # t => op'[u] = op[u]
          /\ op'[t] \in OwnerOps \cup WorkerOps
          /\ op'[t] \in {"reserve", "select"} => t \notin Holders
          /\ op'[t] = "release" => t \in Holders
      BY <1>1, Zenon DEF Begin, Sorts
    <2>3. Held(t) = {} BY <1>1, Position, Zenon DEF Begin
    <2>4. InOrder' BY <2>1, <2>2, <2>3, Zenon DEF InOrder, Prefixes, GateFirst, OwnerOps, WorkerOps
    <2>5. Flags' BY <1>1, Zenon DEF Begin, Flags
    <2>6. Sorts' BY <1>1, PlanIs DEF Begin, Sorts, Operations, GateFirst, OwnerOps, WorkerOps
    <2>7. Reservations' BY <1>1, <2>2, Zenon DEF Holders, Begin, Reservations
    <2>8. Permits' BY <1>1, Zenon DEF Begin, Permits
    <2> QED BY <2>4, <2>5, <2>6, <2>7, <2>8
  <1>2. ASSUME NEW t \in Threads, Take(t) PROVE IInv'
    <2>1. InOrder' /\ lock' \in [Locks -> {<<>>} \cup {<<u>> : u \in Threads}]
      BY <1>2, Locking, Zenon
    <2>2. Flags' BY <1>2, Zenon DEF Take, Flags
    <2>4. Sorts' /\ Reservations' /\ Permits'
      BY <1>2, <2>1, Zenon DEF Holders, Take, Sorts, Reservations, Permits
    <2> QED BY <2>1, <2>2, <2>4, Zenon
  <1>3. ASSUME NEW t \in Threads, Busy(t) PROVE IInv'
    <2>1. Return(t) BY <1>3, Zenon DEF Busy
    <2>2. /\ InOrder' /\ lock' \in [Locks -> {<<>>} \cup {<<u>> : u \in Threads}]
          /\ op' \in [Threads -> DOMAIN Plan \cup {"idle"}]
      BY <2>1, Locking, Zenon
    <2>3. Flags' BY <1>3, Zenon DEF Busy, Flags
    <2>6. Sorts' /\ Reservations' /\ Permits'
      BY <1>3, <2>2, <2>1 DEF Holders, Busy, Sorts, Flags, Reservations, Return, Permits
    <2> QED BY <2>2, <2>3, <2>6, Zenon
  <1>4. ASSUME NEW t \in Threads, Refused(t) PROVE IInv'
    <2>1. Return(t) BY <1>4, Zenon DEF Refused
    <2>2. /\ InOrder' /\ lock' \in [Locks -> {<<>>} \cup {<<u>> : u \in Threads}]
          /\ op' \in [Threads -> DOMAIN Plan \cup {"idle"}]
      BY <2>1, Locking, Zenon
    <2>3. Flags' BY <1>4, Zenon DEF Refused, Flags
    <2>6. Sorts' /\ Reservations' /\ Permits'
      BY <1>4, <2>2, <2>1 DEF Holders, Refused, Sorts, Flags, Reservations, Return, Permits
    <2> QED BY <2>2, <2>3, <2>6, Zenon
  <1>5. ASSUME NEW t \in Threads, Authorize(t) PROVE IInv'
    <2>1. Return(t) BY <1>5, Zenon DEF Authorize, Runs
    <2>2. /\ InOrder' /\ lock' \in [Locks -> {<<>>} \cup {<<u>> : u \in Threads}]
          /\ op' \in [Threads -> DOMAIN Plan \cup {"idle"}]
      BY <2>1, Locking, Zenon
    <2>3. Flags' BY <1>5, Zenon DEF Authorize, Flags, Runs, ExecutionEpoch
    <2>6. Sorts' /\ Reservations' /\ Permits'
      BY <1>5, <2>2, <2>1 DEF Holders, Authorize, Sorts, Runs, ExecutionEpoch, Flags, Reservations,
         Return, Permits
    <2> QED BY <2>2, <2>3, <2>6, Zenon
  <1>6. ASSUME NEW t \in Workers, Commit(t) PROVE IInv'
    <2>1. Return(t) BY <1>6, Zenon DEF Commit, Runs
    <2>2. /\ InOrder' /\ lock' \in [Locks -> {<<>>} \cup {<<u>> : u \in Threads}]
          /\ op' \in [Threads -> DOMAIN Plan \cup {"idle"}]
      BY <2>1, Locking, Zenon
    <2>3. Flags' BY <1>6, Zenon DEF Commit, Flags, Runs
    <2>6. Sorts' /\ Reservations' /\ Permits'
      BY <1>6, <2>2, <2>1 DEF Holders, Commit, Sorts, Runs, Flags, Reservations, Return, Permits
    <2> QED BY <2>2, <2>3, <2>6, Zenon
  <1>7. ASSUME NEW t \in Workers, ReserveExecution(t) PROVE IInv'
    <2>1. Return(t) BY <1>7 DEF ReserveExecution, Runs
    <2>2. /\ InOrder' /\ lock' \in [Locks -> {<<>>} \cup {<<u>> : u \in Threads}]
          /\ op' \in [Threads -> DOMAIN Plan \cup {"idle"}]
      BY <2>1, Locking, Zenon
    <2>3. Flags' BY <1>7, Zenon DEF ReserveExecution, Flags, Runs, Accepts, Valid, Reserve
    <2>5. Reservations'
      <3>1. /\ t \notin Holders /\ ~fenced
            /\ Holders' = Holders \cup {t} /\ admissions' = admissions + 1
        BY <1>7, Zenon DEF Holders, ReserveExecution, Runs, Reservations, Accepts, Valid, Reserve
      <3>3. Cardinality(Holders \cup {t}) = Cardinality(Holders) + 1
        BY <3>1, Zenon DEF Counting, Sorts, Holders
      <3>4. admissions' = Cardinality(Holders)' BY <3>1, <3>3, Zenon DEF Reservations
      <3>5. \A u \in Threads : op'[u] = IF u = t THEN "idle" ELSE op[u]
        BY <2>1, Zenon DEF Return, Sorts
      <3>6. ~published' BY <1>7, <3>1, Zenon DEF ReserveExecution, Reservations
      <3> QED BY <3>1, <3>4, <3>5, <3>6 DEF Reservations
    <2>6. Sorts' /\ Permits'
      BY <1>7, <2>2 DEF ReserveExecution, Sorts, Runs, Accepts, Valid, Reserve, Flags, Permits
    <2> QED BY <2>2, <2>3, <2>6, <2>5, Zenon
  <1>8. ASSUME NEW t \in Workers, DropReservation(t) PROVE IInv'
    <2>1. Return(t) BY <1>8, Zenon DEF DropReservation, Runs
    <2>2. /\ InOrder' /\ lock' \in [Locks -> {<<>>} \cup {<<u>> : u \in Threads}]
          /\ op' \in [Threads -> DOMAIN Plan \cup {"idle"}]
      BY <2>1, Locking, Zenon
    <2>3. Flags' BY <1>8, Zenon DEF DropReservation, Flags, Runs, Release
    <2>5. Reservations'
      <3>1. t \in Holders /\ Holders' = Holders \ {t} /\ admissions' = admissions - 1
        BY <1>8, Zenon DEF Holders, DropReservation, Runs, Reservations, Release
      <3>3. Cardinality(Holders \ {t}) = Cardinality(Holders) - 1
        BY <3>1, Zenon DEF Counting, Sorts, Holders
      <3>4. admissions' = Cardinality(Holders)' BY <3>1, <3>3, Zenon DEF Reservations
      <3>5. \A u \in Threads : op'[u] = IF u = t THEN "idle" ELSE op[u]
        BY <2>1, Zenon DEF Return, Sorts
      <3>6. ~published' BY <1>8, <3>1, Zenon DEF DropReservation, Reservations
      <3> QED BY <3>1, <3>4, <3>5, <3>6, Zenon DEF Reservations
    <2>6. Sorts' /\ Permits'
      BY <1>8, <2>2 DEF DropReservation, Sorts, Runs, Release, Flags, Permits
    <2> QED BY <2>2, <2>3, <2>6, <2>5, Zenon
  <1>9. ASSUME NEW t \in Workers, Cut(t) PROVE IInv'
    <2>1. Return(t) BY <1>9, Zenon DEF Cut, Runs
    <2>2. /\ InOrder' /\ lock' \in [Locks -> {<<>>} \cup {<<u>> : u \in Threads}]
          /\ op' \in [Threads -> DOMAIN Plan \cup {"idle"}]
      BY <2>1, Locking, Zenon
    <2>3. Flags' BY <1>9, Zenon DEF Cut, Flags, Runs
    <2>6. Sorts' /\ Reservations' /\ Permits'
      BY <1>9, <2>2, <2>1 DEF Holders, Cut, Sorts, Runs, Flags, Reservations, Return, Permits
    <2> QED BY <2>2, <2>3, <2>6, Zenon
  <1>10. ASSUME NEW t \in Workers, WindowWork(t) PROVE IInv'
    <2>1. Return(t) BY <1>10, Zenon DEF WindowWork, Runs
    <2>2. /\ InOrder' /\ lock' \in [Locks -> {<<>>} \cup {<<u>> : u \in Threads}]
          /\ op' \in [Threads -> DOMAIN Plan \cup {"idle"}]
      BY <2>1, Locking, Zenon
    <2>3. Flags' BY <1>10, Zenon DEF WindowWork, Flags, Runs
    <2>6. Sorts' /\ Reservations' /\ Permits'
      BY <1>10, <2>2, <2>1, Zenon DEF Holders, WindowWork, Sorts, Runs, Flags, Reservations,
         Return, Permits
    <2> QED BY <2>2, <2>3, <2>6, Zenon
  <1>11. CASE OwnerFences
    <2>1. Return(Owner) BY <1>11, Zenon DEF OwnerFences, Runs
    <2>2. /\ InOrder' /\ lock' \in [Locks -> {<<>>} \cup {<<u>> : u \in Threads}]
          /\ op' \in [Threads -> DOMAIN Plan \cup {"idle"}]
      BY <2>1, Locking, Zenon
    <2>3. Flags' BY <1>11, Zenon DEF OwnerFences, Flags, Runs, Fence
    <2>6. Sorts' /\ Reservations' /\ Permits'
      BY <1>11, <2>2, <2>1 DEF Holders, OwnerFences, Sorts, Runs, Fence, Flags, Reservations,
         Return,
         Permits
    <2> QED BY <2>2, <2>3, <2>6, Zenon
  <1>12. CASE OwnerCloses
    <2>1. Return(Owner) BY <1>12, Zenon DEF OwnerCloses, Runs
    <2>2. /\ InOrder' /\ lock' \in [Locks -> {<<>>} \cup {<<u>> : u \in Threads}]
          /\ op' \in [Threads -> DOMAIN Plan \cup {"idle"}]
      BY <2>1, Locking, Zenon
    <2>3. Flags' BY <1>12, Zenon DEF OwnerCloses, Flags, Runs, CanClose, Publish
    <2>4. Sorts' BY <1>12, <2>2 DEF OwnerCloses, Sorts, Runs, CanClose, Publish
    <2>5. Reservations'
      BY <1>12, <2>1, Zenon DEF Holders, OwnerCloses, Flags, Sorts, Reservations, Return, Runs,
         CanClose,
         Publish
    <2>6. Permits' BY <1>12 DEF OwnerCloses, Flags, Sorts, Permits, Runs, CanClose, Publish
    <2> QED BY <2>2, <2>3, <2>4, <2>5, <2>6, Zenon
  <1>13. CASE OwnerSettles
    <2>1. Return(Owner) BY <1>13, Zenon DEF OwnerSettles, Runs
    <2>2. /\ InOrder' /\ lock' \in [Locks -> {<<>>} \cup {<<u>> : u \in Threads}]
          /\ op' \in [Threads -> DOMAIN Plan \cup {"idle"}]
      BY <2>1, Locking, Zenon
    <2>3. Flags' BY <1>13, Zenon DEF OwnerSettles, Flags, Runs, Settled
    <2>5. Reservations'
      <3>2. Cardinality(Holders) = 0 => Holders = {} BY Zenon DEF Counting, Sorts, Holders
      <3>3. Holders = {} BY <1>13, <3>2, Zenon DEF OwnerSettles, Settled, Reservations
      <3> QED BY <1>13, <2>1, <3>3, Zenon DEF Holders, OwnerSettles, Sorts, Reservations, Return,
         Settled
    <2>6. Sorts' /\ Permits'
      BY <1>13, <2>2 DEF OwnerSettles, Sorts, Runs, Settled, Flags, Permits
    <2> QED BY <2>2, <2>3, <2>6, <2>5, Zenon
  <1>14. CASE OwnerReopens
    <2>1. Return(Owner) BY <1>14 DEF OwnerReopens, Runs
    <2>2. /\ InOrder' /\ lock' \in [Locks -> {<<>>} \cup {<<u>> : u \in Threads}]
          /\ op' \in [Threads -> DOMAIN Plan \cup {"idle"}]
      BY <2>1, Locking, Zenon
    <2>3. Flags' BY <1>14, Zenon DEF OwnerReopens, Flags, Runs, Reopen
    <2>6. Sorts' /\ Reservations' /\ Permits'
      BY <1>14, <2>2, <2>1, Zenon DEF Holders, OwnerReopens, Sorts, Runs, Reopen, Flags,
         Reservations,
         Return, Permits
    <2> QED BY <2>2, <2>3, <2>6, Zenon
  <1>15. CASE UNCHANGED vars
    <2>1. \A u \in Threads : Held(u)' = Held(u) BY <1>15, Zenon DEF vars, Held
    <2> QED BY <1>15, <2>1, Zenon DEF Holders, vars, Flags, Sorts, InOrder, Reservations, Permits
  <1>16. ASSUME NEW t \in Workers, ReserveSelection(t) PROVE IInv'
    <2>1. Return(t) BY <1>16 DEF ReserveSelection, Runs
    <2>2. /\ InOrder' /\ lock' \in [Locks -> {<<>>} \cup {<<u>> : u \in Threads}]
          /\ op' \in [Threads -> DOMAIN Plan \cup {"idle"}]
      BY <2>1, Locking, Zenon
    <2>3. Flags' BY <1>16, Zenon DEF ReserveSelection, Flags, Runs, Reserve
    <2>5. Reservations'
      <3>1. /\ t \notin Holders /\ ~fenced
            /\ Holders' = Holders \cup {t} /\ admissions' = admissions + 1
        BY <1>16, Zenon DEF Holders, ReserveSelection, Runs, Reservations, Reserve
      <3>3. Cardinality(Holders \cup {t}) = Cardinality(Holders) + 1
        BY <3>1, Zenon DEF Counting, Sorts, Holders
      <3>4. admissions' = Cardinality(Holders)' BY <3>1, <3>3, Zenon DEF Reservations
      <3>5. \A u \in Threads : op'[u] = IF u = t THEN "idle" ELSE op[u]
        BY <2>1, Zenon DEF Return, Sorts
      <3>6. ~published' BY <1>16, <3>1, Zenon DEF ReserveSelection, Reservations
      <3> QED BY <3>1, <3>4, <3>5, <3>6 DEF Reservations
    <2>6. Sorts' /\ Permits'
      BY <1>16, <2>2 DEF ReserveSelection, Sorts, Runs, Reserve, Flags, Permits
    <2> QED BY <2>2, <2>3, <2>6, <2>5, Zenon
  <1> HIDE DEF IInv
  <1> QED BY <1>1, <1>2, <1>3, <1>4, <1>5, <1>6, <1>7, <1>8, <1>9, <1>10, <1>11, <1>12,
     <1>13, <1>14, <1>15, <1>16 DEF Next, ThreadStep, WorkerStep, OwnerStep

\* Only a permit of the current epoch lets a worker commit or reserve.
LEMMA NextAdmits ==
    ASSUME IInv, [Next]_vars
    PROVE  (candidates' \ candidates) \cup (reserved' \ reserved) \subseteq fresh
  <1> USE DEF IInv, Threads
  <1>1. ASSUME NEW t \in Workers, Accepts(t) PROVE t \in fresh
    BY <1>1, Zenon DEF Accepts, Valid, Permits
  <1>2. ASSUME NEW t \in Workers, Commit(t) \/ ReserveExecution(t)
        PROVE (candidates' \ candidates) \cup (reserved' \ reserved) \subseteq fresh
    BY <1>1, <1>2, Zenon DEF Commit, ReserveExecution
  <1>3. ASSUME NEW t \in Threads, ThreadStep(t)
        PROVE (candidates' \ candidates) \cup (reserved' \ reserved) \subseteq fresh
    BY <1>3, Zenon DEF ThreadStep, Begin, Take, Busy, Refused, Authorize
  <1>4. ASSUME NEW t \in Workers,
               ReserveSelection(t) \/ DropReservation(t) \/ Cut(t) \/ WindowWork(t)
        PROVE (candidates' \ candidates) \cup (reserved' \ reserved) \subseteq fresh
    BY <1>4, Zenon DEF ReserveSelection, DropReservation, Cut, WindowWork
  <1>5. CASE OwnerStep
    BY <1>5, Zenon DEF OwnerStep, OwnerFences, OwnerCloses, OwnerSettles, OwnerReopens
  <1>6. CASE UNCHANGED vars BY <1>6, Zenon DEF vars
  <1> HIDE DEF IInv
  <1> QED BY <1>2, <1>3, <1>4, <1>5, <1>6 DEF Next, WorkerStep

\* No cycle of waits. Nobody who holds the registry waits, so nobody waits for
\* the registry in a cycle; then nobody who holds the process lock waits in
\* one, and then nobody who holds the gate does.
LEMMA NobodyWaits == ASSUME Counting, IInv PROVE NoWaitCycle
  <1> SUFFICES ASSUME NEW S \in (SUBSET Threads) \ {{}},
                      ~ \E t \in S : \/ op[t] = "idle" \/ HoldsAll(t)
                                     \/ \A u \in S : lock[NextLock(t).lock] # <<u>>
                                     \/ ~NextLock(t).wait
               PROVE  FALSE
    BY Zenon DEF NoWaitCycle
  <1>0. \A t \in S : /\ op[t] # "idle" /\ ~HoldsAll(t) /\ NextLock(t).wait
                     /\ \E u \in S : lock[NextLock(t).lock] = <<u>>
    BY Zenon
  <1> DEFINE WaitsFor(t, l) == NextLock(t) = Wait(l)
  <1>1. /\ \A l : Wait(l).lock = l /\ Wait(l).wait = TRUE
        /\ \A l : Try(l).wait = FALSE
    BY Zenon DEF Wait, Try
  <1>2. ASSUME NEW t \in S, NEW l \in Locks, WaitsFor(t, l)
        PROVE  \E u \in S : l \in Held(u)
    BY <1>0, <1>1, <1>2, Zenon DEF Held
  <1>3. ASSUME NEW t \in S
        PROVE  \/ WaitsFor(t, "gate") /\ Held(t) = {}
               \/ WaitsFor(t, "process") /\ Held(t) \subseteq {"gate"}
               \/ WaitsFor(t, "registry") /\ Held(t) \subseteq {"process"}
    BY <1>0, <1>1, Position DEF IInv, At, Done, Operations
  <1> HIDE DEF WaitsFor
  <1>4. \A t \in S : ~WaitsFor(t, "registry") BY <1>2, <1>3, Zenon DEF Locks
  <1>5. \A t \in S : ~WaitsFor(t, "process") BY <1>2, <1>3, <1>4, Zenon DEF Locks
  <1>6. \A t \in S : ~WaitsFor(t, "gate") BY <1>2, <1>3, <1>4, <1>5 DEF Locks
  <1>7. S # {} BY Zenon
  <1>8. PICK t \in S : TRUE BY <1>7, Zenon
  <1> QED BY <1>3, <1>4, <1>5, <1>6, <1>8, Zenon

-----------------------------------------------------------------------------
HIDE WorkersAssumption
HIDE EpochMaxAssumption

\* Where the one page is: in the pool, with a thread, or on its way back.
Free == leases = {} /\ available = <<"page">> /\ leased = 0 /\ bytes["page"] = 0
Out == available = <<>> /\ leased = 1 /\ next_generation > 1
Newest(l) == l \in Pool!Lease /\ l.generation = next_generation - 1
Blank(o) == /\ Out /\ bytes["page"] = 0
            /\ \E l : Newest(l) /\ leases = {l} /\ l.live /\ l.owner = o
Full(o) == /\ Out /\ bytes["page"] = next_generation - 1
           /\ \E l : Newest(l) /\ leases = {l} /\ l.live /\ l.owner = o /\ l.filled
Dropped == /\ Out /\ bytes["page"] = 0
           /\ \E l : Newest(l) /\ leases = {l} /\ ~l.live

\* The steps of a side that sends and receives nothing any more.
Gone == {"close_requests", "close_replies", "done"}

\* What is open follows from where the two threads are.
Ends ==
    /\ open \subseteq Halves
    /\ "request_sender" \in open <=> driver \notin {"close_replies", "done"}
    /\ "reply_receiver" \in open <=> driver # "done"
    /\ "request_receiver" \in open <=> service \notin {"close_replies", "done"}
    /\ "reply_sender" \in open <=> service # "done"

\* All that was served is replayed, or all but the page the replay stopped at.
Caught == Len(replayed) = cursor \/ Len(replayed) + 1 = cursor

\* The driver has the turn.
DriverTurn ==
    /\ service = "recv" /\ requests = <<>> /\ replies = <<>> /\ result = Nothing
    /\ \/ driver \in {"queued", "call"} /\ Free /\ Len(replayed) = cursor
       \/ driver = "send" /\ Blank("driver") /\ Len(replayed) = cursor
       \/ driver = "read" /\ Full("driver") /\ Len(replayed) + 1 = cursor
       \/ driver = "drop" /\ Full("driver") /\ Len(replayed) = cursor
       \/ driver = "return" /\ Dropped /\ Len(replayed) = cursor
       \/ driver \in {"reject", "unwind"} /\ Full("driver") /\ Len(replayed) + 1 = cursor
       \/ driver \in {"end", "unwound"} /\ Dropped /\ Len(replayed) + 1 = cursor

\* The driver waits.
ServiceTurn ==
    /\ driver = "wait"
    /\ \/ /\ service = "recv" /\ requests = <<"NextPage">> /\ replies = <<>> /\ result = Nothing
          /\ Blank("driver") /\ Len(replayed) = cursor
       \/ /\ service = "serve" /\ requests = <<>> /\ replies = <<>> /\ result = Nothing
          /\ Blank("service") /\ Len(replayed) = cursor
       \/ /\ service = "drop" /\ requests = <<>> /\ replies = <<>>
          /\ result \in {Nothing, "End", "Error"} /\ Blank("service") /\ Len(replayed) = cursor
       \/ /\ service = "return" /\ requests = <<>> /\ replies = <<>>
          /\ result \in {Nothing, "End", "Error"} /\ Dropped /\ Len(replayed) = cursor
       \/ /\ service = "reply" /\ requests = <<>> /\ replies = <<>> /\ result = "Page"
          /\ Full("service") /\ Len(replayed) + 1 = cursor
       \/ /\ service = "reply" /\ requests = <<>> /\ replies = <<>>
          /\ result \in {"End", "Error"} /\ Free /\ Len(replayed) = cursor
       \/ /\ service = "recv" /\ requests = <<>> /\ replies = <<"Page">> /\ result = Nothing
          /\ Full("service") /\ Len(replayed) + 1 = cursor
       \/ /\ service = "recv" /\ requests = <<>> /\ replies \in {<<"End">>, <<"Error">>}
          /\ result = Nothing /\ Free /\ Len(replayed) = cursor
       \/ /\ service \in Gone /\ requests = <<>> /\ replies = <<>> /\ result = Nothing
          /\ Free /\ Len(replayed) = cursor

\* The exchange is over.
Over ==
    /\ service \in {"recv"} \cup Gone /\ replies = <<>> /\ result = Nothing
    /\ Free /\ Caught
    /\ \/ driver = "finish" /\ requests = <<>>
       \/ driver \in Gone /\ requests \in {<<>>, <<"Finished">>}

\* The counters of the pool, and the only reason a lease was ever refused.
Sized ==
    /\ high_water \in {0, 1} /\ leased <= high_water
    /\ total_leases \in 0..CounterMax /\ exhausted \in 0..CounterMax
    /\ next_generation \in 1..MaxGeneration
    /\ bytes \in [{"page"} -> 0..MaxGeneration]
    /\ exhausted > 0 => next_generation = MaxGeneration

\* What has been read and what the cursor has yielded agree.
Replayed ==
    /\ history \in 1..MaxHistory /\ cursor \in 0..history /\ logical_pages = cursor
    /\ replayed \in Seq(0..history) /\ \A i \in DOMAIN replayed : replayed[i] = i

\* The capacities are captured once both sides have nothing left to do.
Captured ==
    \/ final_capacity = <<>>
    \/ /\ driver \in Gone /\ service \in Gone
       /\ final_capacity = <<[leased |-> 0, requests |-> 0, replies |-> 0, pages |-> cursor]>>

\* The inductive invariant: one side at a time has the turn and the page.
ReplayInv == /\ Ends /\ Sized /\ Replayed /\ Captured
             /\ DriverTurn \/ ServiceTurn \/ Over


\* A lease handed over keeps its page, its generation and its contents.
LEMMA HandedOver ==
    ASSUME NEW l \in Pool!Lease, NEW u \in Sides
    PROVE  /\ [l EXCEPT !.owner = u] \in Pool!Lease /\ [l EXCEPT !.owner = u].owner = u
           /\ [l EXCEPT !.owner = u].generation = l.generation
           /\ (l.live => [l EXCEPT !.owner = u].live)
           /\ (l.filled => [l EXCEPT !.owner = u].filled)
  <1> USE DEF Pool!Lease
  <1>1. /\ [l EXCEPT !.owner = u] \in Pool!Lease /\ [l EXCEPT !.owner = u].owner = u
        /\ [l EXCEPT !.owner = u].generation = l.generation
    BY Zenon
  <1>2. l.live => [l EXCEPT !.owner = u].live BY Zenon
  <1>3. l.filled => [l EXCEPT !.owner = u].filled BY Zenon
  <1> QED BY <1>1, <1>2, <1>3, Zenon

\* A lease written keeps its owner.
LEMMA Written ==
    ASSUME NEW l \in Pool!Lease
    PROVE  /\ [l EXCEPT !.filled = TRUE] \in Pool!Lease /\ [l EXCEPT !.filled = TRUE].filled
           /\ [l EXCEPT !.filled = TRUE].owner = l.owner
           /\ [l EXCEPT !.filled = TRUE].generation = l.generation
           /\ (l.live => [l EXCEPT !.filled = TRUE].live)
  <1> USE DEF Pool!Lease
  <1>1. /\ [l EXCEPT !.filled = TRUE].owner = l.owner
        /\ [l EXCEPT !.filled = TRUE].generation = l.generation
    BY Zenon
  <1>2. [l EXCEPT !.filled = TRUE] \in Pool!Lease BY Zenon
  <1>3. [l EXCEPT !.filled = TRUE].filled BY Zenon
  <1>4. l.live => [l EXCEPT !.filled = TRUE].live BY Zenon
  <1> QED BY <1>1, <1>2, <1>3, <1>4, Zenon

\* A lease dropped is not live.
LEMMA Ended ==
    ASSUME NEW l \in Pool!Lease
    PROVE  /\ [l EXCEPT !.live = FALSE] \in Pool!Lease /\ ~[l EXCEPT !.live = FALSE].live
           /\ [l EXCEPT !.live = FALSE].generation = l.generation
  <1> USE DEF Pool!Lease
  <1>1. [l EXCEPT !.live = FALSE].generation = l.generation BY Zenon
  <1>2. [l EXCEPT !.live = FALSE] \in Pool!Lease BY Zenon
  <1>3. ~[l EXCEPT !.live = FALSE].live BY Zenon
  <1> QED BY <1>1, <1>2, <1>3, Zenon

\* There is one page to lease.
LEMMA OnePage == \A l \in Pool!Lease : l.page = "page"
  BY Zenon DEF Pool!Lease, Pages

\* A thread that holds the page finds it.
LEMMA Finds ==
    ASSUME NEW o \in Sides, NEW l, leases = {l}
    PROVE  /\ l.live /\ l.owner = o => TheLease(o) = l
           /\ ~l.live => InFlight = l
  <1>1. ASSUME l.live, l.owner = o PROVE TheLease(o) = l
    <2>1. Pool!Held(o) = {l} BY <1>1, Zenon DEF Pool!Held
    <2> QED BY <2>1, Zenon DEF TheLease
  <1>2. ASSUME ~l.live PROVE InFlight = l
    <2>1. \E m \in leases : ~m.live BY <1>2, Zenon
    <2>2. InFlight \in leases BY <2>1, Zenon DEF InFlight
    <2> QED BY <2>2, Zenon
  <1> QED BY <1>1, <1>2, Zenon

\* The page goes to the other thread, written or not.
LEMMA PageMoves ==
    ASSUME Sized, NEW o \in Sides, NEW u \in Sides, Pool!Move(TheLease(o), u)
    PROVE  Sized' /\ (Blank(o) => Blank(u)') /\ (Full(o) => Full(u)')
  <1>1. /\ available' = available /\ leased' = leased /\ high_water' = high_water
        /\ total_leases' = total_leases /\ exhausted' = exhausted
        /\ next_generation' = next_generation /\ bytes' = bytes
    BY Zenon DEF Pool!Move, Pool!counters
  <1>2. ASSUME NEW l, Newest(l), leases = {l}, l.live, l.owner = o
        PROVE  /\ leases' = {[l EXCEPT !.owner = u]} /\ Newest([l EXCEPT !.owner = u])'
               /\ [l EXCEPT !.owner = u].live /\ [l EXCEPT !.owner = u].owner = u
               /\ (l.filled => [l EXCEPT !.owner = u].filled)
    <2>1. TheLease(o) = l BY <1>2, Finds, Zenon
    <2>2. leases' = (leases \ {l}) \cup {[l EXCEPT !.owner = u]}
      BY <2>1, Zenon DEF Pool!Move, Pool!Replace
    <2>3. leases' = {[l EXCEPT !.owner = u]} BY <1>2, <2>2, Zenon
    <2>4. l \in Pool!Lease /\ l.generation = next_generation - 1 BY <1>2, Zenon DEF Newest
    <2>5. /\ [l EXCEPT !.owner = u] \in Pool!Lease /\ [l EXCEPT !.owner = u].owner = u
          /\ [l EXCEPT !.owner = u].generation = l.generation
          /\ (l.live => [l EXCEPT !.owner = u].live)
          /\ (l.filled => [l EXCEPT !.owner = u].filled)
      BY <2>4, HandedOver, Zenon
    <2>6. [l EXCEPT !.owner = u].live /\ (l.filled => [l EXCEPT !.owner = u].filled)
      BY <1>2, <2>5, Zenon
    <2>7. Newest([l EXCEPT !.owner = u])' BY <1>1, <2>4, <2>5, Zenon DEF Newest
    <2> QED BY <2>3, <2>5, <2>6, <2>7, Zenon
  <1>3. Sized' BY <1>1, Zenon DEF Sized
  <1>4. ASSUME Blank(o) PROVE Blank(u)'
    BY <1>1, <1>2, <1>4, Zenon DEF Blank, Out
  <1>5. ASSUME Full(o) PROVE Full(u)'
    BY <1>1, <1>2, <1>5, Zenon DEF Full, Out
  <1> QED BY <1>3, <1>4, <1>5, Zenon

\* The thread that holds the page writes it.
LEMMA PageFills ==
    ASSUME WidthAssumption, Sized, NEW o \in Sides, Blank(o), Pool!Fill(TheLease(o))
    PROVE  Sized' /\ Full(o)'
  <1>1. /\ available' = available /\ leased' = leased /\ high_water' = high_water
        /\ total_leases' = total_leases /\ exhausted' = exhausted
        /\ next_generation' = next_generation
    BY Zenon DEF Pool!Fill, Pool!counters
  <1>2. PICK l : Newest(l) /\ leases = {l} /\ l.live /\ l.owner = o BY Zenon DEF Blank
  <1>3. TheLease(o) = l /\ l.page = "page" BY <1>2, Finds, OnePage, Zenon DEF Newest
  <1>4. /\ leases' = (leases \ {l}) \cup {[l EXCEPT !.filled = TRUE]}
        /\ bytes' = [bytes EXCEPT !["page"] = next_generation - 1]
    BY <1>2, <1>3, Zenon DEF Pool!Fill, Pool!Replace, Newest
  <1>5. leases' = {[l EXCEPT !.filled = TRUE]} BY <1>2, <1>4, Zenon
  <1>6. bytes' \in [{"page"} -> 0..MaxGeneration] /\ bytes'["page"] = next_generation - 1
    BY <1>4, WidthAssumption DEF Sized
  <1>7. Newest([l EXCEPT !.filled = TRUE])' BY <1>1, <1>2, Written, Zenon DEF Newest
  <1>8. Full(o)' BY <1>1, <1>2, <1>5, <1>6, <1>7, Written, Zenon DEF Full, Out, Blank, Newest
  <1> QED BY <1>1, <1>6, <1>8, Zenon DEF Sized

\* The first half of the drop of the page.
LEMMA PageDrops ==
    ASSUME WidthAssumption, Sized, NEW o \in Sides, Blank(o) \/ Full(o),
           Pool!DropLease(TheLease(o))
    PROVE  Sized' /\ Dropped'
  <1>1. /\ available' = available /\ leased' = leased /\ high_water' = high_water
        /\ total_leases' = total_leases /\ exhausted' = exhausted
        /\ next_generation' = next_generation
    BY Zenon DEF Pool!DropLease, Pool!counters
  <1>2. PICK l : Newest(l) /\ leases = {l} /\ l.live /\ l.owner = o BY Zenon DEF Blank, Full
  <1>3. TheLease(o) = l /\ l.page = "page" BY <1>2, Finds, OnePage, Zenon DEF Newest
  <1>4. /\ leases' = (leases \ {l}) \cup {[l EXCEPT !.live = FALSE]}
        /\ bytes' = [bytes EXCEPT !["page"] = 0]
    BY <1>3, Zenon DEF Pool!DropLease, Pool!Replace, Pool!Zero
  <1>5. leases' = {[l EXCEPT !.live = FALSE]} BY <1>2, <1>4, Zenon
  <1>6. bytes' \in [{"page"} -> 0..MaxGeneration] /\ bytes'["page"] = 0
    BY <1>4, WidthAssumption DEF Sized
  <1>7. Newest([l EXCEPT !.live = FALSE])' BY <1>1, <1>2, Ended, Zenon DEF Newest
  <1>8. Out' BY <1>1, Zenon DEF Out, Blank, Full
  <1>9. Dropped' BY <1>2, <1>5, <1>6, <1>7, <1>8, Ended, Zenon DEF Dropped, Newest
  <1> QED BY <1>1, <1>6, <1>9, Zenon DEF Sized

\* The second half.
LEMMA PageReturns ==
    ASSUME Sized, Dropped, Pool!ReturnPage(InFlight)
    PROVE  Sized' /\ Free'
  <1>1. /\ leased' = leased - 1 /\ high_water' = high_water /\ total_leases' = total_leases
        /\ exhausted' = exhausted /\ next_generation' = next_generation /\ bytes' = bytes
    BY Zenon DEF Pool!ReturnPage
  <1>2. PICK l : Newest(l) /\ leases = {l} /\ ~l.live BY Zenon DEF Dropped
  <1>a. "driver" \in Sides /\ l \in Pool!Lease BY <1>2, Zenon DEF Newest, Sides
  <1>b. l.page = "page" BY <1>a, OnePage, Zenon
  <1>3. InFlight = l /\ l.page = "page"
    BY <1>2, <1>a, <1>b, Finds, Zenon
  <1>4. leases' = {} BY <1>2, <1>3, Zenon DEF Pool!ReturnPage
  <1>5. available' = Append(<<>>, "page") BY <1>3, Zenon DEF Pool!ReturnPage, Dropped, Out
  <1>6. available' = <<"page">> BY <1>5
  <1> QED BY <1>1, <1>4, <1>6 DEF Free, Dropped, Out, Sized

\* The driver leases the free page.
LEMMA PageLeased ==
    ASSUME WidthAssumption, Sized, Free, Pool!TryLease("driver")
    PROVE  Sized' /\ Blank("driver")'
  <1>1. /\ leased' = leased + 1 /\ exhausted' = exhausted /\ bytes' = bytes
        /\ next_generation # MaxGeneration /\ next_generation' = next_generation + 1
        /\ high_water' = (IF leased' > high_water THEN leased' ELSE high_water)
        /\ total_leases' = (IF total_leases < CounterMax THEN total_leases + 1 ELSE total_leases)
    BY WidthAssumption, Zenon DEF Pool!TryLease, Pool!CanLease, Pool!Successor, Pool!SaturatingAdd,
       Sized
  <1>2. available' = <<>> BY DEF Pool!TryLease, Pool!PopPage, Free
  <1>3. available[Len(available)] = "page" BY Zenon DEF Free
  <1>4. PICK l : l = [page |-> "page", generation |-> next_generation, owner |-> "driver",
                      filled |-> FALSE, live |-> TRUE]
    BY Zenon
  <1>5. leases' = {l} BY <1>3, <1>4, Zenon DEF Pool!TryLease, Free
  <1>6. l \in Pool!Lease /\ l.owner = "driver" /\ l.generation = next_generation /\ l.live
    BY <1>4, WidthAssumption, Zenon DEF Pool!Lease, Pool!Generations, Pages, Sides, Sized
  <1>7. next_generation' - 1 = next_generation BY <1>1 DEF Sized
  <1>8. Sized' BY <1>1, WidthAssumption DEF Sized, Free
  <1>9. Out' BY <1>1, <1>2 DEF Out, Free, Sized
  <1> QED BY <1>1, <1>5, <1>6, <1>7, <1>8, <1>9, Zenon DEF Blank, Free, Newest

\* Only the end of the generations refuses a lease of the free page.
LEMMA LeaseRefused ==
    ASSUME WidthAssumption, Sized, Free, Pool!TryLeaseFails
    PROVE  Sized' /\ Free'
  <1>1. next_generation = MaxGeneration
    BY WidthAssumption DEF Pool!TryLeaseFails, Pool!CanLease, Pool!Successor, Free, Sized
  <1>2. /\ leased' = leased /\ high_water' = high_water /\ total_leases' = total_leases
        /\ next_generation' = next_generation /\ bytes' = bytes /\ leases' = leases
        /\ available' = available
        /\ exhausted' = (IF exhausted < CounterMax THEN exhausted + 1 ELSE exhausted)
    BY Zenon DEF Pool!TryLeaseFails, Pool!SaturatingAdd
  <1> QED BY <1>1, <1>2, WidthAssumption DEF Sized, Free

\* What the proofs use of the sizes of sets: they hold one element or none.
Few == Pool!Cardinality({}) = 0 /\ \A x : Pool!Cardinality({x}) = 1

\* A broker not yet used satisfies the invariant.
LEMMA ReplayInvInit == ASSUME HistoryAssumption, WidthAssumption, ReplayInit,
     Few PROVE ReplayInv
  <1> USE HistoryAssumption, WidthAssumption
  <1>0. available = <<"page">>
    <2>1. Pool!PageCount = 1 BY Zenon DEF Pool!PageCount, Pages, Few
    <2>2. available \in [1..1 -> {"page"}] BY <2>1, Zenon DEF ReplayInit, Pool!Init, Pages
    <2> QED BY <2>2
  <1>1. /\ leased = 0 /\ high_water = 0 /\ total_leases = 0 /\ exhausted = 0 /\ next_generation = 1
        /\ bytes = [p \in {"page"} |-> 0] /\ leases = {}
    BY Zenon DEF ReplayInit, Pool!Init, Pages, Pool!Zero
  <1>2. Ends BY Zenon DEF ReplayInit, Ends, Halves
  <1>3. Sized BY <1>1 DEF Sized
  <1>4. Replayed BY DEF ReplayInit, Replayed
  <1>5. Captured BY Zenon DEF ReplayInit, Captured
  <1>6. DriverTurn BY <1>0, <1>1, Zenon DEF ReplayInit, DriverTurn, Free
  <1> QED BY <1>2, <1>3, <1>4, <1>5, <1>6, Zenon DEF ReplayInv

\* A step before either side has gone, with the channel halves as they were,
\* disturbs neither them nor the capacities, which are not captured yet.
LEMMA BothPresent ==
    ASSUME ReplayInv, driver \notin Gone \/ service \notin Gone,
           open' = open, final_capacity' = final_capacity,
           driver' \in {"close_replies", "done"} <=> driver \in {"close_replies", "done"},
           driver' = "done" <=> driver = "done",
           service' \in {"close_replies", "done"} <=> service \in {"close_replies", "done"},
           service' = "done" <=> service = "done"
    PROVE  Ends' /\ Captured'
  <1>1. final_capacity = <<>> BY Zenon DEF ReplayInv, Captured
  <1>2. Captured' BY <1>1, Zenon DEF Captured
  <1>3. Ends BY Zenon DEF ReplayInv
  <1>4. Ends' BY <1>3, Zenon DEF Ends
  <1> QED BY <1>2, <1>4, Zenon

\* A step that leaves the pool and the replay alone.
LEMMA PageStays ==
    ASSUME UNCHANGED pool
    PROVE  /\ (Free => Free') /\ (Dropped => Dropped') /\ (Sized => Sized')
           /\ \A o \in Sides : (Blank(o) => Blank(o)') /\ (Full(o) => Full(o)')
  <1>1. /\ available' = available /\ leased' = leased /\ high_water' = high_water
        /\ total_leases' = total_leases /\ exhausted' = exhausted
        /\ next_generation' = next_generation /\ bytes' = bytes /\ leases' = leases
    BY Zenon DEF pool
  <1>2. Free => Free' BY <1>1, Zenon DEF Free
  <1>3. Dropped => Dropped' BY <1>1, Zenon DEF Dropped, Out, Newest
  <1>4. Sized => Sized' BY <1>1, Zenon DEF Sized
  <1>5. ASSUME NEW o \in Sides, Blank(o) PROVE Blank(o)' BY <1>1, <1>5, Zenon DEF Blank, Out, Newest
  <1>6. ASSUME NEW o \in Sides, Full(o) PROVE Full(o)' BY <1>1, <1>6, Zenon DEF Full, Out, Newest
  <1> QED BY <1>2, <1>3, <1>4, <1>5, <1>6, Zenon

\* A step that leaves the replay alone.
LEMMA ReplayStays ==
    ASSUME UNCHANGED facts
    PROVE  /\ (Replayed => Replayed') /\ history' = history /\ cursor' = cursor
           /\ replayed' = replayed /\ logical_pages' = logical_pages
           /\ final_capacity' = final_capacity
  <1>1. /\ history' = history /\ cursor' = cursor /\ replayed' = replayed
        /\ logical_pages' = logical_pages /\ final_capacity' = final_capacity
    BY Zenon DEF facts
  <1>2. Replayed => Replayed' BY <1>1, Zenon DEF Replayed
  <1> QED BY <1>1, <1>2, Zenon

\* The queued command runs or is rejected, with the page still in the pool.
LEMMA DispatchInv == ASSUME ReplayInv, Dispatch PROVE ReplayInv'
  <1>1. /\ driver = "queued" /\ driver' \in {"call", "close_requests"}
        /\ UNCHANGED <<requests, replies, open, service, result>>
        /\ UNCHANGED pool /\ UNCHANGED facts
    BY Zenon DEF Dispatch, channels
  <1>2. /\ service = "recv" /\ requests = <<>> /\ replies = <<>> /\ result = Nothing
        /\ Free /\ Len(replayed) = cursor
    BY <1>1, Zenon DEF ReplayInv, DriverTurn, ServiceTurn, Over, Caught, Gone
  <1>3. Free' /\ Sized' BY <1>1, <1>2, PageStays, Zenon DEF ReplayInv
  <1>4. Replayed' /\ Len(replayed)' = cursor' /\ final_capacity' = final_capacity
    BY <1>1, <1>2, ReplayStays, Zenon DEF ReplayInv
  <1>5. Ends' /\ Captured' BY <1>1, <1>2, <1>4, BothPresent, Zenon DEF Gone
  <1>6. DriverTurn' \/ Over' BY <1>1, <1>2, <1>3, <1>4, Zenon DEF DriverTurn, Over, Caught, Gone
  <1> QED BY <1>3, <1>4, <1>5, <1>6, Zenon DEF ReplayInv

\* The driver asks for the page only when it is in the pool.
LEMMA NextPageInv == ASSUME WidthAssumption, ReplayInv, NextPage PROVE ReplayInv'
  <1>1. driver = "call" /\ UNCHANGED <<requests, replies, open, service, result>> /\ UNCHANGED facts
    BY Zenon DEF NextPage, channels
  <1>2. /\ service = "recv" /\ requests = <<>> /\ replies = <<>> /\ result = Nothing
        /\ Free /\ Len(replayed) = cursor
    BY <1>1, Zenon DEF ReplayInv, DriverTurn, ServiceTurn, Over, Caught, Gone
  <1>3. /\ Sized'
        /\ \/ driver' = "send" /\ Blank("driver")'
           \/ driver' = "finish" /\ Free'
    BY <1>2, PageLeased, LeaseRefused, Zenon DEF NextPage, ReplayInv
  <1>4. Replayed' /\ Len(replayed)' = cursor' /\ final_capacity' = final_capacity
    BY <1>1, <1>2, ReplayStays, Zenon DEF ReplayInv
  <1>5. Ends' /\ Captured' BY <1>1, <1>2, <1>3, <1>4, BothPresent, Zenon DEF Gone
  <1>6. DriverTurn' \/ Over' BY <1>1, <1>2, <1>3, <1>4, Zenon DEF DriverTurn, Over, Caught, Gone
  <1> QED BY <1>3, <1>4, <1>5, <1>6, Zenon DEF ReplayInv

\* A request finds the ring empty and the service listening.
LEMMA SendRequestInv == ASSUME ReplayInv, SendRequest PROVE ReplayInv'
  <1>1. /\ driver = "send" /\ UNCHANGED <<replies, open, service, result>> /\ UNCHANGED pool
        /\ UNCHANGED facts
    BY Zenon DEF SendRequest
  <1>2. /\ service = "recv" /\ requests = <<>> /\ replies = <<>> /\ result = Nothing
        /\ Blank("driver") /\ Len(replayed) = cursor
    BY <1>1, Zenon DEF ReplayInv, DriverTurn, ServiceTurn, Over, Caught, Gone
  <1>3. "request_receiver" \in open BY <1>2, Zenon DEF ReplayInv, Ends
  <1>4. requests' = <<"NextPage">> /\ driver' = "wait" BY <1>2, <1>3 DEF SendRequest
  <1>5. Blank("driver")' /\ Sized' BY <1>1, <1>2, PageStays, Zenon DEF ReplayInv, Sides
  <1>6. Replayed' /\ Len(replayed)' = cursor' /\ final_capacity' = final_capacity
    BY <1>1, <1>2, ReplayStays, Zenon DEF ReplayInv
  <1>7. Ends' /\ Captured' BY <1>1, <1>2, <1>4, <1>6, BothPresent, Zenon DEF Gone
  <1>8. ServiceTurn' BY <1>1, <1>2, <1>4, <1>5, <1>6, Zenon DEF ServiceTurn
  <1> QED BY <1>5, <1>6, <1>7, <1>8, Zenon DEF ReplayInv

\* A reply brings the page back, or says that the service has returned it.
LEMMA ReceiveReplyInv == ASSUME ReplayInv, ReceiveReply PROVE ReplayInv'
  <1>1. driver = "wait" /\ UNCHANGED <<requests, open, service, result>> /\ UNCHANGED facts
    BY Zenon DEF ReceiveReply
  <1>2. driver' \in {"read", "finish"} BY Zenon DEF ReceiveReply
  <1>3. Replayed' /\ replayed' = replayed /\ cursor' = cursor /\ final_capacity' = final_capacity
    BY <1>1, ReplayStays, Zenon DEF ReplayInv
  <1>4. Ends' /\ Captured' BY <1>1, <1>2, <1>3, BothPresent, Zenon DEF Gone
  <1>5. CASE replies = <<"Page">>
    <2>1. /\ service = "recv" /\ requests = <<>> /\ result = Nothing
          /\ Full("service") /\ Len(replayed) + 1 = cursor
      BY <1>1, <1>5, Zenon DEF ReplayInv, DriverTurn, ServiceTurn, Over, Caught, Gone
    <2>2. replies' = <<>> /\ driver' = "read" /\ Pool!Move(TheLease("service"), "driver")
      BY <1>5 DEF ReceiveReply
    <2>3. Sized' /\ Full("driver")' BY <2>1, <2>2, PageMoves, Zenon DEF ReplayInv, Sides
    <2>4. DriverTurn' BY <1>1, <1>3, <2>1, <2>2, <2>3, Zenon DEF DriverTurn
    <2> QED BY <1>3, <1>4, <2>3, <2>4, Zenon DEF ReplayInv
  <1>6. CASE replies \in {<<"End">>, <<"Error">>}
    <2>1. /\ service = "recv" /\ requests = <<>> /\ result = Nothing
          /\ Free /\ Len(replayed) = cursor
      BY <1>1, <1>6 DEF ReplayInv, DriverTurn, ServiceTurn, Over, Caught, Gone
    <2>a. replies # <<>> /\ Head(replies) # "Page" /\ Tail(replies) = <<>>
      <3>1. CASE replies = <<"End">> BY <3>1
      <3>2. CASE replies = <<"Error">> BY <3>2
      <3> QED BY <1>6, <3>1, <3>2, Zenon
    <2>2. replies' = <<>> /\ driver' = "finish" /\ UNCHANGED pool
      BY <2>a, Zenon DEF ReceiveReply
    <2>3. Sized' /\ Free' BY <2>1, <2>2, PageStays, Zenon DEF ReplayInv
    <2>4. Over' BY <1>1, <1>3, <2>1, <2>2, <2>3, Zenon DEF Over, Caught
    <2> QED BY <1>3, <1>4, <2>3, <2>4, Zenon DEF ReplayInv
  <1>7. CASE replies = <<>>
    <2>1. "reply_sender" \notin open /\ driver' = "finish" /\ UNCHANGED pool /\ replies' = replies
      BY <1>7, Zenon DEF ReceiveReply
    <2>2. service = "done" BY <2>1, Zenon DEF ReplayInv, Ends
    <2>3. /\ requests = <<>> /\ result = Nothing /\ Free /\ Len(replayed) = cursor
      BY <1>1, <2>2, Zenon DEF ReplayInv, DriverTurn, ServiceTurn, Over, Caught, Gone
    <2>4. Sized' /\ Free' BY <2>1, <2>3, PageStays, Zenon DEF ReplayInv
    <2>5. Over' BY <1>1, <1>3, <1>7, <2>1, <2>2, <2>3, <2>4, Zenon DEF Over, Caught, Gone
    <2> QED BY <1>3, <1>4, <2>4, <2>5, Zenon DEF ReplayInv
  <1> QED BY <1>1, <1>5, <1>6, <1>7, Zenon DEF ReplayInv, DriverTurn, ServiceTurn, Over, Caught,
     Gone

\* The page the driver reads is the next of the history.
LEMMA ReadPageInv == ASSUME ReplayInv, ReadPage PROVE ReplayInv'
  <1>1. /\ driver = "read" /\ driver' \in {"drop", "reject"}
        /\ UNCHANGED <<requests, replies, open, service, result>>
        /\ UNCHANGED pool /\ UNCHANGED <<history, cursor, logical_pages, final_capacity>>
    BY Zenon DEF ReadPage, channels
  <1>2. /\ service = "recv" /\ requests = <<>> /\ replies = <<>> /\ result = Nothing
        /\ Full("driver") /\ Len(replayed) + 1 = cursor
    BY <1>1, Zenon DEF ReplayInv, DriverTurn, ServiceTurn, Over, Caught, Gone
  <1>3. PICK l : /\ Newest(l) /\ leases = {l} /\ l.live /\ l.owner = "driver" /\ l.filled
    BY <1>2, Zenon DEF Full
  <1>4. "driver" \in Sides /\ l \in Pool!Lease BY <1>3, Zenon DEF Newest, Sides
  <1>5. TheLease("driver") = l /\ l.page = "page" BY <1>3, <1>4, Finds, OnePage, Zenon
  <1>6. bytes[l.page] = l.generation BY <1>2, <1>3, <1>5, Zenon DEF Full, Newest
  <1>7. \/ replayed' = Append(replayed, cursor) /\ driver' = "drop"
        \/ replayed' = replayed /\ driver' = "reject"
    BY <1>3, <1>5, <1>6, Zenon DEF ReadPage
  <1>8. Full("driver")' /\ Sized' BY <1>1, <1>2, <1>4, PageStays, Zenon DEF ReplayInv
  <1>9. /\ Replayed'
        /\ \/ Len(replayed') = cursor' /\ driver' = "drop"
           \/ Len(replayed') + 1 = cursor' /\ driver' = "reject"
    <2>1. CASE replayed' = Append(replayed, cursor) /\ driver' = "drop"
      BY <1>1, <1>2, <2>1 DEF ReplayInv, Replayed
    <2>2. CASE replayed' = replayed /\ driver' = "reject"
      BY <1>1, <1>2, <2>2, Zenon DEF ReplayInv, Replayed
    <2> QED BY <1>7, <2>1, <2>2, Zenon
  <1>10. Ends' /\ Captured' BY <1>1, <1>2, BothPresent, Zenon DEF Gone
  <1>11. DriverTurn' BY <1>1, <1>2, <1>8, <1>9, Zenon DEF DriverTurn
  <1> QED BY <1>8, <1>9, <1>10, <1>11, Zenon DEF ReplayInv

\* The driver drops the page it has read.
LEMMA DriverDropsInv == ASSUME WidthAssumption, ReplayInv, DriverDrops PROVE ReplayInv'
  <1>1. /\ \/ driver = "drop" /\ driver' = "return"
           \/ driver = "reject" /\ driver' = "end"
           \/ driver = "unwind" /\ driver' = "unwound"
        /\ UNCHANGED <<requests, replies, open, service, result>>
        /\ UNCHANGED facts /\ Pool!DropLease(TheLease("driver"))
    BY Zenon DEF DriverDrops, channels
  <1>2. /\ service = "recv" /\ requests = <<>> /\ replies = <<>> /\ result = Nothing
        /\ Full("driver") /\ driver \notin Gone /\ driver' \notin Gone
        /\ \/ driver' = "return" /\ Len(replayed) = cursor
           \/ driver' \in {"end", "unwound"} /\ Len(replayed) + 1 = cursor
    BY <1>1, Zenon DEF ReplayInv, DriverTurn, ServiceTurn, Over, Gone
  <1>3. Sized' /\ Dropped' BY <1>1, <1>2, PageDrops, Zenon DEF ReplayInv, Sides
  <1>4. Replayed' /\ replayed' = replayed /\ cursor' = cursor /\ final_capacity' = final_capacity
    BY <1>1, ReplayStays, Zenon DEF ReplayInv
  <1>5. Ends' /\ Captured' BY <1>1, <1>2, <1>4, BothPresent, Zenon DEF Gone
  <1>6. DriverTurn' BY <1>1, <1>2, <1>3, <1>4, Zenon DEF DriverTurn
  <1> QED BY <1>3, <1>4, <1>5, <1>6, Zenon DEF ReplayInv

\* The driver's page is back before it asks again or ends.
LEMMA DriverReturnsInv == ASSUME ReplayInv, DriverReturns PROVE ReplayInv'
  <1>1. /\ \/ driver = "return" /\ driver' \in {"call", "finish"}
           \/ driver = "end" /\ driver' = "finish"
           \/ driver = "unwound" /\ driver' = "close_requests"
        /\ UNCHANGED <<requests, replies, open, service, result>>
        /\ UNCHANGED facts /\ Pool!ReturnPage(InFlight)
    BY Zenon DEF DriverReturns, channels
  <1>2. /\ service = "recv" /\ requests = <<>> /\ replies = <<>> /\ result = Nothing
        /\ Dropped
        /\ \/ driver' = "call" /\ Len(replayed) = cursor
           \/ driver' \in {"finish", "close_requests"} /\ Caught
    BY <1>1, Zenon DEF ReplayInv, DriverTurn, ServiceTurn, Over, Caught, Gone
  <1>3. Sized' /\ Free' BY <1>1, <1>2, PageReturns, Zenon DEF ReplayInv
  <1>4. Replayed' /\ replayed' = replayed /\ cursor' = cursor /\ final_capacity' = final_capacity
    BY <1>1, ReplayStays, Zenon DEF ReplayInv
  <1>5. Ends' /\ Captured' BY <1>1, <1>2, <1>4, BothPresent, Zenon DEF Gone
  <1>6. DriverTurn' \/ Over'
    BY <1>1, <1>2, <1>3, <1>4, Zenon DEF DriverTurn, Over, Caught, Gone
  <1> QED BY <1>3, <1>4, <1>5, <1>6, Zenon DEF ReplayInv

\* An unwinding driver has the page, or has left it in the pool.
LEMMA DriverUnwindsInv == ASSUME ReplayInv, DriverUnwinds PROVE ReplayInv'
  <1>1. /\ \/ driver \in {"call", "finish"} /\ driver' = "close_requests"
           \/ driver = "read" /\ driver' = "unwind"
        /\ UNCHANGED <<requests, replies, open, service, result>>
        /\ UNCHANGED pool /\ UNCHANGED facts
    BY Zenon DEF DriverUnwinds, channels
  <1>2. /\ requests = <<>> /\ replies = <<>> /\ result = Nothing
        /\ \/ /\ driver' = "close_requests" /\ Free /\ Caught
              /\ service \in {"recv"} \cup Gone
           \/ /\ driver' = "unwind" /\ Full("driver") /\ Len(replayed) + 1 = cursor
              /\ service = "recv"
    BY <1>1, Zenon DEF ReplayInv, DriverTurn, ServiceTurn, Over, Caught, Gone
  <1>3. Sized' /\ (Free => Free') /\ (Full("driver") => Full("driver")')
    BY <1>1, PageStays, Zenon DEF ReplayInv, Sides
  <1>4. Replayed' /\ replayed' = replayed /\ cursor' = cursor /\ final_capacity' = final_capacity
    BY <1>1, ReplayStays, Zenon DEF ReplayInv
  <1>5. Ends' /\ Captured' BY <1>1, <1>4, BothPresent, Zenon DEF Gone
  <1>6. DriverTurn' \/ Over'
    BY <1>1, <1>2, <1>3, <1>4, Zenon DEF DriverTurn, Over, Caught, Gone
  <1> QED BY <1>3, <1>4, <1>5, <1>6, Zenon DEF ReplayInv

\* The driver ends with the page in the pool.
LEMMA FinishInv == ASSUME ReplayInv, Finish PROVE ReplayInv'
  <1>1. /\ driver = "finish" /\ driver' = "close_requests"
        /\ UNCHANGED <<replies, open, service, result>>
        /\ UNCHANGED pool /\ UNCHANGED facts
    BY Zenon DEF Finish
  <1>2. /\ service \in {"recv"} \cup Gone /\ requests = <<>> /\ replies = <<>> /\ result = Nothing
        /\ Free /\ Caught
    BY <1>1, Zenon DEF ReplayInv, DriverTurn, ServiceTurn, Over, Gone
  <1>3. requests' \in {<<>>, <<"Finished">>} BY <1>2 DEF Finish
  <1>4. Sized' /\ Free' BY <1>1, <1>2, PageStays, Zenon DEF ReplayInv
  <1>5. Replayed' /\ Caught' /\ final_capacity' = final_capacity
    BY <1>1, <1>2, ReplayStays, Zenon DEF ReplayInv, Caught
  <1>6. Ends' /\ Captured' BY <1>1, <1>5, BothPresent, Zenon DEF Gone
  <1>7. Over' BY <1>1, <1>2, <1>3, <1>4, <1>5, Zenon DEF Over, Gone
  <1> QED BY <1>4, <1>5, <1>6, <1>7, Zenon DEF ReplayInv

\* The driver's halves go one after the other.
LEMMA DriverClosesInv == ASSUME ReplayInv, DriverCloses PROVE ReplayInv'
  <1>1. /\ UNCHANGED <<requests, replies, service, result>> /\ UNCHANGED pool /\ UNCHANGED facts
        /\ driver \in Gone /\ driver' \in Gone
    BY Zenon DEF DriverCloses, Gone
  <1>2. /\ service \in {"recv"} \cup Gone /\ replies = <<>> /\ result = Nothing
        /\ requests \in {<<>>, <<"Finished">>} /\ Free /\ Caught
    BY <1>1, Zenon DEF ReplayInv, DriverTurn, ServiceTurn, Over, Gone
  <1>3. Sized' /\ Free' BY <1>1, <1>2, PageStays, Zenon DEF ReplayInv
  <1>4. /\ Replayed' /\ Caught' /\ final_capacity' = final_capacity
        /\ cursor' = cursor
    BY <1>1, <1>2, ReplayStays, Zenon DEF ReplayInv, Caught
  <1>5. Captured' BY <1>1, <1>4, Zenon DEF Captured, ReplayInv
  <1>6. Ends' BY <1>1, Zenon DEF DriverCloses, Ends, ReplayInv
  <1>7. Over' BY <1>1, <1>2, <1>3, <1>4, Zenon DEF Over
  <1> QED BY <1>3, <1>4, <1>5, <1>6, <1>7, Zenon DEF ReplayInv

\* A request brings the page; the end finds it in the pool.
LEMMA ReceiveRequestInv == ASSUME ReplayInv, ReceiveRequest PROVE ReplayInv'
  <1>1. /\ service = "recv" /\ UNCHANGED <<replies, open, driver, result>>
        /\ UNCHANGED <<history, cursor, replayed, logical_pages>>
    BY Zenon DEF ReceiveRequest
  <1>2. Replayed' BY <1>1, Zenon DEF ReplayInv, Replayed
  <1>3. result = Nothing /\ final_capacity = <<>>
    BY <1>1, Zenon DEF ReplayInv, DriverTurn, ServiceTurn, Over, Caught, Captured, Gone
  <1>4. service' \in {"serve", "close_requests"} BY Zenon DEF ReceiveRequest
  <1>5. Ends' BY <1>1, <1>4, Zenon DEF ReplayInv, Ends
  <1>6. CASE requests = <<"NextPage">>
    <2>1. driver = "wait" /\ replies = <<>> /\ Blank("driver") /\ Len(replayed) = cursor
      BY <1>1, <1>6, Zenon DEF ReplayInv, DriverTurn, ServiceTurn, Over, Caught, Gone
    <2>2. requests # <<>> /\ Head(requests) = "NextPage" /\ Tail(requests) = <<>> BY <1>6
    <2>3. /\ requests' = <<>> /\ service' = "serve" /\ final_capacity' = final_capacity
          /\ Pool!Move(TheLease("driver"), "service")
      BY <2>2, Zenon DEF ReceiveRequest
    <2>4. Sized' /\ Blank("service")' BY <2>1, <2>3, PageMoves, Zenon DEF ReplayInv, Sides
    <2>5. Captured' BY <1>3, <2>3, Zenon DEF Captured
    <2>6. ServiceTurn' BY <1>1, <1>3, <2>1, <2>3, <2>4, Zenon DEF ServiceTurn
    <2> QED BY <1>2, <1>5, <2>4, <2>5, <2>6, Zenon DEF ReplayInv
  <1>7. CASE requests = <<"Finished">>
    <2>1. driver \in Gone /\ replies = <<>> /\ Free /\ Caught
      BY <1>1, <1>7, Zenon DEF ReplayInv, DriverTurn, ServiceTurn, Over, Gone
    <2>2. requests # <<>> /\ Head(requests) = "Finished" /\ Tail(requests) = <<>> BY <1>7
    <2>3. /\ requests' = <<>> /\ service' = "close_requests" /\ UNCHANGED pool
          /\ final_capacity' = <<Capacities>>
      BY <2>2, Zenon DEF ReceiveRequest
    <2>4. Sized' /\ Free' BY <2>1, <2>3, PageStays, Zenon DEF ReplayInv
    <2>5. leased = 0 /\ Len(requests') = 0 /\ Len(replies) = 0 /\ logical_pages = cursor
      BY <2>1, <2>3, Zenon DEF Free, ReplayInv, Replayed
    <2>6. Capacities = [leased |-> 0, requests |-> 0, replies |-> 0, pages |-> cursor]
      BY <2>5, Zenon DEF Capacities
    <2>7. Captured' BY <1>1, <2>1, <2>3, <2>6, Zenon DEF Captured, Gone
    <2>8. Over' BY <1>1, <1>3, <2>1, <2>3, <2>4, Zenon DEF Over, Caught, Gone
    <2> QED BY <1>2, <1>5, <2>4, <2>7, <2>8, Zenon DEF ReplayInv
  <1>8. CASE requests = <<>>
    <2>1. /\ "request_sender" \notin open /\ service' = "close_requests" /\ UNCHANGED pool
          /\ requests' = requests /\ final_capacity' = final_capacity
      BY <1>8, Zenon DEF ReceiveRequest
    <2>2. driver \in Gone BY <2>1, Zenon DEF ReplayInv, Ends, Gone
    <2>3. replies = <<>> /\ Free /\ Caught
      BY <2>2, Zenon DEF ReplayInv, DriverTurn, ServiceTurn, Over, Gone
    <2>4. Sized' /\ Free' BY <2>1, <2>3, PageStays, Zenon DEF ReplayInv
    <2>5. Captured' BY <1>3, <2>1, Zenon DEF Captured
    <2>6. Over' BY <1>1, <1>3, <1>8, <2>1, <2>2, <2>3, <2>4, Zenon DEF Over, Caught, Gone
    <2> QED BY <1>2, <1>5, <2>4, <2>5, <2>6, Zenon DEF ReplayInv
  <1> QED BY <1>6, <1>7, <1>8, Zenon DEF ReplayInv, DriverTurn, ServiceTurn, Over, Caught

\* The closure fills the page, or leaves it to be dropped.
LEMMA ServeInv ==
    ASSUME WidthAssumption, ReplayInv, Serve \/ ServeUnwinds PROVE ReplayInv'
  <1>1. /\ service = "serve" /\ UNCHANGED <<requests, replies, open, driver>>
        /\ UNCHANGED <<history, replayed, final_capacity>>
    BY Zenon DEF Serve, ServeUnwinds, channels, facts
  <1>2. /\ driver = "wait" /\ requests = <<>> /\ replies = <<>>
        /\ Blank("service") /\ Len(replayed) = cursor
    BY <1>1, Zenon DEF ReplayInv, DriverTurn, ServiceTurn, Over, Caught, Gone
  <1>3. CASE /\ cursor < history /\ cursor' = cursor + 1 /\ Pool!Fill(TheLease("service"))
             /\ result' = "Page" /\ logical_pages' = logical_pages + 1 /\ service' = "reply"
    <2>1. Sized' /\ Full("service")' BY <1>2, <1>3, PageFills, Zenon DEF ReplayInv, Sides
    <2>2. Replayed' /\ Len(replayed)' + 1 = cursor'
      BY <1>1, <1>2, <1>3 DEF ReplayInv, Replayed
    <2>3. Ends' /\ Captured' BY <1>1, <1>2, <1>3, BothPresent, Zenon DEF Gone
    <2>4. ServiceTurn' BY <1>1, <1>2, <1>3, <2>1, <2>2, Zenon DEF ServiceTurn
    <2> QED BY <2>1, <2>2, <2>3, <2>4, Zenon DEF ReplayInv
  <1>4. CASE /\ service' = "drop" /\ result' \in {Nothing, "End", "Error"} /\ UNCHANGED pool
             /\ cursor' = cursor /\ logical_pages' = logical_pages
    <2>1. Sized' /\ Blank("service")' BY <1>2, <1>4, PageStays, Zenon DEF ReplayInv, Sides
    <2>2. Replayed' /\ Len(replayed)' = cursor' BY <1>1, <1>2, <1>4, Zenon DEF ReplayInv, Replayed
    <2>3. Ends' /\ Captured' BY <1>1, <1>2, <1>4, BothPresent, Zenon DEF Gone
    <2>4. ServiceTurn' BY <1>1, <1>2, <1>4, <2>1, <2>2, Zenon DEF ServiceTurn
    <2> QED BY <2>1, <2>2, <2>3, <2>4, Zenon DEF ReplayInv
  <1>5. CASE Serve BY <1>3, <1>4, <1>5, Zenon DEF Serve, NoPage, FillPage
  <1>6. CASE ServeUnwinds BY <1>4, <1>6, Zenon DEF ServeUnwinds, facts
  <1> QED BY <1>5, <1>6, Zenon

\* The service drops the page it did not fill.
LEMMA ServiceDropsInv == ASSUME WidthAssumption, ReplayInv, ServiceDrops PROVE ReplayInv'
  <1>1. /\ service = "drop" /\ service' = "return"
        /\ UNCHANGED <<requests, replies, open, driver, result>>
        /\ UNCHANGED facts /\ Pool!DropLease(TheLease("service"))
    BY Zenon DEF ServiceDrops, channels
  <1>2. /\ driver = "wait" /\ requests = <<>> /\ replies = <<>>
        /\ result \in {Nothing, "End", "Error"}
        /\ Blank("service") /\ Len(replayed) = cursor
    BY <1>1, Zenon DEF ReplayInv, DriverTurn, ServiceTurn, Over, Caught, Gone
  <1>3. Sized' /\ Dropped' BY <1>1, <1>2, PageDrops, Zenon DEF ReplayInv, Sides
  <1>4. Replayed' /\ Len(replayed)' = cursor' /\ final_capacity' = final_capacity
    BY <1>1, <1>2, ReplayStays, Zenon DEF ReplayInv
  <1>5. Ends' /\ Captured' BY <1>1, <1>2, <1>4, BothPresent, Zenon DEF Gone
  <1>6. ServiceTurn' BY <1>1, <1>2, <1>3, <1>4, Zenon DEF ServiceTurn
  <1> QED BY <1>3, <1>4, <1>5, <1>6, Zenon DEF ReplayInv

\* The service's page is back before it answers or ends.
LEMMA ServiceReturnsInv == ASSUME ReplayInv, ServiceReturns PROVE ReplayInv'
  <1>1. /\ service = "return" /\ UNCHANGED <<requests, replies, open, driver, result>>
        /\ service' = (IF result = Nothing THEN "close_requests" ELSE "reply")
        /\ UNCHANGED facts /\ Pool!ReturnPage(InFlight)
    BY Zenon DEF ServiceReturns, channels
  <1>2. /\ driver = "wait" /\ requests = <<>> /\ replies = <<>>
        /\ result \in {Nothing, "End", "Error"}
        /\ Dropped /\ Len(replayed) = cursor
    BY <1>1, Zenon DEF ReplayInv, DriverTurn, ServiceTurn, Over, Caught, Gone
  <1>3. Sized' /\ Free' BY <1>1, <1>2, PageReturns, Zenon DEF ReplayInv
  <1>4. Replayed' /\ Len(replayed)' = cursor' /\ final_capacity' = final_capacity
    BY <1>1, <1>2, ReplayStays, Zenon DEF ReplayInv
  <1>5. Ends' /\ Captured' BY <1>1, <1>2, <1>4, BothPresent, Zenon DEF Gone
  <1>6. ServiceTurn' BY <1>1, <1>2, <1>3, <1>4, Zenon DEF ServiceTurn, Gone
  <1> QED BY <1>3, <1>4, <1>5, <1>6, Zenon DEF ReplayInv

\* A reply finds the ring empty and the driver listening.
LEMMA SendReplyInv == ASSUME ReplayInv, SendReply PROVE ReplayInv'
  <1>1. /\ service = "reply" /\ UNCHANGED <<requests, open, driver>> /\ UNCHANGED pool
        /\ UNCHANGED facts
    BY Zenon DEF SendReply
  <1>2. /\ driver = "wait" /\ requests = <<>> /\ replies = <<>>
        /\ \/ result = "Page" /\ Full("service") /\ Len(replayed) + 1 = cursor
           \/ result \in {"End", "Error"} /\ Free /\ Len(replayed) = cursor
    BY <1>1, Zenon DEF ReplayInv, DriverTurn, ServiceTurn, Over, Caught, Gone
  <1>3. "reply_receiver" \in open BY <1>2, Zenon DEF ReplayInv, Ends
  <1>4. replies' = <<result>> /\ result' = Nothing /\ service' = "recv" BY <1>2, <1>3 DEF SendReply
  <1>5. Sized' /\ (Full("service") => Full("service")') /\ (Free => Free')
    BY <1>1, PageStays, Zenon DEF ReplayInv, Sides
  <1>6. Replayed' /\ replayed' = replayed /\ cursor' = cursor /\ final_capacity' = final_capacity
    BY <1>1, ReplayStays, Zenon DEF ReplayInv
  <1>7. Ends' /\ Captured' BY <1>1, <1>2, <1>4, <1>6, BothPresent, Zenon DEF Gone
  <1>8. ServiceTurn' BY <1>1, <1>2, <1>4, <1>5, <1>6, Zenon DEF ServiceTurn
  <1> QED BY <1>5, <1>6, <1>7, <1>8, Zenon DEF ReplayInv

\* The service's halves go one after the other.
LEMMA ServiceClosesInv == ASSUME ReplayInv, ServiceCloses PROVE ReplayInv'
  <1>1. /\ UNCHANGED <<requests, replies, driver, result>> /\ UNCHANGED pool /\ UNCHANGED facts
        /\ service \in Gone /\ service' \in Gone
    BY Zenon DEF ServiceCloses, Gone
  <1>2. /\ replies = <<>> /\ result = Nothing /\ Free
        /\ \/ driver = "wait" /\ requests = <<>> /\ Len(replayed) = cursor
           \/ driver = "finish" /\ requests = <<>> /\ Caught
           \/ driver \in Gone /\ requests \in {<<>>, <<"Finished">>} /\ Caught
    BY <1>1, Zenon DEF ReplayInv, DriverTurn, ServiceTurn, Over, Gone
  <1>3. Sized' /\ Free' BY <1>1, <1>2, PageStays, Zenon DEF ReplayInv
  <1>4. /\ Replayed' /\ replayed' = replayed /\ final_capacity' = final_capacity
        /\ cursor' = cursor
    BY <1>1, ReplayStays, Zenon DEF ReplayInv
  <1>5. Captured' BY <1>1, <1>4, Zenon DEF Captured, ReplayInv
  <1>6. Ends' BY <1>1, Zenon DEF ServiceCloses, Ends, ReplayInv
  <1>7. ServiceTurn' \/ Over' BY <1>1, <1>2, <1>3, <1>4, Zenon DEF Over, Caught, ServiceTurn
  <1> QED BY <1>3, <1>4, <1>5, <1>6, <1>7, Zenon DEF ReplayInv

\* Every step preserves the invariant.
LEMMA ReplayInvNext ==
    ASSUME WidthAssumption, ReplayInv, [ReplayNext]_replayVars PROVE ReplayInv'
  <1>1. CASE DriverStep
    BY <1>1, DispatchInv, NextPageInv, SendRequestInv, ReceiveReplyInv, ReadPageInv,
       DriverUnwindsInv, DriverDropsInv, DriverReturnsInv, FinishInv, DriverClosesInv,
          Zenon DEF DriverStep
  <1>2. CASE ServiceStep
    BY <1>2, ReceiveRequestInv, ServeInv, ServiceDropsInv, ServiceReturnsInv, SendReplyInv,
       ServiceClosesInv, Zenon DEF ServiceStep
  <1>3. CASE UNCHANGED replayVars
    <2>1. /\ UNCHANGED <<requests, replies, open, driver, service, result>>
          /\ UNCHANGED pool /\ UNCHANGED facts
      BY <1>3, Zenon DEF replayVars, channels
    <2>2. /\ Sized' /\ (Free => Free') /\ (Dropped => Dropped')
          /\ \A o \in Sides : (Blank(o) => Blank(o)') /\ (Full(o) => Full(o)')
      BY <2>1, PageStays, Zenon DEF ReplayInv
    <2>3. /\ Replayed' /\ cursor' = cursor /\ replayed' = replayed
          /\ final_capacity' = final_capacity
      BY <2>1, ReplayStays, Zenon DEF ReplayInv
    <2>4. Ends' /\ Captured' BY <2>1, <2>3, Zenon DEF ReplayInv, Ends, Captured
    <2>5. "driver" \in Sides /\ "service" \in Sides BY Zenon DEF Sides
    <2>6. DriverTurn => DriverTurn' BY <2>1, <2>2, <2>3, <2>5, Zenon DEF DriverTurn
    <2>7. ServiceTurn => ServiceTurn' BY <2>1, <2>2, <2>3, <2>5, Zenon DEF ServiceTurn
    <2>8. Over => Over' BY <2>1, <2>2, <2>3, Zenon DEF Over, Caught
    <2> QED BY <2>2, <2>3, <2>4, <2>6, <2>7, <2>8, Zenon DEF ReplayInv
  <1> QED BY <1>1, <1>2, <1>3, Zenon DEF ReplayNext

\* The pool of one page is sound wherever the page is.
LEMMA PagePoolSound == ASSUME WidthAssumption, Few, ReplayInv PROVE Pool!PoolSound
  <1>1. \/ Free
        \/ Out /\ bytes["page"] \in {0, next_generation - 1} /\ \E l : Newest(l) /\ leases = {l}
    <2>1. Free \/ Dropped \/ \E o \in Sides : Blank(o) \/ Full(o)
      BY Zenon DEF ReplayInv, DriverTurn, ServiceTurn, Over, Sides
    <2> QED BY <2>1, Zenon DEF Blank, Full, Dropped
  <1>2. Pool!PageCount = 1 BY Zenon DEF Pool!PageCount, Pages, Few
  <1>3. Sized BY Zenon DEF ReplayInv
  <1>4. CASE Free
    <2>1. Pool!TypeOK
      BY <1>2, <1>3, <1>4, WidthAssumption DEF Pool!TypeOK, Free, Sized, Pages, Pool!Generations,
         Pool!Zero
    <2>2. /\ {i \in DOMAIN available : available[i] = "page"} = {1}
          /\ {l \in leases : l.page = "page"} = {}
      BY <1>4 DEF Free
    <2>3. Pool!PagesConserved
      <3>1. \A p \in Pages : p = "page" BY Zenon DEF Pages
      <3>2. Pool!Cardinality({i \in DOMAIN available : available[i] = "page"})
              + Pool!Cardinality({l \in leases : l.page = "page"}) = 1
        <4>1. /\ Pool!Cardinality({i \in DOMAIN available : available[i] = "page"}) = 1
              /\ Pool!Cardinality({l \in leases : l.page = "page"}) = 0
          BY <2>2, Zenon DEF Few
        <4> QED BY <4>1
      <3> QED BY <1>4, <3>1, <3>2, Zenon DEF Pool!PagesConserved, Free
    <2>4. Pool!LeasesCounted BY <1>2, <1>3, <1>4 DEF Pool!LeasesCounted, Free, Sized, Few
    <2>5. Pool!NoForeignBytes BY <1>4 DEF Pool!NoForeignBytes, Free, Pool!Zero
    <2>6. Pool!GenerationsDistinct BY <1>4, Zenon DEF Pool!GenerationsDistinct, Free
    <2> QED BY <2>1, <2>3, <2>4, <2>5, <2>6, Zenon DEF Pool!PoolSound
  <1>5. CASE Out /\ bytes["page"] \in {0, next_generation - 1} /\ \E l : Newest(l) /\ leases = {l}
    <2>1. PICK l : Newest(l) /\ leases = {l} BY <1>5, Zenon
    <2>2. l \in Pool!Lease /\ l.page = "page" /\ l.generation = next_generation - 1
      BY <2>1, OnePage, Zenon DEF Newest
    <2>3. Pool!TypeOK
      <3>1. leases \subseteq Pool!Lease BY <2>1, <2>2, Zenon
      <3> QED BY <1>2, <1>3, <1>5, <3>1, WidthAssumption
            DEF Pool!TypeOK, Out, Sized, Pages, Pool!Generations, Pool!Zero
    <2>4. /\ {i \in DOMAIN available : available[i] = "page"} = {} BY <1>5 DEF Out
    <2>5. {m \in leases : m.page = "page"} = {l} BY <2>1, <2>2, Zenon
    <2>6. Pool!PagesConserved
      <3>1. \A p \in Pages : p = "page" BY Zenon DEF Pages
      <3>2. Pool!Cardinality({i \in DOMAIN available : available[i] = "page"})
              + Pool!Cardinality({m \in leases : m.page = "page"}) = 1
        <4>1. /\ Pool!Cardinality({i \in DOMAIN available : available[i] = "page"}) = 0
              /\ Pool!Cardinality({m \in leases : m.page = "page"}) = 1
          BY <2>4, <2>5, Zenon DEF Few
        <4> QED BY <4>1
      <3> QED BY <2>1, <3>1, <3>2, Zenon DEF Pool!PagesConserved
    <2>7. Pool!Cardinality(leases) = 1 BY <2>1, Zenon DEF Few
    <2>8. Pool!LeasesCounted BY <1>2, <1>3, <1>5, <2>7 DEF Pool!LeasesCounted, Out, Sized
    <2>9. Pool!NoForeignBytes
      <3>1. DOMAIN available = {} BY <1>5 DEF Out
      <3> QED BY <1>5, <2>1, <2>2, <3>1, Zenon DEF Pool!NoForeignBytes, Pool!Zero
    <2>10. next_generation - 1 < next_generation BY <1>3 DEF Sized
    <2>11. Pool!GenerationsDistinct BY <2>1, <2>2, <2>10, Zenon DEF Pool!GenerationsDistinct
    <2> QED BY <2>3, <2>6, <2>8, <2>9, <2>11, Zenon DEF Pool!PoolSound
  <1> QED BY <1>1, <1>4, <1>5, Zenon

\* The invariant gives all that ReplaySound says.
LEMMA ReplayIsSound ==
    ASSUME HistoryAssumption, WidthAssumption, Few, ReplayInv PROVE ReplaySound
  <1>1. Pool!PoolSound BY PagePoolSound, Zenon
  <1>2. OnePageSuffices BY Zenon DEF ReplayInv, Sized, OnePageSuffices
  <1>3. ReplayIsPrefix BY Zenon DEF ReplayInv, Replayed, ReplayIsPrefix
  <1>4. FinalCapacityIdle
    <2>1. CASE final_capacity = <<>> BY <2>1 DEF FinalCapacityIdle
    <2>2. CASE /\ driver \in Gone /\ service \in Gone
               /\ final_capacity =
                         <<[leased |-> 0, requests |-> 0, replies |-> 0, pages |-> cursor]>>
      <3>1. \E refused \in {0, 1} : cursor = Len(replayed) + refused
        <4>1. Caught BY <2>2, Zenon DEF ReplayInv, DriverTurn, ServiceTurn, Over, Gone
        <4>2. Len(replayed) \in Nat BY DEF ReplayInv, Replayed
        <4> QED BY <4>1, <4>2 DEF Caught
      <3>2. \A i \in DOMAIN final_capacity : final_capacity[i] =
               [leased |-> 0, requests |-> 0, replies |-> 0, pages |-> cursor]
        BY <2>2
      <3> QED BY <3>1, <3>2, Zenon DEF FinalCapacityIdle
    <2> QED BY <2>1, <2>2, Zenon DEF ReplayInv, Captured
  <1>5. PageComesBack
    BY Zenon DEF ReplayInv, DriverTurn, ServiceTurn, Over, Gone, PageComesBack, Free
  <1>6. ReplayTypeOK
    <2>1. requests \in {<<>>, <<"NextPage">>, <<"Finished">>}
      BY Zenon DEF ReplayInv, DriverTurn, ServiceTurn, Over
    <2>2. replies \in {<<>>} \cup {<<a>> : a \in Answers}
      <3>1. replies \in {<<>>, <<"Page">>, <<"End">>, <<"Error">>}
        BY Zenon DEF ReplayInv, DriverTurn, ServiceTurn, Over
      <3>2. {<<"Page">>, <<"End">>, <<"Error">>} \subseteq {<<a>> : a \in Answers}
        BY Zenon DEF Answers
      <3> QED BY <3>1, <3>2, Zenon
    <2>3. /\ driver \in {"queued", "call", "send", "wait", "read", "drop", "return", "reject",
                         "end", "unwind", "unwound", "finish", "close_requests",
                         "close_replies", "done"}
          /\ service \in {"recv", "serve", "drop", "return", "reply",
                          "close_requests", "close_replies", "done"}
          /\ result \in Answers \cup {Nothing}
      BY Zenon DEF ReplayInv, DriverTurn, ServiceTurn, Over, Gone, Answers
    <2>4. /\ history \in 1..MaxHistory /\ cursor \in 0..history /\ logical_pages \in 0..history
          /\ replayed \in Seq(0..history)
      BY Zenon DEF ReplayInv, Replayed
    <2>5. final_capacity \in {<<>>} \cup
            {<<c>> : c \in [leased : {0, 1}, requests : {0, 1}, replies : {0, 1},
                             pages : 0..history]}
      <3>1. [leased |-> 0, requests |-> 0, replies |-> 0, pages |-> cursor]
              \in [leased : {0, 1}, requests : {0, 1}, replies : {0, 1}, pages : 0..history]
        BY <2>4, Zenon
      <3> QED BY <3>1, Zenon DEF ReplayInv, Captured
    <2>6. Pool!TypeOK /\ open \subseteq Halves BY <1>1, Zenon DEF Pool!PoolSound, ReplayInv, Ends
    <2> QED BY <2>1, <2>2, <2>3, <2>4, <2>5, <2>6, Zenon DEF ReplayTypeOK
  <1> QED BY <1>1, <1>2, <1>3, <1>4, <1>5, <1>6, Zenon DEF ReplaySound

-----------------------------------------------------------------------------
INSTANCE FiniteSetTheorems

\* One more element counts one more.
LEMMA OneMore ==
    ASSUME NEW S, NEW x, NEW T, IsFiniteSet(S), x \notin S, T = S \cup {x}
    PROVE  /\ IsFiniteSet(T)
           /\ Cardinality(S) = 1 => Cardinality(T) = 2
           /\ Cardinality(S) = 2 => Cardinality(T) = 3
  <1>1. IsFiniteSet(T) /\ Cardinality(T) = Cardinality(S) + 1 BY FS_AddElement, Zenon
  <1> QED BY <1>1

\* The locks are three and the workers finitely many.
LEMMA EverythingCounts == Counting
  <1>1. Cardinality({}) = 0 /\ \A l : IsFiniteSet({l}) /\ Cardinality({l}) = 1
    BY FS_EmptySet, FS_Singleton, Zenon
  <1>2. Cardinality({"gate", "process"}) = 2
    <2>1. {"gate", "process"} = {"gate"} \cup {"process"} /\ "process" \notin {"gate"}
      BY Zenon
    <2>2. IsFiniteSet({"gate"}) /\ Cardinality({"gate"}) = 1 BY <1>1, Zenon
    <2> QED BY <2>1, <2>2, OneMore, Zenon
  <1>3. IsFiniteSet({"process", "registry"}) /\ Cardinality({"process", "registry"}) = 2
    <2>1. {"process", "registry"} = {"process"} \cup {"registry"} /\ "registry" \notin {"process"}
      BY Zenon
    <2>2. IsFiniteSet({"process"}) /\ Cardinality({"process"}) = 1 BY <1>1, Zenon
    <2> QED BY <2>1, <2>2, OneMore, Zenon
  <1>4. Cardinality({"gate", "process", "registry"}) = 3
    <2>1. /\ {"gate", "process", "registry"} = {"process", "registry"} \cup {"gate"}
          /\ "gate" \notin {"process", "registry"}
      BY Zenon
    <2> QED BY <1>3, <2>1, OneMore, Zenon
  <1>5. ASSUME NEW S \in SUBSET Workers
        PROVE  /\ Cardinality(S) \in Nat /\ (Cardinality(S) = 0 => S = {})
               /\ \A x \in Workers \ S : Cardinality(S \cup {x}) = Cardinality(S) + 1
               /\ \A x \in S : Cardinality(S \ {x}) = Cardinality(S) - 1
               /\ Cardinality(S) <= Cardinality(Workers)
    <2>1. IsFiniteSet(S) /\ Cardinality(S) <= Cardinality(Workers)
      BY WorkersAssumption, FS_Subset, Zenon
    <2>2. Cardinality(S) \in Nat /\ (Cardinality(S) = 0 => S = {})
      BY <2>1, FS_CardinalityType, FS_EmptySet, Zenon
    <2>3. \A x \in Workers \ S : Cardinality(S \cup {x}) = Cardinality(S) + 1
      BY <2>1, FS_AddElement, Zenon
    <2>4. \A x \in S : Cardinality(S \ {x}) = Cardinality(S) - 1
      BY <2>1, FS_RemoveElement, Zenon
    <2> QED BY <2>1, <2>2, <2>3, <2>4, Zenon
  <1> QED BY <1>1, <1>2, <1>3, <1>4, <1>5, Zenon DEF Counting

(* Every reachable state of the gate, its locks and its reservations         *)
(* satisfies the invariant.                                                  *)
THEOREM Safe == Spec => []IInv
  <1>1. Init => IInv BY EverythingCounts, InitIInv, Zenon
  <1>2. IInv /\ [Next]_vars => IInv' BY EverythingCounts, NextIInv, Zenon
  <1> QED BY <1>1, <1>2, PTL DEF Spec

(* No threads wait for each other, whatever operations they are in: the      *)
(* shutdown admission, which locks the process gate first, only tries the    *)
(* others.                                                                   *)
THEOREM ShutdownNeverWaits == Spec => []NoWaitCycle
  <1>1. IInv => NoWaitCycle BY EverythingCounts, NobodyWaits, Zenon
  <1> QED BY Safe, <1>1, PTL

(* admissions counts the reservations, a published settlement holds until    *)
(* its fence is reopened, and work is admitted only by a permit issued after *)
(* the last fence.                                                           *)
THEOREM SettlementHolds == Spec => SettledStaysSettled
  <1> DEFINE Settlement == /\ TypeOK
                           /\ admissions = Cardinality(Holders)
                           /\ published => fenced /\ fence = epoch /\ Holders = {}
             Admits == (candidates' \ candidates) \cup (reserved' \ reserved) \subseteq fresh
  <1>1. ASSUME IInv PROVE Settlement
    <2> USE <1>1 DEF IInv
    <2>1. Cardinality(Holders) <= Cardinality(Workers) /\ Cardinality(Holders) \in Nat
          /\ Cardinality(Workers) \in Nat
      BY EverythingCounts, Zenon DEF Counting, Sorts, Holders
    <2>2. admissions \in 0..Cardinality(Workers) BY <2>1 DEF Reservations
    <2>3. {fenced, gate_open, published} \subseteq BOOLEAN BY Zenon DEF Flags
    <2>4. /\ {current, fresh} \subseteq SUBSET Threads
          /\ {candidates, reserved, selecting} \subseteq SUBSET Workers
      BY Zenon DEF Sorts
    <2>5. TypeOK BY <2>2, <2>3, <2>4, Zenon DEF TypeOK, Sorts
    <2> QED BY <2>5, Zenon DEF Reservations
  <1>2. IInv /\ [Next]_vars => [Admits]_vars BY NextAdmits, Zenon
  <1>3. IInv => Settlement BY <1>1, Zenon
  <1> HIDE DEF Settlement, Admits
  <1>4. Spec => []Settlement /\ [][Admits]_vars BY Safe, <1>2, <1>3, PTL DEF Spec
  <1> QED BY <1>4, Zenon DEF SettledStaysSettled, Settlement, Admits

\* The sizes of the sets the invariant allows.
LEMMA OneOrNone == Few
  <1>1. \A S : Pool!Cardinality(S) = Cardinality(S) BY Zenon DEF Pool!Cardinality, Cardinality
  <1>2. Cardinality({}) = 0 BY FS_EmptySet, Zenon
  <1>3. \A x : Cardinality({x}) = 1 BY FS_Singleton, Zenon
  <1> QED BY <1>1, <1>2, <1>3, Zenon DEF Few

(* Every reachable state of the broker satisfies the invariant: driver and   *)
(* service take turns, and the page is where the turn is.                    *)
THEOREM ReplaySafe == ReplaySpec => []ReplayInv
  <1>1. ReplayInit => ReplayInv
    BY HistoryAssumption, WidthAssumption, OneOrNone, ReplayInvInit, Zenon
  <1>2. ReplayInv /\ [ReplayNext]_replayVars => ReplayInv' BY WidthAssumption, ReplayInvNext, Zenon
  <1> QED BY <1>1, <1>2, PTL DEF ReplaySpec

(* The replay is sound for every history: the one page is neither lost nor   *)
(* doubled nor seen with the bytes of another lease, only the end of the     *)
(* generations refuses it, what is replayed is a prefix of the history, the  *)
(* capacities captured at the end show an idle broker, and the page is back  *)
(* in the pool when both sides are gone.                                     *)
THEOREM ReplayStaysSound == ReplaySpec => []ReplaySound
  <1>1. ReplayInv => ReplaySound
    BY HistoryAssumption, WidthAssumption, OneOrNone, ReplayIsSound, Zenon
  <1> QED BY <1>1, ReplaySafe, PTL
=============================================================================
