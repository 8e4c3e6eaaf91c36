-------------------------- MODULE FrozenReadsProofs -------------------------
(* The registry of frozen reads, for every finite set of threads and every   *)
(* bound on slots, requests, ids and revisions: retention is bounded and     *)
(* accounted for, and a read sees the revision of its handle.                *)
EXTENDS FrozenReads, TLAPS

\* What TypeOK says of everything but the counts of requests.
Sorts ==
    /\ slots \subseteq Ids /\ next_id \in 1..MaxId + 1
    /\ snapshot \in [Ids -> {None} \cup Revisions] /\ slot_closed \in [Ids -> BOOLEAN]
    /\ active \in [Ids -> 0..MaxRequests]
    /\ revision \in Revisions /\ handles \subseteq Ids
    /\ recorded \in [Ids -> {None} \cup Revisions]
    /\ owner \in {"open", "drain", "lock", "close", "slot", "wait", "drained", "gone"}
    /\ todo \subseteq Ids
    /\ op \in [Threads -> {"none", "capture", "retain", "read", "release"}]
    /\ pc \in [Threads -> Steps]
    /\ cur \in [Threads -> {None} \cup Ids] /\ request \in [Threads -> {None} \cup Ids]
    /\ own \in [Threads -> {None} \cup Ids]
    /\ arc \in [Threads -> {None} \cup Revisions]

\* The steps of close_and_wait and of what follows it.
Closing == {"get", "close", "wait", "drained", "remove"}

\* What a call holds at each of its steps.
CallOK(t) ==
    /\ pc[t] = "idle" <=> op[t] = "none"
    /\ op[t] \in {"retain", "read", "release"} => cur[t] \in handles
    /\ op[t] \in {"none", "capture"} => cur[t] = None
    /\ request[t] # None => request[t] = cur[t] /\ op[t] \in {"retain", "read"}
    /\ own[t] # None => op[t] \in {"capture", "retain"}
    /\ pc[t] \in {"lookup", "request"} =>
          op[t] \in {"retain", "read"} /\ request[t] = None /\ own[t] = None
    /\ pc[t] = "read" => op[t] = "read" /\ request[t] # None
    /\ pc[t] = "reserve" => op[t] \in {"capture", "retain"} /\ own[t] = None
    /\ pc[t] = "snapshot" => op[t] = "capture" /\ own[t] # None
    /\ pc[t] = "install" => own[t] # None /\ arc[t] # None
    /\ pc[t] \in {"reserve", "install"} /\ op[t] = "retain" => request[t] # None
    /\ pc[t] = "confirm" => (op[t] = "read" /\ request[t] # None) \/ own[t] # None
    /\ pc[t] \in Closing => op[t] = "release" \/ own[t] # None
    /\ pc[t] \in {"drop_snapshot", "drop_count"} => request[t] # None
    /\ pc[t] = "commit" => own[t] # None /\ request[t] = None
    /\ pc[t] = "idle" => own[t] = None
    /\ op[t] = "release" => pc[t] \in Closing
    /\ request[t] # None => (arc[t] # None <=> pc[t] # "drop_count")
    /\ request[t] = None /\ arc[t] # None => pc[t] = "install"

\* A reservation belongs to one call and is no handle yet.
Reservations ==
    /\ \A t \in Threads : own[t] # None => own[t] < next_id /\ own[t] \notin handles
    /\ \A t, u \in Threads : own[t] = own[u] /\ own[t] # None => t = u
    /\ \A i \in slots \cup handles : i < next_id
    /\ \A i \in slots : i \in handles \/ \E t \in Threads : own[t] = i

\* The owner takes the generation when nobody is in it any more.
Generation ==
    /\ owner \notin {"open", "drain"} => \A t \in Threads : ~Admitted(t)
    /\ owner \notin {"open", "drain", "lock"} => \A t \in Threads : ~InGeneration(t)
    /\ owner \in {"open", "drain", "lock", "close"} => todo = {}
    /\ owner \in {"slot", "wait", "drained", "gone"} => slots = {}
    /\ owner = "gone" => todo = {}
    /\ \A t \in Threads : InGeneration(t) /\ own[t] # None => own[t] \in slots

\* A snapshot is the one its handle records, kept while a request is on it.
Snapshots ==
    /\ \A i \in Ids : snapshot[i] # None => i \in slots \cup todo /\ snapshot[i] = recorded[i]
    /\ \A t \in Threads : pc[t] = "remove" => snapshot[Target(t)] = None /\ slot_closed[Target(t)]
    /\ \A t \in Threads : request[t] # None => snapshot[request[t]] # None
    /\ \A t \in Threads : request[t] # None /\ arc[t] # None => arc[t] = recorded[request[t]]

\* The threads with a request on a slot; each is counted, and slots are bounded.
Requests(i) == {t \in Threads : request[t] = i}
Counted == \A i \in Ids : active[i] = Cardinality(Requests(i))
Bounded == Cardinality(slots) <= Maximum

\* The inductive invariant.
IInv == /\ closed \in BOOLEAN /\ Sorts /\ Reservations /\ Generation /\ Snapshots
        /\ Counted /\ Bounded /\ \A t \in Threads : CallOK(t)

USE ThreadsAssumption, BoundsAssumption

\* What a step that concerns a single call leaves alone.
standing == <<slots, next_id, slot, revision, handles, recorded, owner, todo, request, own>>

\* What the proofs use of the cardinality of the subsets of a finite set.
Countable(T) ==
    \A S \in SUBSET T :
        /\ Cardinality(S) \in Nat /\ (Cardinality(S) = 0 <=> S = {})
        /\ \A x \in T \ S : Cardinality(S \cup {x}) = Cardinality(S) + 1
        /\ \A x \in S : Cardinality(S \ {x}) = Cardinality(S) - 1
        /\ \A R \in SUBSET S : Cardinality(R) <= Cardinality(S)

\* The bounds are positive, and None is neither an id nor a revision.
LEMMA Numbers ==
    /\ MaxId \in Nat /\ MaxRequests \in Nat /\ MaxRevision \in Nat /\ Maximum \in Nat
    /\ MaxId > 0 /\ MaxRequests > 0 /\ MaxRevision > 0 /\ Maximum > 0
    /\ None \notin Ids /\ None \notin Revisions
  BY DEF None, Ids, Revisions

\* An empty registry satisfies the invariant.
LEMMA InitIInv ==
    ASSUME Countable(Threads), Countable(Ids), Init
    PROVE  IInv
  <1> USE DEF Init
  <1>1. closed \in BOOLEAN BY Zenon
  <1>2. Sorts BY Numbers DEF Sorts, Ids, Revisions, Steps, None
  <1>3. \A t \in Threads : CallOK(t) BY Zenon DEF CallOK, Closing, None
  <1>4. Reservations /\ Generation /\ Snapshots
    BY Zenon DEF Reservations, Generation, Snapshots, InGeneration, Admitted, None
  <1>5. Counted
    <2>1. ASSUME NEW i \in Ids PROVE Requests(i) = {}
      BY Numbers, Zenon DEF Requests
    <2>2. Cardinality({}) = 0 BY Zenon DEF Countable
    <2> QED BY <2>1, <2>2, Zenon DEF Counted
  <1>6. Bounded
    <2>2. Cardinality({}) = 0 BY Zenon DEF Countable
    <2> QED BY <2>2, Numbers DEF Bounded
  <1> QED BY <1>1, <1>2, <1>3, <1>4, <1>5, <1>6, Zenon DEF IInv

\* Where a call goes.
LEMMA Moves ==
    ASSUME Sorts, NEW t \in Threads, NEW step \in Steps, GoTo(t, step)
    PROVE  /\ pc' \in [Threads -> Steps] /\ pc'[t] = step
           /\ op' \in [Threads -> {"none", "capture", "retain", "read", "release"}]
           /\ cur' \in [Threads -> {None} \cup Ids]
           /\ step = "idle" => op'[t] = "none" /\ cur'[t] = None
           /\ step # "idle" => op'[t] = op[t] /\ cur'[t] = cur[t]
           /\ \A u \in Threads \ {t} : pc'[u] = pc[u] /\ op'[u] = op[u] /\ cur'[u] = cur[u]
  BY Zenon DEF GoTo, Sorts

\* A step that concerns only the call of one thread.
LEMMA CallMoves ==
    ASSUME IInv, NEW t \in Threads,
           closed' = closed, UNCHANGED standing,
           pc' \in [Threads -> Steps],
           op' \in [Threads -> {"none", "capture", "retain", "read", "release"}],
           cur' \in [Threads -> {None} \cup Ids],
           arc' \in [Threads -> {None} \cup Revisions],
           \A u \in Threads \ {t} :
               pc'[u] = pc[u] /\ op'[u] = op[u] /\ cur'[u] = cur[u] /\ arc'[u] = arc[u],
           CallOK(t)', pc'[t] # "remove",
           Admitted(t)' => Admitted(t) \/ owner = "open",
           InGeneration(t)' => InGeneration(t) \/ (owner \in {"open", "drain"} /\ own[t] = None),
           request[t] # None => arc'[t] \in {None, arc[t]}
    PROVE  IInv'
  <1>0. /\ slots' = slots /\ next_id' = next_id /\ snapshot' = snapshot /\ active' = active
        /\ slot_closed' = slot_closed /\ revision' = revision /\ handles' = handles
        /\ recorded' = recorded
        /\ owner' = owner /\ todo' = todo /\ request' = request /\ own' = own
    BY Zenon DEF slot, standing
  <1>1. Sorts' BY <1>0, Zenon DEF IInv, Sorts
  <1>2. ASSUME NEW u \in Threads PROVE CallOK(u)'
    <2>1. CASE u = t BY <2>1, Zenon
    <2>2. CASE u # t
      <3>1. CallOK(u) BY Zenon DEF IInv
      <3> QED BY <1>0, <2>2, <3>1, Zenon DEF CallOK
    <2> QED BY <2>1, <2>2, Zenon
  <1>3. Reservations' BY <1>0 DEF IInv, Reservations
  <1>4. Generation'
    <2>1. \A u \in Threads \ {t} :
             (Admitted(u)' <=> Admitted(u)) /\ (InGeneration(u)' <=> InGeneration(u))
      BY Zenon DEF Admitted, InGeneration
    <2> QED BY <1>0, <2>1, Zenon DEF IInv, Generation
  <1>5. Snapshots'
    <2>1. \A u \in Threads \ {t} : Target(u)' = Target(u) BY <1>0, Zenon DEF Target
    <2> QED BY <1>0, <2>1 DEF IInv, Snapshots
  <1>6. Counted' /\ Bounded' BY <1>0, Zenon DEF IInv, Counted, Bounded, Requests
  <1>7. closed' \in BOOLEAN BY Zenon DEF IInv
  <1> QED BY <1>1, <1>2, <1>3, <1>4, <1>5, <1>6, <1>7, Zenon DEF IInv

\* A call begins.
LEMMA EnterIInv ==
    ASSUME IInv, NEW t \in Threads,
           Capture(t) \/ Retain(t) \/ ReadFrozen(t) \/ ReleaseRead(t)
    PROVE  IInv'
  <1>1. PICK o \in {"capture", "retain", "read", "release"}, id \in {None} \cup handles,
             step \in {"reserve", "lookup", "get"} :
           /\ Enter(t, o, id, step)
           /\ owner = "open" \/ (owner = "drain" /\ o = "release")
           /\ o = "capture" => id = None /\ step = "reserve"
           /\ o \in {"retain", "read"} => id \in handles /\ step = "lookup"
           /\ o = "release" => id \in handles /\ step = "get"
    BY Zenon DEF Capture, Retain, ReadFrozen, ReleaseRead
  <1>2. /\ pc[t] = "idle" /\ UNCHANGED standing
        /\ arc' = arc /\ closed' = closed
        /\ pc' = [pc EXCEPT ![t] = step] /\ op' = [op EXCEPT ![t] = o]
        /\ cur' = [cur EXCEPT ![t] = id]
    BY <1>1, Zenon DEF Enter, registry, standing
  <1>3. /\ pc' \in [Threads -> Steps] /\ arc' \in [Threads -> {None} \cup Revisions]
        /\ op' \in [Threads -> {"none", "capture", "retain", "read", "release"}]
        /\ cur' \in [Threads -> {None} \cup Ids]
        /\ \A u \in Threads \ {t} :
               pc'[u] = pc[u] /\ op'[u] = op[u] /\ cur'[u] = cur[u] /\ arc'[u] = arc[u]
        /\ pc'[t] = step /\ op'[t] = o /\ cur'[t] = id
    BY <1>2, Zenon DEF IInv, Sorts, Steps
  <1>4. CallOK(t) /\ own[t] = None /\ request[t] = None /\ arc[t] = None
    BY <1>2, Zenon DEF IInv, CallOK
  <1>5. CallOK(t)' BY <1>1, <1>2, <1>3, <1>4, Zenon DEF CallOK, Closing, standing
  <1>6. owner = "drain" => ~Admitted(t)' BY <1>1, <1>3, Zenon DEF Admitted
  <1> QED BY <1>1, <1>2, <1>3, <1>4, <1>5, <1>6, CallMoves, Zenon

\* The steps that change nothing but where the call is, or its snapshot.
LEMMA LookupIInv == ASSUME IInv, NEW t \in Threads, Lookup(t) PROVE IInv'
  <1>1. PICK step \in {"request", "idle"} : GoTo(t, step)
    BY Zenon DEF Lookup, AfterError, IInv, CallOK
  <1>2. UNCHANGED standing /\ arc' = arc /\ closed' = closed
        /\ pc[t] = "lookup"
    BY Zenon DEF Lookup, registry, standing
  <1>3. Sorts /\ CallOK(t) BY Zenon DEF IInv
  <1>4. step \in Steps BY <1>1, Zenon DEF Steps
  <1>5. CallOK(t)' BY <1>1, <1>2, <1>3, <1>4, Moves, Zenon DEF CallOK, Closing, standing
  <1>6. arc' \in [Threads -> {None} \cup Revisions] BY <1>2, <1>3, Zenon DEF Sorts
  <1>7. InGeneration(t) /\ Admitted(t) BY <1>2, <1>3, Zenon DEF InGeneration, Admitted, CallOK
  <1> QED BY <1>1, <1>2, <1>3, <1>4, <1>5, <1>6, <1>7, Moves, CallMoves, Zenon

\* The read itself, done or failed, leaves its request to be dropped.
LEMMA OperateIInv == ASSUME IInv, NEW t \in Threads, Operate(t) PROVE IInv'
  <1>1. PICK step \in {"confirm", "drop_snapshot"} : GoTo(t, step)
    BY Zenon DEF Operate, AfterError, IInv, CallOK
  <1>2. UNCHANGED standing /\ arc' = arc /\ closed' = closed
        /\ pc[t] = "read"
    BY Zenon DEF Operate, registry, standing
  <1>3. Sorts /\ CallOK(t) BY Zenon DEF IInv
  <1>4. step \in Steps BY <1>1, Zenon DEF Steps
  <1>5. CallOK(t)' BY <1>1, <1>2, <1>3, <1>4, Moves, Zenon DEF CallOK, Closing, standing
  <1>6. arc' \in [Threads -> {None} \cup Revisions] BY <1>2, <1>3, Zenon DEF Sorts
  <1>7. InGeneration(t) /\ Admitted(t) BY <1>2, <1>3, Zenon DEF InGeneration, Admitted, CallOK
  <1> QED BY <1>1, <1>2, <1>3, <1>4, <1>5, <1>6, <1>7, Moves, CallMoves, Zenon

\* The check against a failure of the home decides how the call goes on.
LEMMA ConfirmIInv == ASSUME IInv, NEW t \in Threads, Confirm(t) PROVE IInv'
  <1>1. PICK step \in {"drop_snapshot", "commit", "get"} :
          /\ GoTo(t, step)
          /\ step = "drop_snapshot" => request[t] # None
          /\ step = "commit" => request[t] = None
          /\ step = "get" => own[t] # None
    BY Zenon DEF Confirm, AfterOk, AfterError, IInv, CallOK
  <1>2. UNCHANGED standing /\ arc' = arc /\ closed' = closed
        /\ pc[t] = "confirm"
    BY Zenon DEF Confirm, registry, standing
  <1>3. Sorts /\ CallOK(t) BY Zenon DEF IInv
  <1>4. step \in Steps BY <1>1, Zenon DEF Steps
  <1>5. CallOK(t)' BY <1>1, <1>2, <1>3, <1>4, Moves, Zenon DEF CallOK, Closing, standing
  <1>6. arc' \in [Threads -> {None} \cup Revisions] BY <1>2, <1>3, Zenon DEF Sorts
  <1>7. InGeneration(t) /\ Admitted(t)
    BY <1>2, <1>3, Zenon DEF InGeneration, Admitted, CallOK, Closing
  <1> QED BY <1>1, <1>2, <1>3, <1>4, <1>5, <1>6, <1>7, Moves, CallMoves, Zenon

\* A capture takes the latest revision, which no request of its own protects.
LEMMA TakeSnapshotIInv == ASSUME IInv, NEW t \in Threads, TakeSnapshot(t) PROVE IInv'
  <1>1. PICK step \in {"get", "install"} :
          /\ GoTo(t, step)
          /\ step = "get" => arc' = arc
          /\ step = "install" => arc' = [arc EXCEPT ![t] = revision]
    BY Zenon DEF TakeSnapshot, AfterError, IInv, CallOK
  <1>2. UNCHANGED standing /\ closed' = closed
        /\ pc[t] = "snapshot"
    BY Zenon DEF TakeSnapshot, registry, standing
  <1>3. Sorts /\ CallOK(t) BY Zenon DEF IInv
  <1>4. step \in Steps BY <1>1, Zenon DEF Steps
  <1>6. /\ arc' \in [Threads -> {None} \cup Revisions]
        /\ \A u \in Threads \ {t} : arc'[u] = arc[u]
        /\ step = "install" => arc'[t] # None
        /\ step = "get" => arc'[t] = arc[t]
    BY <1>1, <1>2, <1>3, Numbers DEF Sorts
  <1>5. CallOK(t)' BY <1>1, <1>2, <1>3, <1>4, <1>6, Moves, Zenon DEF CallOK, Closing, standing
  <1>7. InGeneration(t) /\ Admitted(t) /\ request[t] = None
    BY <1>2, <1>3, Zenon DEF InGeneration, Admitted, CallOK
  <1> QED BY <1>1, <1>2, <1>3, <1>4, <1>5, <1>6, <1>7, Moves, CallMoves, Zenon

\* The reader lets go of its snapshot before it is counted down.
LEMMA DropSnapshotIInv == ASSUME IInv, NEW t \in Threads, DropSnapshot(t) PROVE IInv'
  <1>2. UNCHANGED standing /\ closed' = closed
        /\ pc[t] = "drop_snapshot" /\ op' = op /\ cur' = cur
        /\ pc' = [pc EXCEPT ![t] = "drop_count"] /\ arc' = [arc EXCEPT ![t] = None]
    BY Zenon DEF DropSnapshot, registry, standing
  <1>3. Sorts /\ CallOK(t) BY Zenon DEF IInv
  <1>4. /\ pc' \in [Threads -> Steps] /\ arc' \in [Threads -> {None} \cup Revisions]
        /\ op' \in [Threads -> {"none", "capture", "retain", "read", "release"}]
        /\ cur' \in [Threads -> {None} \cup Ids]
        /\ \A u \in Threads \ {t} :
               pc'[u] = pc[u] /\ op'[u] = op[u] /\ cur'[u] = cur[u] /\ arc'[u] = arc[u]
        /\ pc'[t] = "drop_count" /\ arc'[t] = None
    BY <1>2, <1>3, Zenon DEF Sorts, Steps
  <1>5. CallOK(t)' BY <1>2, <1>3, <1>4, Zenon DEF CallOK, Closing, standing
  <1>6. ~InGeneration(t)' /\ ~Admitted(t)' BY <1>4, Zenon DEF InGeneration, Admitted
  <1> QED BY <1>2, <1>4, <1>5, <1>6, CallMoves, Zenon

\* A waiter whose slot has drained goes on to remove it.
LEMMA WakeIInv == ASSUME IInv, NEW t \in Threads, Wake(t) PROVE IInv'
  <1>2. UNCHANGED standing /\ closed' = closed
        /\ pc[t] = "wait" /\ op' = op /\ cur' = cur
        /\ pc' = [pc EXCEPT ![t] = "drained"] /\ arc' = arc
    BY Zenon DEF Wake, registry, standing
  <1>3. Sorts /\ CallOK(t) BY Zenon DEF IInv
  <1>4. /\ pc' \in [Threads -> Steps] /\ arc' \in [Threads -> {None} \cup Revisions]
        /\ op' \in [Threads -> {"none", "capture", "retain", "read", "release"}]
        /\ cur' \in [Threads -> {None} \cup Ids]
        /\ \A u \in Threads \ {t} :
               pc'[u] = pc[u] /\ op'[u] = op[u] /\ cur'[u] = cur[u] /\ arc'[u] = arc[u]
        /\ pc'[t] = "drained"
    BY <1>2, <1>3, Zenon DEF Sorts, Steps
  <1>5. CallOK(t)' BY <1>2, <1>3, <1>4, Zenon DEF CallOK, Closing, standing
  <1>6. InGeneration(t) /\ (Admitted(t)' => Admitted(t))
    BY <1>2, <1>4, Zenon DEF InGeneration, Admitted
  <1> QED BY <1>2, <1>4, <1>5, <1>6, CallMoves, Zenon

\* The call of a thread that takes no part in a step.
LEMMA OtherCall ==
    ASSUME NEW u \in Threads, CallOK(u), pc'[u] = pc[u], op'[u] = op[u], cur'[u] = cur[u],
           request'[u] = request[u], own'[u] = own[u], arc'[u] = arc[u],
           handles \subseteq handles'
    PROVE  CallOK(u)'
  BY Zenon DEF CallOK

\* A request is counted, or refused.
LEMMA AdmitRequestIInv ==
    ASSUME Countable(Threads), IInv, NEW t \in Threads, AdmitRequest(t)
    PROVE  IInv'
  <1>0. PICK c : c = cur[t] BY Zenon
  <1>1. /\ Sorts /\ CallOK(t) /\ pc[t] = "request"
        /\ registry' = registry /\ snapshot' = snapshot /\ slot_closed' = slot_closed
        /\ revision' = revision /\ handles' = handles /\ recorded' = recorded
        /\ owner' = owner /\ todo' = todo /\ own' = own
    BY Zenon DEF AdmitRequest, IInv
  <1>2. /\ op[t] \in {"retain", "read"} /\ request[t] = None /\ own[t] = None
        /\ c \in handles /\ c \in Ids /\ c # None
        /\ InGeneration(t) /\ Admitted(t)
    BY <1>0, <1>1, Numbers, Zenon DEF CallOK, Sorts, InGeneration, Admitted
  <1>3. CASE ~Admissible(c)
    <2>1. GoTo(t, "idle") /\ active' = active /\ request' = request /\ arc' = arc
      BY <1>0, <1>2, <1>3, Zenon DEF AdmitRequest, AfterError
    <2>2. "idle" \in Steps BY Zenon DEF Steps
    <2>3. CallOK(t)' BY <1>1, <1>2, <2>1, <2>2, Moves, Zenon DEF CallOK, Closing
    <2>4. arc' \in [Threads -> {None} \cup Revisions] BY <1>1, <2>1, Zenon DEF Sorts
    <2> QED BY <1>1, <1>2, <2>1, <2>2, <2>3, <2>4, Moves, CallMoves, Zenon
      DEF registry, slot, standing
  <1>4. CASE Admissible(c)
    <2>1. PICK step \in {"reserve", "read"} :
             GoTo(t, step) /\ (step = "reserve" <=> op[t] = "retain")
      BY <1>0, <1>4, Zenon DEF AdmitRequest
    <2>2. step \in Steps BY Zenon DEF Steps
    <2>3. /\ active' = [active EXCEPT ![c] = @ + 1] /\ request' = [request EXCEPT ![t] = c]
          /\ arc' = [arc EXCEPT ![t] = snapshot[c]]
          /\ snapshot[c] # None /\ active[c] < MaxRequests
      BY <1>0, <1>4, Zenon DEF AdmitRequest, Admissible
    <2>4. /\ request' \in [Threads -> {None} \cup Ids] /\ request'[t] = c
          /\ arc' \in [Threads -> {None} \cup Revisions] /\ arc'[t] = snapshot[c]
          /\ \A u \in Threads \ {t} : request'[u] = request[u] /\ arc'[u] = arc[u]
      BY <1>1, <1>2, <2>3, Zenon DEF Sorts
    <2>5. active' \in [Ids -> 0..MaxRequests] BY <1>1, <1>2, <2>3, Numbers DEF Sorts
    <2>6. Sorts' BY <1>1, <2>1, <2>2, <2>4, <2>5, Moves, Zenon DEF Sorts, registry
    <2>7. CallOK(t)' BY <1>0, <1>1, <1>2, <2>1, <2>2, <2>3, <2>4, Moves DEF CallOK, Closing
    <2>8. ASSUME NEW u \in Threads PROVE CallOK(u)'
      <3>1. CASE u = t BY <2>7, <3>1, Zenon
      <3>2. CASE u # t BY <1>1, <2>1, <2>2, <2>4, <3>2, Moves, OtherCall, Zenon DEF IInv
      <3> QED BY <3>1, <3>2, Zenon
    <2>9. Reservations' BY <1>1, Zenon DEF IInv, Reservations, registry
    <2>10. Generation'
      <3>1. \A u \in Threads :
               (Admitted(u)' <=> Admitted(u)) /\ (InGeneration(u)' <=> InGeneration(u))
        BY <1>1, <1>2, <2>1, <2>2, Moves DEF Admitted, InGeneration
      <3> QED BY <1>1, <3>1, Zenon DEF IInv, Generation, registry
    <2>11. Snapshots'
      <3>1. \A u \in Threads \ {t} : Target(u)' = Target(u) /\ pc'[u] = pc[u]
        BY <1>1, <2>1, <2>2, Moves, Zenon DEF Target
      <3>2. pc'[t] # "remove" /\ snapshot[c] = recorded[c]
        BY <1>1, <1>2, <2>1, <2>2, <2>3, Moves, Zenon DEF IInv, Snapshots
      <3> QED BY <1>1, <2>3, <2>4, <3>1, <3>2 DEF IInv, Snapshots, registry
    <2>12. Counted'
      <3> SUFFICES ASSUME NEW i \in Ids PROVE active'[i] = Cardinality(Requests(i)')
        BY Zenon DEF Counted
      <3>1. CASE i # c
        <4>1. Requests(i)' = Requests(i) BY <1>1, <1>2, <2>4, <3>1, Numbers, Zenon DEF Requests
        <4> QED BY <1>1, <2>3, <3>1, <4>1, Zenon DEF IInv, Counted, Sorts
      <3>2. CASE i = c
        <4>1. /\ Requests(c)' = Requests(c) \cup {t} /\ t \notin Requests(c)
              /\ Requests(c) \in SUBSET Threads
          BY <1>1, <1>2, <2>4, Zenon DEF Requests
        <4>2. Cardinality(Requests(c) \cup {t}) = Cardinality(Requests(c)) + 1
          BY <4>1, Zenon DEF Countable
        <4>3. active[c] = Cardinality(Requests(c)) BY <1>2, Zenon DEF IInv, Counted
        <4> QED BY <1>1, <1>2, <2>3, <3>2, <4>1, <4>2, <4>3, Zenon DEF Sorts
      <3> QED BY <3>1, <3>2, Zenon
    <2>13. Bounded' /\ closed' \in BOOLEAN BY <1>1, Zenon DEF IInv, Bounded, registry
    <2> QED BY <2>6, <2>8, <2>9, <2>10, <2>11, <2>12, <2>13, Zenon DEF IInv
  <1> QED BY <1>3, <1>4, Zenon

\* A request is counted down; who waited for it goes on.
LEMMA DropCountIInv ==
    ASSUME Countable(Threads), IInv, NEW t \in Threads, DropCount(t)
    PROVE  IInv'
  <1> DEFINE next == IF own[t] # None THEN "commit" ELSE "idle"
  <1>0. PICK r : r = request[t] BY Zenon
  <1>1. /\ Sorts /\ CallOK(t) /\ pc[t] = "drop_count"
        /\ registry' = registry /\ snapshot' = snapshot /\ slot_closed' = slot_closed
        /\ revision' = revision /\ handles' = handles /\ recorded' = recorded
        /\ todo' = todo /\ own' = own /\ arc' = arc
        /\ active' = [active EXCEPT ![r] = @ - 1] /\ request' = [request EXCEPT ![t] = None]
    BY <1>0, Zenon DEF DropCount, AfterDrop, IInv
  <1>2. r \in Ids /\ r # None /\ arc[t] = None /\ op[t] \in {"retain", "read"}
    BY <1>0, <1>1, Zenon DEF CallOK, Sorts
  <1>3. /\ pc' \in [Threads -> Steps] /\ pc'[t] = next
        /\ \A u \in Threads \ {t} : pc'[u] = pc[u] \/ (pc[u] = "wait" /\ pc'[u] = "drained")
    BY <1>1, Zenon DEF DropCount, AfterDrop, Notified, Sorts, Steps
  <1>4. /\ op' \in [Threads -> {"none", "capture", "retain", "read", "release"}]
        /\ cur' \in [Threads -> {None} \cup Ids]
        /\ next = "idle" => op'[t] = "none" /\ cur'[t] = None
        /\ next = "commit" => op'[t] = op[t] /\ cur'[t] = cur[t]
        /\ \A u \in Threads \ {t} : op'[u] = op[u] /\ cur'[u] = cur[u]
    BY <1>1 DEF DropCount, AfterDrop, Sorts
  <1>5. owner' = owner \/ (owner = "wait" /\ owner' = "drained") BY Zenon DEF DropCount, AfterDrop
  <1>6. /\ request' \in [Threads -> {None} \cup Ids] /\ request'[t] = None
        /\ \A u \in Threads \ {t} : request'[u] = request[u]
    BY <1>1, Zenon DEF Sorts
  <1>7. t \in Requests(r) /\ Requests(r)' = Requests(r) \ {t} /\ Requests(r) \in SUBSET Threads
    BY <1>0, <1>2, <1>6, Zenon DEF Requests
  <1>8. active[r] = Cardinality(Requests(r)) BY <1>2, Zenon DEF IInv, Counted
  <1>9. active[r] # 0 BY <1>7, <1>8, Zenon DEF Countable
  <1>10. Sorts'
    <2>1. active' \in [Ids -> 0..MaxRequests] BY <1>1, <1>2, <1>9, Numbers DEF Sorts
    <2> QED BY <1>1, <1>3, <1>4, <1>5, <1>6, <2>1, Zenon DEF Sorts, registry
  <1>11. ASSUME NEW u \in Threads PROVE CallOK(u)'
    <2>1. CASE u = t BY <1>1, <1>2, <1>3, <1>4, <1>6, <2>1, Zenon DEF CallOK, Closing
    <2>2. CASE u # t
      <3>1. CallOK(u) BY Zenon DEF IInv
      <3> QED BY <1>1, <1>3, <1>4, <1>6, <2>2, <3>1 DEF CallOK, Closing
    <2> QED BY <2>1, <2>2, Zenon
  <1>12. Reservations' BY <1>1, Zenon DEF IInv, Reservations, registry
  <1>13. Generation'
    <2>1. \A u \in Threads : (Admitted(u)' => Admitted(u)) /\ (InGeneration(u)' => InGeneration(u))
      BY <1>3, <1>4, Zenon DEF Admitted, InGeneration
    <2> QED BY <1>1, <1>5, <2>1, Zenon DEF IInv, Generation, registry
  <1>14. Snapshots'
    <2>1. \A u \in Threads \ {t} : Target(u)' = Target(u) /\ (pc'[u] = "remove" => pc[u] = "remove")
      BY <1>1, <1>3, <1>4, Zenon DEF Target
    <2>2. pc'[t] # "remove" BY <1>3, Zenon
    <2> QED BY <1>1, <1>6, <2>1, <2>2 DEF IInv, Snapshots, registry
  <1>15. Counted'
    <2> SUFFICES ASSUME NEW i \in Ids PROVE active'[i] = Cardinality(Requests(i)')
      BY Zenon DEF Counted
    <2>1. CASE i # r
      <3>1. Requests(i)' = Requests(i) BY <1>0, <1>2, <1>6, <2>1, Numbers, Zenon DEF Requests
      <3> QED BY <1>1, <2>1, <3>1, Zenon DEF IInv, Counted, Sorts
    <2>2. CASE i = r
      <3>1. Cardinality(Requests(r) \ {t}) = Cardinality(Requests(r)) - 1
        BY <1>7, Zenon DEF Countable
      <3>2. active'[r] = active[r] - 1 BY <1>1, <1>2, Zenon DEF Sorts
      <3> QED BY <1>7, <1>8, <2>2, <3>1, <3>2, Zenon
    <2> QED BY <2>1, <2>2, Zenon
  <1>16. Bounded' /\ closed' \in BOOLEAN BY <1>1, Zenon DEF IInv, Bounded, registry
  <1> QED BY <1>10, <1>11, <1>12, <1>13, <1>14, <1>15, <1>16, Zenon DEF IInv

\* A slot is reserved under the next id, or refused.
LEMMA ReserveIInv ==
    ASSUME Countable(Ids), IInv, NEW t \in Threads, Reserve(t)
    PROVE  IInv'
  <1>1. /\ Sorts /\ CallOK(t) /\ pc[t] = "reserve"
        /\ closed' = closed /\ slot' = slot /\ revision' = revision /\ handles' = handles
        /\ recorded' = recorded /\ owner' = owner /\ todo' = todo /\ request' = request
        /\ arc' = arc
    BY Zenon DEF Reserve, IInv
  <1>2. /\ op[t] \in {"capture", "retain"} /\ own[t] = None /\ InGeneration(t) /\ Admitted(t)
        /\ arc' \in [Threads -> {None} \cup Revisions]
    BY <1>1, Zenon DEF CallOK, Sorts, InGeneration, Admitted
  <1>3. CASE GoTo(t, AfterError(t)) /\ UNCHANGED <<slots, next_id, own>>
    <2>1. PICK step \in {"drop_snapshot", "idle"} :
             GoTo(t, step) /\ (step = "idle" <=> request[t] = None)
      BY <1>2, <1>3, Zenon DEF AfterError
    <2>2. step \in Steps BY Zenon DEF Steps
    <2>3. CallOK(t)' BY <1>1, <1>2, <1>3, <2>1, <2>2, Moves, Zenon DEF CallOK, Closing
    <2> QED BY <1>1, <1>2, <1>3, <2>1, <2>2, <2>3, Moves, CallMoves, Zenon DEF standing
  <1>4. CASE /\ HasRoom /\ next_id <= MaxId /\ slots' = slots \cup {next_id}
             /\ own' = [own EXCEPT ![t] = next_id] /\ next_id' = next_id + 1
             /\ GoTo(t, IF op[t] = "retain" THEN "install" ELSE "snapshot")
    <2>1. PICK step \in {"install", "snapshot"} :
             GoTo(t, step) /\ (step = "install" <=> op[t] = "retain")
      BY <1>4, Zenon
    <2>2. step \in Steps BY Zenon DEF Steps
    <2>3. next_id \in Ids /\ next_id # None /\ next_id' \in 1..MaxId + 1 /\ next_id' = next_id + 1
      BY <1>1, <1>4, Numbers DEF Sorts, Ids, None
    <2>4. /\ own' \in [Threads -> {None} \cup Ids] /\ own'[t] = next_id
          /\ \A u \in Threads \ {t} : own'[u] = own[u]
      BY <1>1, <1>4, <2>3, Zenon DEF Sorts
    <2>5. next_id \notin slots /\ next_id \notin handles /\ \A u \in Threads : own[u] # next_id
      BY <1>1, <2>3 DEF IInv, Reservations, Sorts, Ids
    <2>6. Sorts' BY <1>1, <1>4, <2>1, <2>2, <2>3, <2>4, Moves, Zenon DEF Sorts, slot
    <2>7. ASSUME NEW u \in Threads PROVE CallOK(u)'
      <3>1. CASE u = t BY <1>1, <1>2, <2>1, <2>2, <2>3, <2>4, <3>1, Moves, Zenon DEF CallOK, Closing
      <3>2. CASE u # t BY <1>1, <2>1, <2>2, <2>4, <3>2, Moves, OtherCall, Zenon DEF IInv
      <3> QED BY <3>1, <3>2, Zenon
    <2>8. Reservations'
      <3>1. \A i \in slots \cup handles : i \in Ids /\ i < next_id
        BY <1>1, Zenon DEF IInv, Reservations, Sorts
      <3>2. \A u \in Threads : own[u] # None => own[u] \in Ids /\ own[u] < next_id
        BY <1>1, Zenon DEF IInv, Reservations, Sorts
      <3>3. /\ \A u \in Threads : own'[u] # None => own'[u] < next_id' /\ own'[u] \notin handles
            /\ \A i \in slots' \cup handles : i < next_id'
        BY <1>4, <2>3, <2>4, <2>5, <3>1, <3>2 DEF IInv, Reservations, Ids
      <3>4. \A u, v \in Threads : own'[u] = own'[v] /\ own'[u] # None => u = v
        BY <2>4, <2>5, Zenon DEF IInv, Reservations
      <3>5. \A i \in slots' : i \in handles \/ \E u \in Threads : own'[u] = i
        <4> SUFFICES ASSUME NEW i \in slots, i \notin handles PROVE \E u \in Threads : own'[u] = i
          BY <1>4, <2>4, Zenon
        <4>1. PICK u \in Threads : own[u] = i BY Zenon DEF IInv, Reservations
        <4>2. u # t BY <1>2, <3>1, <4>1, Numbers, Zenon
        <4> QED BY <2>4, <4>1, <4>2, Zenon
      <3> QED BY <1>1, <3>3, <3>4, <3>5, Zenon DEF Reservations
    <2>9. Generation'
      <3>1. \A u \in Threads :
               (Admitted(u)' <=> Admitted(u)) /\ (InGeneration(u)' <=> InGeneration(u))
        BY <1>1, <1>2, <2>1, <2>2, Moves DEF Admitted, InGeneration
      <3>2. owner \in {"open", "drain"} BY <1>1, <1>2, Zenon DEF IInv, Generation
      <3> QED BY <1>1, <1>4, <2>4, <3>1, <3>2, Zenon DEF IInv, Generation
    <2>10. Snapshots'
      <3>1. \A u \in Threads \ {t} : Target(u)' = Target(u) /\ pc'[u] = pc[u]
        BY <1>1, <2>1, <2>2, <2>4, Moves, Zenon DEF Target
      <3>2. pc'[t] # "remove" BY <1>1, <2>1, <2>2, Moves, Zenon
      <3> QED BY <1>1, <1>4, <3>1, <3>2 DEF IInv, Snapshots, slot
    <2>11. Counted' BY <1>1, Zenon DEF IInv, Counted, Requests, slot
    <2>12. Bounded'
      <3>1. Cardinality(slots \cup {next_id}) = Cardinality(slots) + 1 /\ Cardinality(slots) \in Nat
        BY <1>1, <2>3, <2>5, Zenon DEF Countable, Sorts
      <3> QED BY <1>4, <3>1, Numbers DEF Bounded, HasRoom
    <2>13. closed' \in BOOLEAN BY <1>1, Zenon DEF IInv
    <2> QED BY <2>6, <2>7, <2>8, <2>9, <2>10, <2>11, <2>12, <2>13, Zenon DEF IInv
  <1> QED BY <1>3, <1>4, Zenon DEF Reserve

\* A snapshot goes into the slot of its reservation.
LEMMA InstallIInv == ASSUME IInv, NEW t \in Threads, Install(t) PROVE IInv'
  <1>1. /\ Sorts /\ CallOK(t) /\ pc[t] = "install"
        /\ registry' = registry /\ active' = active /\ slot_closed' = slot_closed
        /\ revision' = revision /\ handles' = handles /\ owner' = owner /\ todo' = todo
        /\ request' = request /\ own' = own
        /\ arc' = IF op[t] = "retain" THEN arc ELSE [arc EXCEPT ![t] = None]
    BY Zenon DEF Install, IInv
  <1>2. /\ own[t] # None /\ own[t] \in Ids /\ arc[t] # None /\ op[t] \in {"capture", "retain"}
        /\ op[t] = "retain" => request[t] # None /\ request[t] = cur[t]
        /\ op[t] = "capture" => request[t] = None
        /\ InGeneration(t) /\ Admitted(t)
    BY <1>1, Zenon DEF CallOK, Sorts, InGeneration, Admitted
  <1>3. /\ arc' \in [Threads -> {None} \cup Revisions]
        /\ \A u \in Threads \ {t} : arc'[u] = arc[u]
        /\ op[t] = "retain" => arc'[t] = arc[t]
        /\ op[t] = "capture" => arc'[t] = None
    BY <1>1, <1>2, Zenon DEF Sorts
  <1>4. CASE slot_closed[own[t]]
    <2>1. GoTo(t, "get") /\ snapshot' = snapshot /\ recorded' = recorded
      BY <1>2, <1>4, Zenon DEF Install, AfterError
    <2>2. "get" \in Steps BY Zenon DEF Steps
    <2>3. CallOK(t)' BY <1>1, <1>2, <1>3, <2>1, <2>2, Moves DEF CallOK, Closing
    <2> QED BY <1>1, <1>2, <1>3, <2>1, <2>2, <2>3, Moves, CallMoves, Zenon
      DEF registry, slot, standing
  <1>5. CASE ~slot_closed[own[t]]
    <2>1. /\ GoTo(t, "confirm") /\ snapshot' = [snapshot EXCEPT ![own[t]] = arc[t]]
          /\ recorded' = [recorded EXCEPT ![own[t]] =
                             IF op[t] = "retain" THEN recorded[cur[t]] ELSE arc[t]]
      BY <1>5, Zenon DEF Install
    <2>2. "confirm" \in Steps BY Zenon DEF Steps
    <2>3. op[t] = "retain" => recorded[cur[t]] = arc[t]
      BY <1>2, Zenon DEF IInv, Snapshots
    <2>4. recorded' = [recorded EXCEPT ![own[t]] = arc[t]] BY <1>2, <2>1, <2>3, Zenon
    <2>5. /\ snapshot' \in [Ids -> {None} \cup Revisions] /\ snapshot'[own[t]] = arc[t]
          /\ recorded' \in [Ids -> {None} \cup Revisions] /\ recorded'[own[t]] = arc[t]
          /\ \A i \in Ids \ {own[t]} : snapshot'[i] = snapshot[i] /\ recorded'[i] = recorded[i]
      BY <1>1, <1>2, <2>1, <2>4 DEF Sorts
    <2>6. Sorts' BY <1>1, <1>3, <2>1, <2>2, <2>5, Moves DEF Sorts, registry
    <2>7. ASSUME NEW u \in Threads PROVE CallOK(u)'
      <3>1. CASE u = t BY <1>1, <1>2, <1>3, <2>1, <2>2, <3>1, Moves DEF CallOK, Closing
      <3>2. CASE u # t BY <1>1, <1>3, <2>1, <2>2, <3>2, Moves, OtherCall, Zenon DEF IInv
      <3> QED BY <3>1, <3>2, Zenon
    <2>8. Reservations' BY <1>1, Zenon DEF IInv, Reservations, registry
    <2>9. Generation'
      <3>1. \A u \in Threads :
               (Admitted(u)' <=> Admitted(u)) /\ (InGeneration(u)' <=> InGeneration(u))
        BY <1>1, <1>2, <2>1, <2>2, Moves DEF Admitted, InGeneration
      <3> QED BY <1>1, <3>1, Zenon DEF IInv, Generation, registry
    <2>10. Snapshots'
      <3>1. \A u \in Threads \ {t} : Target(u)' = Target(u) /\ pc'[u] = pc[u]
        BY <1>1, <2>1, <2>2, Moves, Zenon DEF Target
      <3>2. pc'[t] # "remove" BY <1>1, <2>1, <2>2, Moves, Zenon
      <3>3. \A u \in Threads : request[u] # None => request[u] \in Ids /\ request[u] # own[t]
        BY <1>1, <1>2 DEF IInv, CallOK, Reservations, Sorts
      <3>4. \A u \in Threads : pc[u] = "remove" => Target(u) \in Ids /\ Target(u) # own[t]
        BY <1>1, <1>2, <1>5, Zenon DEF IInv, Snapshots, Target, CallOK, Closing, Sorts, Reservations
      <3>5. own[t] \in slots BY <1>2, Zenon DEF IInv, Generation
      <3>6. \A i \in Ids :
               snapshot'[i] # None => i \in slots' \cup todo' /\ snapshot'[i] = recorded'[i]
        BY <1>1, <2>5, <3>5, Zenon DEF IInv, Snapshots, registry
      <3>7. ASSUME NEW u \in Threads, pc'[u] = "remove"
            PROVE  snapshot'[Target(u)'] = None /\ slot_closed'[Target(u)']
        <4>1. u \in Threads \ {t} BY <3>2, <3>7, Zenon
        <4>2. /\ pc[u] = "remove" /\ Target(u)' = Target(u)
              /\ Target(u) \in Ids /\ Target(u) # own[t]
          BY <3>1, <3>4, <3>7, <4>1, Zenon
        <4>3. snapshot[Target(u)] = None /\ slot_closed[Target(u)]
          BY <4>2, Zenon DEF IInv, Snapshots
        <4> QED BY <1>1, <2>5, <4>2, <4>3, Zenon
      <3>8. \A u \in Threads : request[u] # None =>
               /\ snapshot'[request[u]] # None
               /\ arc'[u] # None => arc'[u] = recorded'[request[u]]
        BY <1>2, <1>3, <2>5, <3>3 DEF IInv, Snapshots
      <3> QED BY <1>1, <3>6, <3>7, <3>8, Zenon DEF Snapshots
    <2>11. Counted' /\ Bounded' BY <1>1, Zenon DEF IInv, Counted, Requests, Bounded, registry
    <2>12. closed' \in BOOLEAN BY <1>1, Zenon DEF IInv, registry
    <2> QED BY <2>6, <2>7, <2>8, <2>9, <2>10, <2>11, <2>12, Zenon DEF IInv
  <1> QED BY <1>4, <1>5, Zenon

\* A reservation becomes a handle.
LEMMA CommitIInv == ASSUME IInv, NEW t \in Threads, Commit(t) PROVE IInv'
  <1>1. /\ Sorts /\ CallOK(t) /\ pc[t] = "commit" /\ GoTo(t, "idle") /\ "idle" \in Steps
        /\ registry' = registry /\ slot' = slot /\ revision' = revision /\ recorded' = recorded
        /\ owner' = owner /\ todo' = todo /\ request' = request /\ arc' = arc
        /\ handles' = handles \cup {own[t]} /\ own' = [own EXCEPT ![t] = None]
    BY Zenon DEF Commit, IInv, Steps
  <1>2. own[t] # None /\ own[t] \in Ids /\ request[t] = None /\ arc[t] = None
    BY <1>1, Zenon DEF CallOK, Sorts
  <1>3. /\ own' \in [Threads -> {None} \cup Ids] /\ own'[t] = None
        /\ \A u \in Threads \ {t} : own'[u] = own[u]
    BY <1>1, Zenon DEF Sorts
  <1>4. Sorts' BY <1>1, <1>2, <1>3, Moves, Zenon DEF Sorts, registry, slot
  <1>5. ASSUME NEW u \in Threads PROVE CallOK(u)'
    <2>1. CASE u = t BY <1>1, <1>2, <1>3, <2>1, Moves, Zenon DEF CallOK, Closing
    <2>2. CASE u # t BY <1>1, <1>3, <2>2, Moves, OtherCall, Zenon DEF IInv
    <2> QED BY <2>1, <2>2, Zenon
  <1>6. Reservations'
    <2>1. \A u \in Threads \ {t} : own[u] # own[t] BY <1>2, Zenon DEF IInv, Reservations
    <2>2. slots' = slots /\ next_id' = next_id BY <1>1, Zenon DEF registry
    <2>3. \A u \in Threads : own'[u] # None => own'[u] < next_id /\ own'[u] \notin handles'
      BY <1>1, <1>3, <2>1, Zenon DEF IInv, Reservations
    <2>4. \A u, v \in Threads : own'[u] = own'[v] /\ own'[u] # None => u = v
      BY <1>3, Zenon DEF IInv, Reservations
    <2>5. \A i \in slots \cup handles' : i < next_id BY <1>1, <1>2, Zenon DEF IInv, Reservations
    <2>6. \A i \in slots : i \in handles' \/ \E u \in Threads : own'[u] = i
      <3> SUFFICES ASSUME NEW i \in slots, i \notin handles' PROVE \E u \in Threads : own'[u] = i
        BY Zenon
      <3>1. PICK u \in Threads : own[u] = i BY <1>1, Zenon DEF IInv, Reservations
      <3>2. u # t BY <1>1, <3>1, Zenon
      <3> QED BY <1>3, <3>1, <3>2, Zenon
    <2> QED BY <2>2, <2>3, <2>4, <2>5, <2>6, Zenon DEF Reservations
  <1>7. Generation'
    <2>1. \A u \in Threads : (Admitted(u)' => Admitted(u)) /\ (InGeneration(u)' => InGeneration(u))
      BY <1>1, Moves, Zenon DEF Admitted, InGeneration
    <2> QED BY <1>1, <1>3, <2>1, Zenon DEF IInv, Generation, registry
  <1>8. Snapshots'
    <2>1. \A u \in Threads \ {t} : Target(u)' = Target(u) /\ pc'[u] = pc[u]
      BY <1>1, <1>3, Moves DEF Target
    <2>2. pc'[t] # "remove" BY <1>1, Moves, Zenon
    <2>3. \A i \in Ids :
             snapshot'[i] # None => i \in slots' \cup todo' /\ snapshot'[i] = recorded'[i]
      BY <1>1, Zenon DEF IInv, Snapshots, registry, slot
    <2>4. ASSUME NEW u \in Threads, pc'[u] = "remove"
          PROVE  snapshot'[Target(u)'] = None /\ slot_closed'[Target(u)']
      <3>1. u \in Threads \ {t} BY <2>2, <2>4, Zenon
      <3>2. pc[u] = "remove" /\ Target(u)' = Target(u) BY <2>1, <2>4, <3>1, Zenon
      <3>3. snapshot[Target(u)] = None /\ slot_closed[Target(u)] BY <3>2, Zenon DEF IInv, Snapshots
      <3> QED BY <1>1, <3>2, <3>3, Zenon DEF slot
    <2>5. \A u \in Threads : request'[u] # None => snapshot'[request'[u]] # None
      BY <1>1, <1>3, Zenon DEF IInv, Snapshots, slot
    <2>6. \A u \in Threads : request'[u] # None /\ arc'[u] # None
            => arc'[u] = recorded'[request'[u]]
      BY <1>1, <1>3, Zenon DEF IInv, Snapshots
    <2> QED BY <2>3, <2>4, <2>5, <2>6, Zenon DEF Snapshots
  <1>9. Counted' /\ Bounded' BY <1>1, Zenon DEF IInv, Counted, Requests, Bounded, registry, slot
  <1>10. closed' \in BOOLEAN BY <1>1, Zenon DEF IInv, registry
  <1> QED BY <1>4, <1>5, <1>6, <1>7, <1>8, <1>9, <1>10, Zenon DEF IInv

\* The slot a call closes: that of its reservation, which is still in use, or
\* that of the handle it releases.
LEMMA ClosesSlot ==
    ASSUME IInv, NEW t \in Threads, pc[t] \in Closing
    PROVE  /\ Target(t) \in Ids /\ InGeneration(t)
           /\ own[t] # None => Target(t) = own[t] /\ own[t] \in slots
           /\ own[t] = None => /\ Target(t) \in handles /\ op[t] = "release"
                               /\ request[t] = None /\ arc[t] = None
           /\ \A u \in Threads \ {t} : own[u] # Target(t)
  <1>1. Sorts /\ CallOK(t) /\ InGeneration(t) BY Zenon DEF IInv, InGeneration, Closing
  <1>2. CASE own[t] # None
    BY <1>1, <1>2, Zenon DEF Target, Sorts, IInv, Generation, Reservations
  <1>3. CASE own[t] = None
    <2>1. op[t] = "release" /\ cur[t] \in handles /\ request[t] = None /\ arc[t] = None
      BY <1>1, <1>3, Zenon DEF CallOK, Closing
    <2>2. Target(t) = cur[t] /\ cur[t] \in Ids /\ cur[t] # None
      BY <1>1, <1>3, <2>1, Numbers, Zenon DEF Target, Sorts
    <2>3. \A u \in Threads : own[u] # cur[t] BY <2>1, <2>2, Zenon DEF IInv, Reservations
    <2> QED BY <1>1, <1>3, <2>1, <2>2, <2>3, Zenon
  <1> QED BY <1>2, <1>3, Zenon

\* The call that closes a slot finds it, or finds it gone.
LEMMA GetIInv == ASSUME IInv, NEW t \in Threads, Get(t) PROVE IInv'
  <1>1. /\ Sorts /\ CallOK(t) /\ pc[t] = "get" /\ pc[t] \in Closing
        /\ UNCHANGED <<slots, next_id, slot, revision, handles, recorded, owner, todo, request>>
        /\ closed' = closed /\ arc' = arc
    BY Zenon DEF Get, IInv, Closing, registry
  <1>2. PICK step \in {"close", "idle"} :
           GoTo(t, step) /\ own' = own /\ (step = "idle" => own[t] = None)
    <2>1. CASE Target(t) \in slots BY <2>1, Zenon DEF Get
    <2>2. CASE Target(t) \notin slots
      <3>1. own[t] = None /\ request[t] = None BY <1>1, <2>2, ClosesSlot, Zenon
      <3>2. GoTo(t, "idle") /\ own' = [own EXCEPT ![t] = None] BY <2>2, <3>1, Zenon DEF Get
      <3>3. own' = own BY <1>1, <3>1, <3>2, Zenon DEF Sorts
      <3> QED BY <3>1, <3>2, <3>3, Zenon
    <2> QED BY <2>1, <2>2, Zenon
  <1>3. step \in Steps BY Zenon DEF Steps
  <1>4. own[t] = None => request[t] = None /\ arc[t] = None BY <1>1, ClosesSlot, Zenon
  <1>5. CallOK(t)' BY <1>1, <1>2, <1>3, <1>4, Moves, Zenon DEF CallOK, Closing
  <1>6. InGeneration(t) /\ arc' \in [Threads -> {None} \cup Revisions]
    BY <1>1, Zenon DEF InGeneration, Sorts
  <1>7. Admitted(t)' => Admitted(t)
    BY <1>1, <1>2, <1>3, <1>6, Moves, Zenon DEF Admitted, InGeneration
  <1> QED BY <1>1, <1>2, <1>3, <1>5, <1>6, <1>7, Moves, CallMoves, Zenon DEF standing

\* A slot is closed: its snapshot is taken once nobody has a request on it.
LEMMA CloseIInv == ASSUME Countable(Threads), IInv, NEW t \in Threads, Close(t) PROVE IInv'
  <1>1. /\ Sorts /\ CallOK(t) /\ pc[t] \in {"close", "drained"} /\ pc[t] \in Closing
        /\ registry' = registry /\ active' = active /\ revision' = revision
        /\ handles' = handles /\ recorded' = recorded /\ owner' = owner /\ todo' = todo
        /\ request' = request /\ own' = own /\ arc' = arc
    BY Zenon DEF Close, IInv, Closing
  <1>2. PICK x \in Ids : x = Target(t) BY <1>1, ClosesSlot, Zenon
  <1>3. PICK step \in {"wait", "remove"} :
           /\ GoTo(t, step) /\ slot_closed' = [slot_closed EXCEPT ![x] = TRUE]
           /\ step = "wait" => snapshot' = snapshot
           /\ step = "remove" => active[x] = 0 /\ snapshot' = [snapshot EXCEPT ![x] = None]
    BY <1>2, Zenon DEF Close, CloseSlot
  <1>4. step \in Steps /\ step \in Closing BY Zenon DEF Steps, Closing
  <1>5. /\ slot_closed' \in [Ids -> BOOLEAN] /\ slot_closed'[x]
        /\ \A i \in Ids : slot_closed[i] => slot_closed'[i]
    BY <1>1, <1>3, Zenon DEF Sorts
  <1>6. /\ snapshot' \in [Ids -> {None} \cup Revisions]
        /\ \A i \in Ids : \/ snapshot'[i] = snapshot[i]
                          \/ i = x /\ step = "remove" /\ snapshot'[i] = None
        /\ step = "remove" => snapshot'[x] = None
    BY <1>1, <1>3, Zenon DEF Sorts
  <1>7. /\ pc' \in [Threads -> Steps] /\ pc'[t] = step
        /\ op' = op /\ cur' = cur /\ \A u \in Threads \ {t} : pc'[u] = pc[u]
    BY <1>1, <1>3, <1>4, Zenon DEF GoTo, Sorts
  <1>8. Sorts' BY <1>1, <1>5, <1>6, <1>7, Zenon DEF Sorts, registry
  <1>9. ASSUME NEW u \in Threads PROVE CallOK(u)'
    <2>1. CASE u = t BY <1>1, <1>3, <1>7, <2>1, Zenon DEF CallOK, Closing
    <2>2. CASE u # t BY <1>1, <1>7, <2>2, OtherCall, Zenon DEF IInv
    <2> QED BY <2>1, <2>2, Zenon
  <1>10. Reservations' BY <1>1, Zenon DEF IInv, Reservations, registry
  <1>11. Generation'
    <2>1. \A u \in Threads :
             (Admitted(u)' <=> Admitted(u)) /\ (InGeneration(u)' <=> InGeneration(u))
      BY <1>1, <1>3, <1>7, Zenon DEF Admitted, InGeneration
    <2> QED BY <1>1, <2>1, Zenon DEF IInv, Generation, registry
  <1>12. Snapshots'
    <2>1. \A u \in Threads : Target(u)' = Target(u) BY <1>1, <1>7, Zenon DEF Target
    <2>2. \A u \in Threads : pc[u] = "remove" => Target(u) \in Ids BY ClosesSlot, Zenon DEF Closing
    <2>3. step = "remove" => \A u \in Threads : request[u] # x
      <3>1. SUFFICES ASSUME step = "remove" PROVE Requests(x) = {} BY Zenon DEF Requests
      <3>2. Requests(x) \in SUBSET Threads /\ Cardinality(Requests(x)) = 0
        BY <1>3, <3>1, Zenon DEF IInv, Counted, Requests
      <3> QED BY <3>2, Zenon DEF Countable
    <2>4. \A i \in Ids :
             snapshot'[i] # None => i \in slots' \cup todo' /\ snapshot'[i] = recorded'[i]
      BY <1>1, <1>6, Zenon DEF IInv, Snapshots, registry
    <2>5. ASSUME NEW u \in Threads, pc'[u] = "remove"
          PROVE  snapshot'[Target(u)] = None /\ slot_closed'[Target(u)]
      <3>1. CASE u = t BY <1>2, <1>5, <1>6, <1>7, <2>5, <3>1, Zenon
      <3>2. CASE u # t
        <4>1. pc[u] = "remove" /\ Target(u) \in Ids BY <1>7, <2>2, <2>5, <3>2, Zenon
        <4> QED BY <1>5, <1>6, <4>1, Zenon DEF IInv, Snapshots
      <3> QED BY <3>1, <3>2, Zenon
    <2>6. \A u \in Threads : request[u] # None => snapshot'[request[u]] # None
      <3>1. ASSUME NEW u \in Threads, request[u] # None
            PROVE  request[u] \in Ids /\ snapshot[request[u]] # None
        BY <1>1, <3>1, Zenon DEF IInv, Sorts, Snapshots
      <3> QED BY <1>6, <2>3, <3>1, Zenon
    <2>7. \A u \in Threads :
             pc'[u] = "remove" => snapshot'[Target(u)'] = None /\ slot_closed'[Target(u)']
      BY <2>1, <2>5, Zenon
    <2>8. \A u \in Threads : request'[u] # None => snapshot'[request'[u]] # None
      BY <1>1, <2>6, Zenon
    <2>9. \A u \in Threads : request'[u] # None /\ arc'[u] # None
            => arc'[u] = recorded'[request'[u]]
      BY <1>1, Zenon DEF IInv, Snapshots
    <2> QED BY <2>4, <2>7, <2>8, <2>9, Zenon DEF Snapshots
  <1>13. Counted' /\ Bounded' BY <1>1, Zenon DEF IInv, Counted, Requests, Bounded, registry
  <1>14. closed' \in BOOLEAN BY <1>1, Zenon DEF IInv, registry
  <1> QED BY <1>8, <1>9, <1>10, <1>11, <1>12, <1>13, <1>14, Zenon DEF IInv

\* A closed slot leaves the registry.
LEMMA RemoveIInv == ASSUME Countable(Ids), IInv, NEW t \in Threads, Remove(t) PROVE IInv'
  <1>1. /\ Sorts /\ CallOK(t) /\ pc[t] = "remove" /\ pc[t] \in Closing
        /\ next_id' = next_id /\ closed' = closed /\ slot' = slot /\ revision' = revision
        /\ handles' = handles /\ recorded' = recorded /\ owner' = owner /\ todo' = todo
        /\ request' = request /\ arc' = arc
        /\ own' = [own EXCEPT ![t] = None]
    BY Zenon DEF Remove, IInv, Closing
  <1>2. PICK x \in Ids : x = Target(t) BY <1>1, ClosesSlot, Zenon
  <1>3. slots' = slots \ {x} BY <1>2, Zenon DEF Remove
  <1>4. PICK step \in {"drop_snapshot", "idle"} :
           GoTo(t, step) /\ (step = "idle" <=> request[t] = None)
    BY Zenon DEF Remove
  <1>5. step \in Steps BY Zenon DEF Steps
  <1>6. /\ own' \in [Threads -> {None} \cup Ids] /\ own'[t] = None
        /\ \A u \in Threads \ {t} : own'[u] = own[u]
    BY <1>1, Zenon DEF Sorts
  <1>7. Sorts' BY <1>1, <1>3, <1>4, <1>5, <1>6, Moves, Zenon DEF Sorts, slot
  <1>8. ASSUME NEW u \in Threads PROVE CallOK(u)'
    <2>1. CASE u = t BY <1>1, <1>4, <1>5, <1>6, <2>1, Moves, Zenon DEF CallOK, Closing
    <2>2. CASE u # t BY <1>1, <1>4, <1>5, <1>6, <2>2, Moves, OtherCall, Zenon DEF IInv
    <2> QED BY <2>1, <2>2, Zenon
  <1>9. own[t] \in {None, x} /\ \A u \in Threads \ {t} : own[u] # x
    BY <1>1, <1>2, ClosesSlot, Zenon
  <1>10. Reservations'
    <2>1. \A i \in slots' : i \in handles \/ \E u \in Threads : own'[u] = i
      <3> SUFFICES ASSUME NEW i \in slots', i \notin handles PROVE \E u \in Threads : own'[u] = i
        BY Zenon
      <3>1. PICK u \in Threads : own[u] = i BY <1>3, Zenon DEF IInv, Reservations
      <3>2. i \in Ids /\ i # x BY <1>1, <1>3, Zenon DEF Sorts
      <3>3. u # t BY <1>9, <3>1, <3>2, Numbers, Zenon
      <3> QED BY <1>6, <3>1, <3>3, Zenon
    <2>2. /\ \A u \in Threads : own'[u] # None => own'[u] < next_id /\ own'[u] \notin handles
          /\ \A u, v \in Threads : own'[u] = own'[v] /\ own'[u] # None => u = v
      BY <1>6, Zenon DEF IInv, Reservations
    <2>3. \A i \in slots' \cup handles : i < next_id BY <1>3, Zenon DEF IInv, Reservations
    <2> QED BY <1>1, <2>1, <2>2, <2>3, Zenon DEF Reservations
  <1>11. Generation'
    <2>1. \A u \in Threads \ {t} :
             (Admitted(u)' <=> Admitted(u)) /\ (InGeneration(u)' <=> InGeneration(u))
      BY <1>1, <1>4, <1>5, Moves, Zenon DEF Admitted, InGeneration
    <2>2. ~Admitted(t)' /\ ~InGeneration(t)'
      BY <1>1, <1>4, <1>5, Moves, Zenon DEF Admitted, InGeneration
    <2> QED BY <1>1, <1>3, <1>6, <1>9, <2>1, <2>2, Zenon DEF IInv, Generation
  <1>12. Snapshots'
    <2>1. \A u \in Threads \ {t} : Target(u)' = Target(u) /\ pc'[u] = pc[u]
      BY <1>1, <1>4, <1>5, <1>6, Moves, Zenon DEF Target
    <2>2. pc'[t] # "remove" BY <1>1, <1>4, <1>5, Moves, Zenon
    <2>3. snapshot[x] = None BY <1>1, <1>2, Zenon DEF IInv, Snapshots
    <2>4. \A i \in Ids :
             snapshot'[i] # None => i \in slots' \cup todo' /\ snapshot'[i] = recorded'[i]
      BY <1>1, <1>3, <2>3, Zenon DEF IInv, Snapshots, slot
    <2>5. ASSUME NEW u \in Threads, pc'[u] = "remove"
          PROVE  snapshot'[Target(u)'] = None /\ slot_closed'[Target(u)']
      <3>1. u \in Threads \ {t} BY <2>2, <2>5, Zenon
      <3>2. pc[u] = "remove" /\ Target(u)' = Target(u) BY <2>1, <2>5, <3>1, Zenon
      <3>3. snapshot[Target(u)] = None /\ slot_closed[Target(u)] BY <3>2, Zenon DEF IInv, Snapshots
      <3> QED BY <1>1, <3>2, <3>3, Zenon DEF slot
    <2>6. \A u \in Threads : request'[u] # None => snapshot'[request'[u]] # None
      BY <1>1, Zenon DEF IInv, Snapshots, slot
    <2>7. \A u \in Threads : request'[u] # None /\ arc'[u] # None
            => arc'[u] = recorded'[request'[u]]
      BY <1>1, Zenon DEF IInv, Snapshots
    <2> QED BY <2>4, <2>5, <2>6, <2>7, Zenon DEF Snapshots
  <1>13. Counted' BY <1>1, Zenon DEF IInv, Counted, Requests, slot
  <1>14. Bounded'
    <2>1. slots \in SUBSET Ids /\ slots' \in SUBSET slots BY <1>1, <1>3, Zenon DEF Sorts
    <2>2. /\ Cardinality(slots') <= Cardinality(slots) /\ Cardinality(slots) \in Nat
          /\ slots' \in SUBSET Ids
      BY <2>1, Zenon DEF Countable
    <2>3. Cardinality(slots') \in Nat BY <2>2, Zenon DEF Countable
    <2> QED BY <2>2, <2>3, Numbers DEF IInv, Bounded
  <1>15. closed' \in BOOLEAN BY <1>1, Zenon DEF IInv
  <1> QED BY <1>7, <1>8, <1>10, <1>11, <1>12, <1>13, <1>14, <1>15, Zenon DEF IInv

\* A step of the writer or the owner leaves the calls alone.
LEMMA CallsStay ==
    ASSUME IInv, UNCHANGED call, handles' = handles
    PROVE  /\ \A t \in Threads : CallOK(t)'
           /\ \A t \in Threads :
                 (Admitted(t)' <=> Admitted(t)) /\ (InGeneration(t)' <=> InGeneration(t))
           /\ \A t \in Threads : Target(t)' = Target(t)
           /\ \A i : Requests(i)' = Requests(i)
  <1>1. pc' = pc /\ op' = op /\ cur' = cur /\ request' = request /\ own' = own /\ arc' = arc
    BY Zenon DEF call
  <1>2. ASSUME NEW t \in Threads PROVE CallOK(t)' BY <1>1, OtherCall, Zenon DEF IInv
  <1> QED BY <1>1, <1>2, Zenon DEF Admitted, InGeneration, Target, Requests

\* The writer moves on, and the owner waits for the readers.
LEMMA OwnerWaitsIInv ==
    ASSUME IInv, Write \/ OwnerBegins \/ OwnerDrained \/ OwnerTakes \/ WakeOwner
    PROVE  IInv'
  <1>1. /\ UNCHANGED call /\ handles' = handles /\ closed' = closed /\ slots' = slots
        /\ next_id' = next_id /\ snapshot' = snapshot /\ active' = active
        /\ slot_closed' = slot_closed /\ recorded' = recorded /\ todo' = todo
    BY Zenon DEF Write, OwnerBegins, OwnerDrained, OwnerTakes, WakeOwner, registry, slot
  <1>2. /\ pc' = pc /\ op' = op /\ cur' = cur /\ request' = request /\ own' = own /\ arc' = arc
    BY <1>1, Zenon DEF call
  <1>3. /\ revision' \in Revisions
        /\ \/ owner' = owner
           \/ owner = "open" /\ owner' = "drain"
           \/ owner = "drain" /\ owner' = "lock" /\ \A t \in Threads : ~Admitted(t)
           \/ owner = "lock" /\ owner' = "close" /\ \A t \in Threads : ~InGeneration(t)
           \/ owner = "wait" /\ owner' = "drained"
    BY Numbers DEF Write, OwnerBegins, OwnerDrained, OwnerTakes, WakeOwner, IInv, Sorts, Revisions
  <1>4. Sorts' BY <1>1, <1>2, <1>3, Zenon DEF IInv, Sorts
  <1>5. Generation' BY <1>1, <1>2, <1>3, CallsStay, Zenon DEF IInv, Generation, Admitted
  <1>6. Reservations' BY <1>1, <1>2, Zenon DEF IInv, Reservations
  <1>7. Snapshots' BY <1>1, <1>2, CallsStay, Zenon DEF IInv, Snapshots
  <1>8. Counted' /\ Bounded' BY <1>1, CallsStay, Zenon DEF IInv, Counted, Bounded
  <1>9. closed' \in BOOLEAN BY <1>1, Zenon DEF IInv
  <1> QED BY <1>1, <1>4, <1>5, <1>6, <1>7, <1>8, <1>9, CallsStay, Zenon DEF IInv

\* The registry is closed, and its slots are left to the owner.
LEMMA OwnerClosesRegistryIInv ==
    ASSUME Countable(Ids), IInv, OwnerClosesRegistry
    PROVE  IInv'
  <1>1. /\ UNCHANGED call /\ handles' = handles /\ closed' = TRUE /\ slots' = {} /\ todo' = slots
        /\ next_id' = next_id /\ snapshot' = snapshot /\ active' = active
        /\ slot_closed' = slot_closed /\ recorded' = recorded /\ revision' = revision
        /\ owner = "close" /\ owner' \in {"slot", "gone"} /\ (owner' = "gone" => slots = {})
    BY Zenon DEF OwnerClosesRegistry, slot
  <1>2. /\ pc' = pc /\ op' = op /\ cur' = cur /\ request' = request /\ own' = own /\ arc' = arc
    BY <1>1, Zenon DEF call
  <1>3. todo = {} /\ \A t \in Threads : ~InGeneration(t) /\ ~Admitted(t)
    BY <1>1, Zenon DEF IInv, Generation
  <1>4. Sorts' BY <1>1, <1>2, Zenon DEF IInv, Sorts
  <1>5. Generation' BY <1>1, <1>2, <1>3, CallsStay, Zenon DEF Generation
  <1>6. Reservations' BY <1>1, <1>2, Zenon DEF IInv, Reservations
  <1>7. Snapshots'
    <2>1. slots' \cup todo' = slots \cup todo BY <1>1, <1>3, Zenon
    <2>2. \A t \in Threads : Target(t)' = Target(t) BY <1>1, CallsStay, Zenon
    <2>3. \A i \in Ids :
             snapshot'[i] # None => i \in slots' \cup todo' /\ snapshot'[i] = recorded'[i]
      BY <1>1, <2>1, Zenon DEF IInv, Snapshots
    <2>4. \A t \in Threads :
             pc'[t] = "remove" => snapshot'[Target(t)'] = None /\ slot_closed'[Target(t)']
      BY <1>1, <1>2, <2>2, Zenon DEF IInv, Snapshots
    <2>5. \A t \in Threads :
             /\ request'[t] # None => snapshot'[request'[t]] # None
             /\ request'[t] # None /\ arc'[t] # None => arc'[t] = recorded'[request'[t]]
      BY <1>1, <1>2, Zenon DEF IInv, Snapshots
    <2> QED BY <2>3, <2>4, <2>5, Zenon DEF Snapshots
  <1>8. Counted' BY <1>1, CallsStay, Zenon DEF IInv, Counted
  <1>9. Bounded'
    <2>1. Cardinality({}) = 0 BY Zenon DEF Countable
    <2> QED BY <1>1, <2>1, Numbers DEF Bounded
  <1>10. closed' \in BOOLEAN BY <1>1, Zenon
  <1> QED BY <1>1, <1>4, <1>5, <1>6, <1>7, <1>8, <1>9, <1>10, CallsStay, Zenon DEF IInv

\* The owner closes the next slot, or waits for the requests on it.
LEMMA OwnerClosesSlotIInv ==
    ASSUME Countable(Threads), IInv, OwnerClosesSlot
    PROVE  IInv'
  <1>0. PICK x : x = NextTodo BY Zenon
  <1>1. /\ UNCHANGED call /\ handles' = handles /\ closed' = closed /\ slots' = slots
        /\ next_id' = next_id /\ active' = active /\ recorded' = recorded /\ revision' = revision
        /\ slot_closed' = [slot_closed EXCEPT ![x] = TRUE]
        /\ owner \in {"slot", "drained"}
        /\ \/ owner' = "wait" /\ todo' = todo /\ snapshot' = snapshot
           \/ /\ active[x] = 0 /\ snapshot' = [snapshot EXCEPT ![x] = None]
              /\ todo' = todo \ {x} /\ owner' \in {"slot", "gone"}
              /\ owner' = "gone" => todo = {x}
    BY <1>0, Zenon DEF OwnerClosesSlot, CloseSlot, registry
  <1>2. /\ pc' = pc /\ op' = op /\ cur' = cur /\ request' = request /\ own' = own /\ arc' = arc
    BY <1>1, Zenon DEF call
  <1>3. Sorts /\ slots = {} /\ \A t \in Threads : ~InGeneration(t) /\ ~Admitted(t)
    BY <1>1, Zenon DEF IInv, Generation
  <1>4. /\ slot_closed' \in [Ids -> BOOLEAN]
        /\ \A i \in Ids : slot_closed[i] => slot_closed'[i]
    BY <1>1, <1>3, Zenon DEF Sorts
  <1>5. /\ snapshot' \in [Ids -> {None} \cup Revisions]
        /\ \A i \in Ids : snapshot'[i] \in {None, snapshot[i]}
        /\ \A i \in todo \ todo' : snapshot'[i] = None
        /\ \A i \in Ids : snapshot'[i] # snapshot[i] => i = x /\ active[x] = 0
    BY <1>1, <1>3, Zenon DEF Sorts
  <1>6. Sorts' BY <1>1, <1>2, <1>3, <1>4, <1>5, Zenon DEF Sorts
  <1>7. Generation' BY <1>1, <1>2, <1>3, CallsStay, Zenon DEF Generation
  <1>8. Reservations' BY <1>1, <1>2, Zenon DEF IInv, Reservations
  <1>9. Snapshots'
    <2>1. \A i \in Ids :
             snapshot'[i] # None => i \in slots' \cup todo' /\ snapshot'[i] = recorded'[i]
      BY <1>1, <1>5, Zenon DEF IInv, Snapshots
    <2>2. \A t \in Threads : pc[t] # "remove" BY <1>3, Zenon DEF InGeneration
    <2>3. ASSUME NEW t \in Threads, request[t] # None PROVE snapshot'[request[t]] # None
      <3>1. PICK i \in Ids : i = request[t] BY <1>3, <2>3, Zenon DEF Sorts
      <3>2. t \in Requests(i) /\ Requests(i) \in SUBSET Threads BY <3>1, Zenon DEF Requests
      <3>3. Cardinality(Requests(i)) # 0 BY <3>2, Zenon DEF Countable
      <3>4. active[i] # 0 /\ snapshot[i] # None
        BY <2>3, <3>1, <3>3, Zenon DEF IInv, Counted, Snapshots
      <3> QED BY <1>5, <3>1, <3>4, Zenon
    <2> QED BY <1>1, <1>2, <2>1, <2>2, <2>3, Zenon DEF IInv, Snapshots
  <1>10. Counted' /\ Bounded' BY <1>1, CallsStay, Zenon DEF IInv, Counted, Bounded
  <1>11. closed' \in BOOLEAN BY <1>1, Zenon DEF IInv
  <1> QED BY <1>1, <1>6, <1>7, <1>8, <1>9, <1>10, <1>11, CallsStay, Zenon DEF IInv

\* Every step preserves the invariant.
LEMMA NextIInv ==
    ASSUME Countable(Threads), Countable(Ids), IInv, [Next]_vars
    PROVE  IInv'
  <1>1. CASE UNCHANGED vars
    <2>1. UNCHANGED call /\ handles' = handles /\ slots' = slots /\ todo' = todo /\ owner' = owner
      /\ closed' = closed /\ next_id' = next_id /\ snapshot' = snapshot /\ active' = active
      /\ slot_closed' = slot_closed /\ recorded' = recorded /\ revision' = revision
      /\ pc' = pc /\ op' = op /\ cur' = cur /\ request' = request /\ own' = own /\ arc' = arc
      BY <1>1, Zenon DEF vars, registry, slot, call
    <2>2. Sorts' BY <2>1, Zenon DEF IInv, Sorts
    <2>3. Generation' /\ Reservations' /\ Snapshots'
      <3>1. Generation' BY <2>1, CallsStay, Zenon DEF IInv, Generation
      <3>2. Reservations' BY <2>1, Zenon DEF IInv, Reservations
      <3>3. Snapshots' BY <2>1, CallsStay, Zenon DEF IInv, Snapshots
      <3> QED BY <3>1, <3>2, <3>3, Zenon
    <2>4. Counted' /\ Bounded' BY <2>1, CallsStay, Zenon DEF IInv, Counted, Bounded
    <2>5. closed' \in BOOLEAN BY <2>1, Zenon DEF IInv
    <2> QED BY <2>1, <2>2, <2>3, <2>4, <2>5, CallsStay, Zenon DEF IInv
  <1>2. CASE Next
    BY <1>2, EnterIInv, LookupIInv, AdmitRequestIInv, OperateIInv, DropSnapshotIInv,
       DropCountIInv, ReserveIInv, TakeSnapshotIInv, InstallIInv, ConfirmIInv, CommitIInv,
       GetIInv, CloseIInv, RemoveIInv, WakeIInv, OwnerWaitsIInv, OwnerClosesRegistryIInv,
       OwnerClosesSlotIInv, Zenon DEF Next, Step, OwnerStep
  <1> QED BY <1>1, <1>2, Zenon

-----------------------------------------------------------------------------
INSTANCE FiniteSetTheorems

\* Every finite set has what the proofs use of its subsets' cardinalities.
LEMMA FiniteIsCountable ==
    ASSUME NEW T, IsFiniteSet(T)
    PROVE  Countable(T)
  <1> SUFFICES ASSUME NEW S \in SUBSET T
               PROVE  /\ Cardinality(S) \in Nat /\ (Cardinality(S) = 0 <=> S = {})
                      /\ \A x \in T \ S : Cardinality(S \cup {x}) = Cardinality(S) + 1
                      /\ \A x \in S : Cardinality(S \ {x}) = Cardinality(S) - 1
                      /\ \A R \in SUBSET S : Cardinality(R) <= Cardinality(S)
    BY Zenon DEF Countable
  <1>1. IsFiniteSet(S) BY FS_Subset, Zenon
  <1>2. Cardinality(S) \in Nat BY <1>1, FS_CardinalityType, Zenon
  <1>3. Cardinality(S) = 0 <=> S = {} BY <1>1, FS_EmptySet, Zenon
  <1>4. \A x \in T \ S : Cardinality(S \cup {x}) = Cardinality(S) + 1
    BY <1>1, FS_AddElement, Zenon
  <1>5. \A x \in S : Cardinality(S \ {x}) = Cardinality(S) - 1
    BY <1>1, FS_RemoveElement, Zenon
  <1>6. \A R \in SUBSET S : Cardinality(R) <= Cardinality(S)
    BY <1>1, FS_Subset, Zenon
  <1> QED BY <1>2, <1>3, <1>4, <1>5, <1>6, Zenon

(* Every reachable state of the registry of frozen reads satisfies the       *)
(* invariant: a call holds what its step needs, a reservation belongs to one *)
(* call, and a snapshot stays while a request is on it.                      *)
THEOREM Safe == Spec => []IInv
  <1>1. Countable(Threads) BY ThreadsAssumption, FiniteIsCountable, Zenon
  <1>2. IsFiniteSet(Ids) BY FS_Interval, Numbers DEF Ids
  <1>3. Countable(Ids) BY <1>2, FiniteIsCountable, Zenon
  <1>4. Init => IInv BY <1>1, <1>3, InitIInv, Zenon
  <1>5. IInv /\ [Next]_vars => IInv' BY <1>1, <1>3, NextIInv, Zenon
  <1> QED BY <1>4, <1>5, PTL DEF Spec

(* Retention is bounded and accounted for: no more slots than the limit,     *)
(* every request counted on its slot, and no slot without a handle or a call *)
(* that still reserves it.                                                   *)
THEOREM RetentionBounded == Spec => []SlotsAccounted
  <1>1. IInv => TypeOK
    <2>1. Sorts => \A f \in {cur, request, own} : f \in [Threads -> {None} \cup Ids]
      BY Zenon DEF Sorts
    <2> QED BY <2>1, Zenon DEF IInv, Sorts, TypeOK
  <1>2. IInv => SlotsAccounted
    BY <1>1, Zenon DEF IInv, SlotsAccounted, Counted, Requests, Bounded, Reservations
  <1> QED BY Safe, <1>2, PTL

(* A read sees the revision its handle was captured at, however captures,    *)
(* releases, the writer and the owner's drain interleave.                    *)
THEOREM SnapshotsShown == Spec => []SnapshotsSound
  <1>1. ASSUME IInv PROVE SnapshotsSound
    <2>1. ASSUME NEW t \in Threads, NEW i \in Ids, snapshot[i] = None, request[t] = i PROVE FALSE
      BY <1>1, <2>1, Numbers, Zenon DEF IInv, Snapshots
    <2>2. ASSUME owner = "gone", NEW t \in Threads PROVE arc[t] = None
      <3>1. slots = {} /\ todo = {} /\ ~InGeneration(t) BY <1>1, <2>2, Zenon DEF IInv, Generation
      <3>2. pc[t] # "install" BY <3>1, Zenon DEF InGeneration
      <3>3. request[t] = None
        BY <1>1, <3>1, Zenon DEF IInv, Snapshots, Sorts
      <3> QED BY <1>1, <3>2, <3>3, Zenon DEF IInv, CallOK
    <2> QED BY <1>1, <2>1, <2>2 DEF SnapshotsSound, IInv, Snapshots
  <1> QED BY Safe, <1>1, PTL
=============================================================================
