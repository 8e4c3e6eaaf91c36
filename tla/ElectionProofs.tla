--------------------------- MODULE ElectionProofs ---------------------------
(* HomeCoherence, the coherent election over a quiet home, for every set of  *)
(* commands and electors, every number of stores and every bound: what an    *)
(* election publishes is current, and while its callback runs nothing it     *)
(* could have read changes.                                                  *)
EXTENDS HomeCoherence, TLAPS

\* An election holds the locks it has reached, and no others: the boundary's is
\* that of the store it elects on.
LocksOf(e) ==
    /\ \A s \in Stores : guard[s] = e <=> epc[e] # "idle" /\ at[e] = s
    /\ held["registry"] = e <=> epc[e] \in {"registry", "electing"}
    /\ held["health"] = e <=> epc[e] = "electing"
    /\ epc[e] # "idle" => at[e] \in Stores /\ at[e] <= store
LocksOK == \A e \in Electors : LocksOf(e)

\* What each lock keeps while an election holds it.
Guarded ==
    \A e \in Electors :
        /\ epc[e] # "idle" => Quiet(at[e])
        /\ epc[e] \in {"registry", "electing"} => \A c \in Commands : scope[c] = "Vacant"
        /\ epc[e] = "electing" => state = "Healthy"

\* Every store but the last is closed, and the last is open while it is, or is
\* to be, in service.
Lineage ==
    /\ \A s \in Stores : (s < store => closed[s]) /\ (s > store => ~closed[s])
    /\ closed[store] => recovery \in {"none", "draining"} /\ state # "Healthy"
    /\ state = "Healthy" => recovery = "none"
    /\ recovery = "draining" => store < MaxStore /\ generation < MaxGeneration
    /\ admitted[store] # 0

\* A store's boundary is active while one of its commands writes, and no two do;
\* only the last store has a database to write to.
OneWriter ==
    /\ \A c, d \in Commands :
          pc[c] \in Writing /\ pc[d] \in Writing /\ of[c] = of[d] => c = d
    /\ \A c \in Commands : pc[c] \in Writing => active[of[c]] /\ ~poisoned[of[c]]
    /\ \A c \in Commands :
          /\ pc[c] \notin {"idle", "custody"} => of[c] \in Stores /\ of[c] <= store
          /\ pc[c] \in {"stored", "settling", "settled"} => of[c] = store

\* The scope and the doubt of a command at each of its steps.
Effect(c) ==
    /\ pc[c] \in {"reserved", "begun", "refused", "admitted", "missing", "stored",
                  "settling", "panicked", "unwinding", "custody"} => scope[c] = "Reserved"
    /\ pc[c] \in {"settled", "finishing"} /\ outcome[c] = "Indeterminate"
          => scope[c] = "Reserved"
    /\ pc[c] # "idle" => scope[c] # "Verifying"
    /\ doubt[c] = "open" =>
          \/ /\ pc[c] \in {"stored", "settling", "settled", "finishing"}
             /\ outcome[c] = "Indeterminate"
          \/ pc[c] = "custody"
          \/ pc[c] = "idle" /\ scope[c] = "Verifying"
    /\ doubt[c] = "orphan"
          => pc[c] = "panicked" \/ state = "Failed" \/ recovery = "draining"
Effects == \A c \in Commands : Effect(c)

\* An interval observed and not ended since has no writer, and what was read
\* in it is current.
Interval(e) ==
    /\ seen[e].store # NoStore =>
          /\ seen[e].store <= store /\ seen[e].revision # None
          /\ revision[seen[e].store] # Exhausted
                => seen[e].revision <= revision[seen[e].store]
          /\ ~closed[seen[e].store] /\ seen[e].revision = revision[seen[e].store]
                => ~active[seen[e].store] /\ (fact[e] # None => fact[e] = version)
    /\ epc[e] # "idle" /\ fact[e] # None
          => seen[e].store = at[e] /\ seen[e].revision = revision[at[e]]
Intervals == \A e \in Electors : Interval(e)

\* The type invariant, by owner.
HomeTyped ==
    /\ store \in Stores /\ admitted \in [Stores -> 0..MaxGeneration]
    /\ revision \in [Stores -> 0..MaxRevision \cup {Exhausted}]
    /\ active \in [Stores -> BOOLEAN] /\ closed \in [Stores -> BOOLEAN]
    /\ poisoned \in [Stores -> BOOLEAN]
    /\ scope \in [Commands -> {"Vacant", "Reserved", "Verifying"}]
    /\ state \in {"Healthy", "Failed", "Reopening"} /\ generation \in 1..MaxGeneration
    /\ recovery \in {"none", "draining", "reopened", "candidate", "validated"}
    /\ pc \in [Commands -> {"idle", "reserved", "custody"} \cup Writing]
    /\ of \in [Commands -> Stores \cup {NoStore}]
    /\ access \in [Commands -> {"Ordinary", "Candidate"}]
    /\ outcome \in [Commands -> {"none", "NotCommitted", "Committed", "Indeterminate"}]
    /\ doubt \in [Commands -> {"none", "open", "orphan"}]
    /\ version \in 0..MaxVersion /\ durable \in 0..MaxVersion /\ stamp \in 0..MaxVersion
ElectorsTyped ==
    /\ guard \in [Stores -> Electors \cup {Free}]
    /\ held \in [Locks -> Electors \cup {Free}]
    /\ epc \in [Electors -> {"idle", "boundary", "registry", "electing"}]
    /\ at \in [Electors -> Stores \cup {NoStore}]
    /\ expected \in [Electors -> 0..MaxGeneration]
    /\ seen \in [Electors -> [store : Stores \cup {NoStore},
                              revision : 0..MaxRevision \cup {None}]]
    /\ fact \in [Electors -> 0..MaxVersion \cup {None}]

\* The inductive invariant.
IInv == TypeOK /\ LocksOK /\ Guarded /\ Lineage /\ OneWriter /\ Effects /\ Intervals

USE CoherenceAssumption DEF Exhausted, None, Free, NoStore, Stores

\* An open home nobody has written to or observed satisfies the invariant.
LEMMA InitIInv == Init => IInv
  <1> SUFFICES ASSUME Init PROVE IInv
    BY Zenon
  <1>1. TypeOK BY DEF Init, Unseen, TypeOK, Locks
  <1>2. LocksOK /\ Guarded BY DEF Init, LocksOK, LocksOf, Guarded, Locks
  <1>3. Lineage BY DEF Init, Lineage
  <1>4. OneWriter /\ Effects BY DEF Init, OneWriter, Effects, Effect, Writing, Admitted
  <1>5. Intervals BY DEF Init, Intervals, Interval, Unseen
  <1> QED BY <1>1, <1>2, <1>3, <1>4, <1>5, Zenon DEF IInv

\* The types of the home and of the electors, told apart.
LEMMA Types == TypeOK <=> HomeTyped /\ ElectorsTyped
  BY Zenon DEF TypeOK, HomeTyped, ElectorsTyped

\* An election leaves the home alone.
LEMMA ElectorKeeps ==
    ASSUME IInv, NEW e \in Electors,
           \/ Observe(e) \/ Read(e) \/ TakeBoundary(e) \/ TakeRegistry(e) \/ TakeHealth(e)
           \/ Refused(e) \/ Elected(e)
    PROVE  IInv'
  <1>1. HomeTyped /\ ElectorsTyped /\ LocksOK /\ Guarded /\ Lineage /\ OneWriter
        /\ Effects /\ Intervals
    BY Types, Zenon DEF IInv
  <1>2. UNCHANGED <<boundary, scope, health, command, records>>
    BY Zenon DEF Observe, Read, TakeBoundary, TakeRegistry, TakeHealth, Refused, Elected
  <1>3. HomeTyped'
    BY <1>1, <1>2, Zenon DEF HomeTyped, boundary, health, command, records
  <1>4. Lineage' /\ OneWriter' /\ Effects'
    BY <1>1, <1>2, Zenon DEF Lineage, OneWriter, Effects, Effect, boundary, health, command
  <1>5. \A s : Quiet(s) <=> Quiet(s)'
    BY <1>2, Zenon DEF Quiet, boundary
  <1>6. ElectorsTyped' /\ LocksOK' /\ Guarded' /\ Intervals'
    <2>1. CASE Observe(e)
      <3>1. PICK s \in 1..store :
               /\ Quiet(s)
               /\ seen' = [seen EXCEPT ![e] = [store |-> s, revision |-> revision[s]]]
        BY <2>1, Zenon DEF Observe
      <3>2. UNCHANGED <<guard, held, epc, at, expected>> /\ fact' = [fact EXCEPT ![e] = None]
        BY <2>1, Zenon DEF Observe, locks
      <3>3. s \in Stores /\ revision[s] \in 0..MaxRevision /\ epc[e] = "idle"
        BY <1>1, <2>1, <3>1 DEF HomeTyped, Quiet, Observe
      <3>4. ElectorsTyped'
        BY <1>1, <3>1, <3>2, <3>3 DEF ElectorsTyped
      <3>5. LocksOK'
        BY <1>1, <1>2, <3>2 DEF LocksOK, LocksOf, boundary
      <3>7. Guarded'
        BY <1>1, <1>2, <1>5, <3>2, Zenon DEF Guarded, health
      <3>6. Intervals'
        <4> SUFFICES ASSUME NEW f \in Electors PROVE Interval(f)'
          BY Zenon DEF Intervals
        <4>1. CASE f # e
          BY <1>1, <1>2, <3>1, <3>2, <4>1 DEF Intervals, Interval, ElectorsTyped, boundary, records
        <4>2. CASE f = e
          BY <1>1, <1>2, <3>1, <3>2, <3>3, <4>2 DEF Interval, ElectorsTyped, boundary, Quiet
        <4> QED BY <4>1, <4>2, Zenon
      <3> QED BY <3>4, <3>5, <3>6, <3>7, Zenon
    <2>2. CASE Read(e)
      <3>1. /\ UNCHANGED <<guard, held, epc, at, expected, seen>>
            /\ fact' = [fact EXCEPT ![e] = version]
            /\ epc[e] = "idle"
        BY <2>2, Zenon DEF Read, locks
      <3>2. ElectorsTyped'
        BY <1>1, <3>1, Zenon DEF ElectorsTyped, HomeTyped
      <3>3. LocksOK'
        BY <1>1, <1>2, <3>1 DEF LocksOK, LocksOf, boundary
      <3>5. Guarded'
        BY <1>1, <1>2, <1>5, <3>1, Zenon DEF Guarded, health
      <3>4. Intervals'
        <4> SUFFICES ASSUME NEW f \in Electors PROVE Interval(f)'
          BY Zenon DEF Intervals
        <4>1. fact'[f] = fact[f] \/ (f = e /\ fact'[f] = version)
          BY <1>1, <3>1, Zenon DEF ElectorsTyped
        <4> QED BY <1>1, <1>2, <3>1, <4>1, Zenon DEF Intervals, Interval, boundary, records
      <3> QED BY <3>2, <3>3, <3>4, <3>5, Zenon
    <2>3. CASE TakeBoundary(e)
      <3>1. PICK s \in 1..store, g \in 1..generation :
               /\ guard[s] = Free /\ Quiet(s)
               /\ \/ ObservedInterval(e, s) /\ UNCHANGED fact
                  \/ fact' = [fact EXCEPT ![e] = None]
               /\ guard' = [guard EXCEPT ![s] = e]
               /\ at' = [at EXCEPT ![e] = s] /\ expected' = [expected EXCEPT ![e] = g]
        BY <2>3, Zenon DEF TakeBoundary, ObservedInterval
      <3>2. /\ UNCHANGED <<held, seen>> /\ epc[e] = "idle"
            /\ epc' = [epc EXCEPT ![e] = "boundary"]
        BY <2>3, Zenon DEF TakeBoundary
      <3>3. s \in Stores /\ s <= store /\ s # NoStore /\ g \in 0..MaxGeneration
        BY <1>1 DEF HomeTyped
      <3>4. ElectorsTyped'
        BY <1>1, <3>1, <3>2, <3>3, Zenon DEF ElectorsTyped
      <3>5. LocksOK'
        <4> SUFFICES ASSUME NEW f \in Electors PROVE LocksOf(f)'
          BY Zenon DEF LocksOK
        <4>1. CASE f # e
          <5>1. epc'[f] = epc[f] /\ at'[f] = at[f] /\ held' = held /\ store' = store
            BY <1>1, <1>2, <3>1, <3>2, <4>1, Zenon DEF ElectorsTyped, boundary
          <5>2. \A r \in Stores : guard'[r] = f <=> guard[r] = f
            BY <1>1, <3>1, <3>3, <4>1, Zenon DEF ElectorsTyped
          <5> QED BY <1>1, <5>1, <5>2 DEF LocksOK, LocksOf
        <4>2. CASE f = e
          <5>1. epc'[e] = "boundary" /\ at'[e] = s /\ held' = held /\ store' = store
            BY <1>1, <1>2, <3>1, <3>2, Zenon DEF ElectorsTyped, boundary
          <5>2. \A r \in Stores : guard'[r] = e <=> r = s
            BY <1>1, <3>1, <3>2, <3>3 DEF ElectorsTyped, LocksOK, LocksOf
          <5> QED BY <1>1, <3>2, <3>3, <4>2, <5>1, <5>2, Zenon DEF LocksOK, LocksOf
        <4> QED BY <4>1, <4>2, Zenon
      <3>6. Guarded'
        <4>1. epc'[e] = "boundary" /\ at'[e] = s
          BY <1>1, <3>1, <3>2, Zenon DEF ElectorsTyped
        <4>2. \A f \in Electors : f # e => epc'[f] = epc[f] /\ at'[f] = at[f]
          BY <1>1, <3>1, <3>2, Zenon DEF ElectorsTyped
        <4> QED BY <1>1, <1>2, <1>5, <3>1, <4>1, <4>2, Zenon DEF Guarded, health
      <3>7. Intervals'
        <4> SUFFICES ASSUME NEW f \in Electors PROVE Interval(f)'
          BY Zenon DEF Intervals
        <4>1. CASE f # e
          <5>1. epc'[f] = epc[f] /\ at'[f] = at[f] /\ fact'[f] = fact[f] /\ seen' = seen
            BY <1>1, <3>1, <3>2, <4>1, Zenon DEF ElectorsTyped
          <5> QED BY <1>1, <1>2, <5>1, Zenon DEF Intervals, Interval, boundary, records
        <4>2. CASE f = e
          <5>1. at'[e] = s /\ seen' = seen
            BY <1>1, <3>1, <3>2, Zenon DEF ElectorsTyped
          <5>2. fact'[e] = None \/ (fact'[e] = fact[e]
                   /\ seen[e] = [store |-> s, revision |-> revision[s]])
            BY <1>1, <3>1, Zenon DEF ElectorsTyped, ObservedInterval
          <5> QED BY <1>1, <1>2, <4>2, <5>1, <5>2 DEF Intervals, Interval, boundary, records
        <4> QED BY <4>1, <4>2, Zenon
      <3> QED BY <3>4, <3>5, <3>6, <3>7, Zenon
    <2>4. ASSUME NEW l \in Locks, NEW label \in {"registry", "electing"},
                 held' = [held EXCEPT ![l] = e], epc' = [epc EXCEPT ![e] = label],
                 held[l] = Free, epc[e] # "idle", UNCHANGED <<guard, at, expected, seen, fact>>,
                 \/ l = "registry" /\ label = "registry" /\ epc[e] = "boundary"
                 \/ l = "health" /\ label = "electing" /\ epc[e] = "registry",
                 label = "electing" => state = "Healthy",
                 \A c \in Commands : scope[c] = "Vacant"
          PROVE  ElectorsTyped' /\ LocksOK' /\ Guarded' /\ Intervals'
      <3>1. ElectorsTyped'
        BY <1>1, <2>4, Zenon DEF ElectorsTyped
      <3>2. epc'[e] = label /\ \A f \in Electors : f # e => epc'[f] = epc[f]
        BY <1>1, <2>4, Zenon DEF ElectorsTyped
      <3>3. /\ \A k \in Locks : k # l => held'[k] = held[k]
            /\ held'[l] = e
        BY <1>1, <2>4, Zenon DEF ElectorsTyped
      <3>4. LocksOK'
        BY <1>1, <1>2, <2>4, <3>2, <3>3 DEF LocksOK, LocksOf, Locks, boundary
      <3>5. Guarded'
        BY <1>1, <1>2, <1>5, <2>4, <3>2, Zenon DEF Guarded, health
      <3>6. Intervals'
        BY <1>1, <1>2, <2>4, <3>2, Zenon DEF Intervals, Interval, boundary, records
      <3> QED BY <3>1, <3>4, <3>5, <3>6, Zenon
    <2>5. CASE TakeRegistry(e)
      BY <2>4, <2>5, Zenon DEF TakeRegistry, Locks, Unlocked
    <2>6. CASE TakeHealth(e)
      <3>1. \A c \in Commands : scope[c] = "Vacant"
        BY <1>1, <2>6, Zenon DEF Guarded, TakeHealth
      <3> QED BY <2>4, <2>6, <3>1, Zenon DEF TakeHealth, Locks, Unlocked
    <2>7. CASE Refused(e) \/ Elected(e)
      <3>1. /\ guard' = [s \in Stores |-> IF guard[s] = e THEN Free ELSE guard[s]]
            /\ held' = [l \in Locks |-> IF held[l] = e THEN Free ELSE held[l]]
            /\ at' = [at EXCEPT ![e] = NoStore] /\ expected' = [expected EXCEPT ![e] = 0]
            /\ epc' = [epc EXCEPT ![e] = "idle"]
            /\ UNCHANGED <<seen, fact>>
        BY <2>7, Zenon DEF Refused, Elected, ReleaseAll
      <3>2. ElectorsTyped'
        BY <1>1, <3>1 DEF ElectorsTyped
      <3>3. /\ epc'[e] = "idle"
            /\ \A f \in Electors : f # e => epc'[f] = epc[f] /\ at'[f] = at[f]
        BY <1>1, <3>1, Zenon DEF ElectorsTyped
      <3>4. LocksOK'
        <4> SUFFICES ASSUME NEW f \in Electors PROVE LocksOf(f)'
          BY Zenon DEF LocksOK
        <4>1. \A s \in Stores : guard'[s] = f <=> guard[s] = f /\ f # e
          BY <3>1, CoherenceAssumption, Zenon
        <4>2. \A l \in Locks : held'[l] = f <=> held[l] = f /\ f # e
          BY <3>1, CoherenceAssumption, Zenon
        <4> QED BY <1>1, <1>2, <3>3, <4>1, <4>2 DEF LocksOK, LocksOf, Locks, boundary
      <3>5. Guarded'
        BY <1>1, <1>2, <1>5, <3>3, Zenon DEF Guarded, health
      <3>6. Intervals'
        BY <1>1, <1>2, <3>1, <3>3, ZenonT(40) DEF Intervals, Interval, boundary, records
      <3> QED BY <3>2, <3>4, <3>5, <3>6, Zenon
    <2> QED BY <2>1, <2>2, <2>3, <2>5, <2>6, <2>7, Zenon
  <1> QED BY <1>3, <1>4, <1>6, Zenon DEF IInv, TypeOK, HomeTyped, ElectorsTyped

\* A step of a command.
WriterStep(c) ==
    \/ Reserve(c) \/ Abandon(c) \/ Begin(c) \/ Admit(c) \/ Missing(c) \/ Store(c)
    \/ Report(c) \/ Settle(c) \/ DropAdmission(c) \/ Finish(c) \/ Install(c)
    \/ Resolve(c) \/ Panic(c) \/ FailClosedOnWriterPanic(c) \/ Unwind(c)

\* A command leaves the stores, the recovery, the locks and the electors alone,
\* and takes a lock to change the health or a scope.
LEMMA CommandFrame ==
    ASSUME NEW c \in Commands, WriterStep(c)
    PROVE  /\ UNCHANGED <<store, admitted, closed, generation, recovery, locks, elector>>
           /\ state' = state \/ (state' = "Failed" /\ Unlocked("health"))
           /\ scope' = scope \/ Unlocked("registry")
  <1> USE Zenon DEF boundary, health, command
  <1>1. CASE Reserve(c) BY <1>1 DEF Reserve
  <1>2. CASE Abandon(c) BY <1>2 DEF Abandon
  <1>3. CASE Begin(c) BY <1>3 DEF Begin
  <1>4. CASE Admit(c) BY <1>4 DEF Admit
  <1>5. CASE Missing(c) BY <1>5 DEF Missing
  <1>6. CASE Store(c) BY <1>6 DEF Store
  <1>7. CASE Report(c) BY <1>7 DEF Report
  <1>8. CASE Settle(c) BY <1>8 DEF Settle
  <1>9. CASE DropAdmission(c) BY <1>9 DEF DropAdmission
  <1>10. CASE Finish(c) BY <1>10 DEF Finish
  <1>11. CASE Install(c) BY <1>11 DEF Install
  <1>12. CASE Resolve(c) BY <1>12 DEF Resolve
  <1>13. CASE Panic(c) BY <1>13 DEF Panic
  <1>14. CASE FailClosedOnWriterPanic(c) BY <1>14 DEF FailClosedOnWriterPanic
  <1>15. CASE Unwind(c) BY <1>15 DEF Unwind
  <1> QED BY <1>1, <1>2, <1>3, <1>4, <1>5, <1>6, <1>7, <1>8, <1>9, <1>10, <1>11, <1>12, <1>13,
     <1>14, <1>15 DEF WriterStep

\* Only Begin, Finish and Unwind touch a boundary, under its lock.
LEMMA CommandBoundary ==
    ASSUME IInv, NEW c \in Commands, WriterStep(c)
    PROVE  \/ UNCHANGED <<revision, active, poisoned>>
           \/ /\ of[c] \in Stores /\ guard[of[c]] = Free
              /\ \A s \in Stores : s # of[c] =>
                    revision'[s] = revision[s] /\ active'[s] = active[s]
  <1> USE DEF boundary
  <1>1. HomeTyped /\ OneWriter
    BY Types, Zenon DEF IInv
  <1>2. CASE Begin(c)
    BY <1>1, <1>2 DEF Begin, HomeTyped, OneWriter
  <1>3. CASE Finish(c)
    BY <1>1, <1>3 DEF Finish, HomeTyped, OneWriter
  <1>4. CASE Unwind(c)
    BY <1>1, <1>4 DEF Unwind, HomeTyped, OneWriter, command
  <1>5. CASE ~(Begin(c) \/ Finish(c) \/ Unwind(c))
    BY <1>5, Zenon DEF WriterStep, Reserve, Abandon, Admit, Missing, Store, Report, Settle,
       DropAdmission, Install, Resolve, Panic, FailClosedOnWriterPanic
  <1> QED BY <1>2, <1>3, <1>4, <1>5, Zenon

\* No lock an election holds is crossed by a command.
LEMMA CommandGuards ==
    ASSUME IInv, NEW c \in Commands, WriterStep(c)
    PROVE  ElectorsTyped' /\ LocksOK' /\ Guarded' /\ Lineage'
  <1>1. HomeTyped /\ ElectorsTyped /\ LocksOK /\ Guarded /\ Lineage
    BY Types, Zenon DEF IInv
  <1>2. /\ UNCHANGED <<store, admitted, closed, generation, recovery, locks, elector>>
        /\ state' = state \/ (state' = "Failed" /\ held["health"] = Free)
        /\ scope' = scope \/ held["registry"] = Free
    BY CommandFrame, Zenon DEF Unlocked
  <1>3. ElectorsTyped'
    BY <1>1, <1>2, Zenon DEF ElectorsTyped, locks, elector
  <1>4. LocksOK'
    BY <1>1, <1>2 DEF LocksOK, LocksOf, locks, elector
  <1>5. Lineage'
    BY <1>1, <1>2, Zenon DEF Lineage
  <1>6. Guarded'
    <2> SUFFICES ASSUME NEW e \in Electors
                 PROVE  /\ epc[e] # "idle" => Quiet(at[e])'
                        /\ epc[e] \in {"registry", "electing"}
                              => \A d \in Commands : scope'[d] = "Vacant"
                        /\ epc[e] = "electing" => state' = "Healthy"
      BY <1>2, Zenon DEF Guarded, elector
    <2>1. epc[e] \in {"registry", "electing"} => \A d \in Commands : scope'[d] = "Vacant"
      BY <1>1, <1>2 DEF LocksOK, LocksOf, Guarded
    <2>2. epc[e] = "electing" => state' = "Healthy"
      BY <1>1, <1>2 DEF LocksOK, LocksOf, Guarded
    <2>3. ASSUME epc[e] # "idle" PROVE Quiet(at[e])'
      <3>1. at[e] \in Stores /\ guard[at[e]] = e /\ Quiet(at[e])
        BY <1>1, <2>3, Zenon DEF LocksOK, LocksOf, Guarded
      <3>2. at'[e] = at[e] /\ closed' = closed
        BY <1>2, Zenon DEF elector
      <3>3. revision'[at[e]] = revision[at[e]] /\ active'[at[e]] = active[at[e]]
        BY CommandBoundary, <3>1, Zenon
      <3> QED BY <3>1, <3>2, <3>3, Zenon DEF Quiet
    <2> QED BY <2>1, <2>2, <2>3, Zenon
  <1> QED BY <1>3, <1>4, <1>5, <1>6, Zenon

\* What a command may not end: an interval that is observed and quiet.
LEMMA CommandIntervals ==
    ASSUME IInv, NEW c \in Commands, WriterStep(c)
    PROVE  Intervals'
  <1>1. HomeTyped /\ ElectorsTyped /\ LocksOK /\ Guarded /\ Lineage /\ OneWriter /\ Intervals
    BY Types, Zenon DEF IInv
  <1>2. UNCHANGED <<store, closed, epc, at, seen, fact>>
    BY CommandFrame, Zenon DEF elector
  <1> SUFFICES ASSUME NEW e \in Electors PROVE Interval(e)'
    BY Zenon DEF Intervals
  <1>3. Interval(e) /\ (seen[e].store # NoStore => seen[e].store \in Stores)
    BY <1>1 DEF Intervals, ElectorsTyped
  <1>4. CASE Begin(c)
    <2>1. /\ of[c] \in Stores /\ guard[of[c]] = Free /\ version' = version
          /\ revision' = [revision EXCEPT ![of[c]] = CheckedNext(@)]
          /\ active' = [active EXCEPT ![of[c]] = TRUE]
      BY <1>1, <1>4, Zenon DEF Begin, OneWriter, records
    <2>2. epc[e] # "idle" => at[e] \in Stores /\ at[e] # of[c]
      BY <1>1, <2>1 DEF LocksOK, LocksOf
    <2>3. \A s \in Stores : s # of[c] => revision'[s] = revision[s] /\ active'[s] = active[s]
      BY <1>1, <2>1, Zenon DEF HomeTyped
    <2>4. /\ revision[of[c]] \in 0..MaxRevision \cup {Exhausted}
          /\ revision'[of[c]] = CheckedNext(revision[of[c]])
      BY <1>1, <2>1, Zenon DEF HomeTyped
    <2>5. \/ revision'[of[c]] = Exhausted
          \/ revision[of[c]] # Exhausted /\ revision'[of[c]] = revision[of[c]] + 1
      BY <2>4 DEF CheckedNext
    <2>6. seen[e].store = of[c] => seen[e].revision \in Int
      BY <1>1 DEF ElectorsTyped
    <2>7. seen[e].store = of[c] =>
             /\ revision'[of[c]] # Exhausted => seen[e].revision <= revision'[of[c]]
             /\ seen[e].revision # revision'[of[c]]
      BY <1>3, <2>1, <2>4, <2>5, <2>6 DEF Interval
    <2> QED BY <1>2, <1>3, <2>1, <2>2, <2>3, <2>7, ZenonT(40) DEF Interval
  <1>5. CASE Store(c)
    <2>1. of[c] = store /\ active[store]
      <3>1. pc[c] = "admitted" /\ ~closed[of[c]]
        BY <1>5, Zenon DEF Store
      <3>2. of[c] \in Stores /\ of[c] <= store /\ active[of[c]]
        BY <1>1, <3>1 DEF OneWriter, Writing, Admitted
      <3> QED BY <1>1, <3>1, <3>2 DEF Lineage, HomeTyped
    <2>2. UNCHANGED <<revision, active>>
      BY <1>5, Zenon DEF Store, boundary
    <2>3. seen[e].store # NoStore /\ ~closed[seen[e].store] => seen[e].store = store
      BY <1>1, <1>3 DEF Interval, Lineage, HomeTyped
    <2> QED BY <1>2, <1>3, <2>1, <2>2, <2>3, Zenon DEF Interval
  <1>6. CASE ~Begin(c) /\ ~Store(c)
    <2>1. revision' = revision /\ version' = version
      BY <1>6, Zenon DEF WriterStep, Reserve, Abandon, Admit, Missing, Report, Settle,
         DropAdmission, Finish, Install, Resolve, Panic, FailClosedOnWriterPanic, Unwind,
         boundary, records
    <2>2. \A s \in Stores : active'[s] = active[s] \/ active'[s] = FALSE
      <3>1. active' = active \/ active' = [active EXCEPT ![of[c]] = FALSE]
        BY <1>6, Zenon DEF WriterStep, Reserve, Abandon, Admit, Missing, Report, Settle,
           DropAdmission, Finish, Install, Resolve, Panic, FailClosedOnWriterPanic, Unwind,
           boundary
      <3> QED BY <1>1, <3>1 DEF HomeTyped
    <2> QED BY <1>2, <1>3, <2>1, <2>2, Zenon DEF Interval
  <1> QED BY <1>4, <1>5, <1>6, Zenon

\* Two commands of a store are never past its writer's mutex together.
LEMMA CommandWrites ==
    ASSUME IInv, NEW c \in Commands, WriterStep(c)
    PROVE  OneWriter'
  <1>1. HomeTyped /\ Lineage /\ OneWriter /\ store' = store
    BY Types, CommandFrame, Zenon DEF IInv
  <1>2. ASSUME UNCHANGED <<of, active, poisoned>>,
               NEW label \in {"reserved", "custody", "idle"} \cup Writing,
               pc' = [pc EXCEPT ![c] = label],
               pc[c] \in Writing \/ label = "idle",
               label # "custody",
               label \in {"stored", "settling", "settled"} => of[c] = store
        PROVE  OneWriter'
    BY <1>1, <1>2 DEF OneWriter, HomeTyped, Writing, Admitted
  <1>3. CASE Reserve(c)
    <2>1. PICK s \in 1..store, a \in {"Ordinary", "Candidate"} : Calls(c, s, a)
      BY <1>1, <1>3 DEF Reserve, HomeTyped
    <2>2. /\ pc' = [pc EXCEPT ![c] = "reserved"] /\ of' = [of EXCEPT ![c] = s]
          /\ UNCHANGED <<active, poisoned>> /\ pc[c] = "idle" /\ s \in Stores /\ s <= store
      BY <1>1, <1>3, <2>1 DEF Reserve, Calls, Goto, boundary, HomeTyped
    <2> QED BY <1>1, <2>2 DEF OneWriter, HomeTyped, Writing, Admitted
  <1>4. CASE Abandon(c)
    <2>1. /\ pc' = [pc EXCEPT ![c] = "idle"] /\ of' = [of EXCEPT ![c] = NoStore]
          /\ UNCHANGED <<active, poisoned>>
      BY <1>4, Zenon DEF Abandon, Returns, Calls, Goto, boundary
    <2> QED BY <1>1, <2>1 DEF OneWriter, HomeTyped, Writing, Admitted
  <1>5. CASE Begin(c)
    <2>1. /\ pc' = [pc EXCEPT ![c] = "begun"] /\ UNCHANGED <<of, poisoned>>
          /\ active' = [active EXCEPT ![of[c]] = TRUE] /\ ~poisoned[of[c]]
          /\ \A d \in Commands : of[d] = of[c] => pc[d] \notin Writing
          /\ of[c] \in Stores /\ of[c] <= store
      BY <1>1, <1>5 DEF Begin, Goto, OneWriter
    <2>2. \A d \in Commands : d # c => pc'[d] = pc[d]
      BY <1>1, <2>1, Zenon DEF HomeTyped
    <2>3. \A d \in Commands : pc'[d] \in Writing => active'[of[d]] /\ ~poisoned[of[d]]
      BY <1>1, <2>1, <2>2 DEF OneWriter, HomeTyped, Writing, Admitted
    <2>4. \A d \in Commands :
             /\ pc'[d] \notin {"idle", "custody"} => of[d] \in Stores /\ of[d] <= store
             /\ pc'[d] \in {"stored", "settling", "settled"} => of[d] = store
      BY <1>1, <2>1, <2>2 DEF OneWriter, HomeTyped
    <2>5. \A d, f \in Commands : pc'[d] \in Writing /\ pc'[f] \in Writing /\ of[d] = of[f]
                                   => d = f
      BY <1>1, <2>1, <2>2, Zenon DEF OneWriter
    <2> QED BY <1>1, <2>1, <2>3, <2>4, <2>5, Zenon DEF OneWriter
  <1>6. CASE Admit(c)
    BY <1>2, <1>6, Zenon DEF Admit, Goto, boundary, Writing, Admitted
  <1>7. CASE Missing(c)
    BY <1>2, <1>7, Zenon DEF Missing, Goto, boundary, Writing, Admitted
  <1>8. CASE Store(c)
    <2>1. pc[c] = "admitted" /\ ~closed[of[c]] /\ of[c] \in Stores /\ of[c] <= store
      BY <1>1, <1>8, Zenon DEF Store, OneWriter
    <2>2. of[c] = store
      BY <1>1, <2>1 DEF HomeTyped, Lineage
    <2> QED BY <1>2, <1>8, <2>2, Zenon DEF Store, Goto, boundary, Writing, Admitted
  <1>9. CASE Report(c)
    BY <1>1, <1>2, <1>9, Zenon DEF Report, Goto, boundary, Writing, Admitted, OneWriter
  <1>10. CASE Settle(c)
    <2>1. CASE pc[c] = "settling"
      BY <1>1, <1>2, <1>10, <2>1, Zenon DEF Settle, Goto, boundary, Writing, Admitted, OneWriter
    <2>2. CASE pc[c] = "refused"
      BY <1>2, <1>10, <2>2, Zenon DEF Settle, Goto, boundary, Writing, Admitted
    <2> QED BY <1>10, <2>1, <2>2, Zenon DEF Settle
  <1>11. CASE DropAdmission(c)
    BY <1>2, <1>11, Zenon DEF DropAdmission, Goto, boundary, Writing, Admitted
  <1>12. CASE Finish(c) \/ (Unwind(c) /\ scope[c] # "Reserved")
    <2>1. PICK label \in {"idle", "custody"} :
             /\ pc' = [pc EXCEPT ![c] = label] /\ of' = [of EXCEPT ![c] = NoStore]
             /\ active' = [active EXCEPT ![of[c]] = FALSE]
             /\ poisoned' = poisoned \/ poisoned' = [poisoned EXCEPT ![of[c]] = TRUE]
             /\ pc[c] \in Writing
      BY <1>12 DEF Finish, Unwind, Returns, Calls, Goto, Writing, Admitted
    <2>2. \A d \in Commands : d # c => pc'[d] = pc[d] /\ of'[d] = of[d]
      BY <1>1, <2>1, Zenon DEF HomeTyped
    <2>3. pc'[c] \in {"idle", "custody"} /\ pc'[c] \notin Writing
      BY <1>1, <2>1 DEF HomeTyped, Writing, Admitted
    <2>4. \A d \in Commands : d # c /\ pc[d] \in Writing =>
             /\ of[d] \in Stores /\ of[d] # of[c]
             /\ active'[of[d]] = active[of[d]] /\ poisoned'[of[d]] = poisoned[of[d]]
      <3>1. \A d \in Commands : d # c /\ pc[d] \in Writing => of[d] \in Stores /\ of[d] # of[c]
        BY <1>1, <2>1, Zenon DEF OneWriter, Writing, Admitted
      <3>2. \A s \in Stores : s # of[c] => active'[s] = active[s] /\ poisoned'[s] = poisoned[s]
        BY <1>1, <2>1, Zenon DEF HomeTyped
      <3> QED BY <3>1, <3>2, Zenon
    <2>5. \A d \in Commands : pc'[d] \in Writing => active'[of'[d]] /\ ~poisoned'[of'[d]]
      <3>1. \A d \in Commands : pc[d] \in Writing => active[of[d]] /\ ~poisoned[of[d]]
        BY <1>1, Zenon DEF OneWriter
      <3> QED BY <2>2, <2>3, <2>4, <3>1, Zenon
    <2>6. \A d \in Commands :
             /\ pc'[d] \notin {"idle", "custody"} => of'[d] \in Stores /\ of'[d] <= store
             /\ pc'[d] \in {"stored", "settling", "settled"} => of'[d] = store
      BY <1>1, <2>2, <2>3 DEF OneWriter
    <2>7. \A d, f \in Commands : pc'[d] \in Writing /\ pc'[f] \in Writing /\ of'[d] = of'[f]
                                   => d = f
      BY <1>1, <2>2, <2>3, Zenon DEF OneWriter
    <2> QED BY <1>1, <2>5, <2>6, <2>7, Zenon DEF OneWriter
  <1>13. CASE Install(c)
    <2>1. /\ pc' = [pc EXCEPT ![c] = "idle"] /\ UNCHANGED <<of, active, poisoned>>
      BY <1>13, Zenon DEF Install, Goto, boundary
    <2> QED BY <1>1, <2>1 DEF OneWriter, HomeTyped, Writing, Admitted
  <1>14. CASE Resolve(c) \/ (Unwind(c) /\ scope[c] = "Reserved")
    <2>1. UNCHANGED <<pc, of, active, poisoned>>
      BY <1>14, Zenon DEF Resolve, Unwind, boundary, command
    <2> QED BY <1>1, <2>1, Zenon DEF OneWriter
  <1>15. CASE Panic(c)
    BY <1>2, <1>15, Zenon DEF Panic, Goto, boundary, Writing, Admitted
  <1>16. CASE FailClosedOnWriterPanic(c)
    BY <1>2, <1>16, Zenon DEF FailClosedOnWriterPanic, Goto, boundary, Writing, Admitted
  <1> QED BY <1>3, <1>4, <1>5, <1>6, <1>7, <1>8, <1>9, <1>10, <1>11, <1>12, <1>13, <1>14, <1>15,
     <1>16, Zenon DEF WriterStep

\* A command keeps its scope until its effect is known or passed on.
LEMMA CommandEffects ==
    ASSUME IInv, NEW c \in Commands, WriterStep(c)
    PROVE  Effects'
  <1>1. HomeTyped /\ Effects
    BY Types, Zenon DEF IInv
  <1>2. recovery' = recovery /\ (state' = state \/ state' = "Failed")
    BY CommandFrame, Zenon
  <1>3. \A d \in Commands : d # c => /\ pc'[d] = pc[d] /\ scope'[d] = scope[d]
                                      /\ outcome'[d] = outcome[d] /\ doubt'[d] = doubt[d]
    BY <1>1 DEF HomeTyped, WriterStep, Reserve, Abandon, Begin, Admit, Missing, Store, Report,
       Settle, DropAdmission, Finish, Install, Resolve, Panic, FailClosedOnWriterPanic, Unwind,
       Goto, command
  <1>4. Effect(c)
    BY <1>1, Zenon DEF Effects
  <1>5. Effect(c)'
    <2> USE <1>1, <1>2, <1>4 DEF Effect, HomeTyped, Goto
    <2>1. CASE Reserve(c)
      BY <2>1 DEF Reserve
    <2>2. CASE Abandon(c)
      BY <2>2 DEF Abandon
    <2>3. CASE Begin(c)
      BY <2>3 DEF Begin
    <2>4. CASE Admit(c)
      BY <2>4 DEF Admit
    <2>5. CASE Missing(c)
      BY <2>5 DEF Missing
    <2>6. CASE Store(c)
      BY <2>6 DEF Store
    <2>7. CASE Report(c)
      BY <2>7 DEF Report
    <2>8. CASE Settle(c)
      BY <2>8 DEF Settle
    <2>9. CASE DropAdmission(c)
      BY <2>9 DEF DropAdmission
    <2>10. CASE Finish(c)
      BY <2>10 DEF Finish
    <2>11. CASE Install(c)
      BY <2>11 DEF Install
    <2>12. CASE Resolve(c)
      BY <2>12 DEF Resolve
    <2>13. CASE Panic(c)
      BY <2>13 DEF Panic
    <2>14. CASE FailClosedOnWriterPanic(c)
      BY <2>14 DEF FailClosedOnWriterPanic
    <2>15. CASE Unwind(c)
      BY <2>15 DEF Unwind, command
    <2> QED BY <2>1, <2>2, <2>3, <2>4, <2>5, <2>6, <2>7, <2>8, <2>9, <2>10, <2>11, <2>12, <2>13,
       <2>14, <2>15, Zenon DEF WriterStep
  <1> QED BY <1>1, <1>2, <1>3, <1>5, ZenonT(40) DEF Effects, Effect

\* A command keeps the types of what it changes.
LEMMA CommandTyped ==
    ASSUME IInv, NEW c \in Commands, WriterStep(c)
    PROVE  HomeTyped'
  <1>1. HomeTyped /\ OneWriter /\ Lineage
    BY Types, Zenon DEF IInv
  <1> USE <1>1 DEF HomeTyped, boundary, health, records, Goto
  <1>2. CASE Reserve(c)
    <2>1. of' \in [Commands -> Stores \cup {NoStore}]
      <3>1. 1..store \subseteq Stores
        OBVIOUS
      <3> QED BY <1>2, <3>1, Zenon DEF Reserve, Calls
    <2>2. access' \in [Commands -> {"Ordinary", "Candidate"}]
      BY <1>2, Zenon DEF Reserve, Calls
    <2>3. /\ pc' \in [Commands -> {"idle", "reserved", "custody"} \cup Writing]
          /\ scope' \in [Commands -> {"Vacant", "Reserved", "Verifying"}]
      BY <1>2, Zenon DEF Reserve
    <2> QED BY <1>2, <2>1, <2>2, <2>3, Zenon DEF Reserve
  <1>3. CASE Abandon(c)
    BY <1>3 DEF Abandon, Returns, Calls, Writing, Admitted
  <1>4. CASE Begin(c)
    <2>1. revision' \in [Stores -> 0..MaxRevision \cup {Exhausted}]
      <3>1. \A r \in 0..MaxRevision \cup {Exhausted} :
               CheckedNext(r) \in 0..MaxRevision \cup {Exhausted}
        BY DEF CheckedNext
      <3> QED BY <1>4, <3>1, Zenon DEF Begin
    <2>2. active' \in [Stores -> BOOLEAN]
      BY <1>4, Zenon DEF Begin
    <2>3. pc' \in [Commands -> {"idle", "reserved", "custody"} \cup Writing]
      BY <1>4, Zenon DEF Begin, Writing
    <2> QED BY <1>4, <2>1, <2>2, <2>3, Zenon DEF Begin
  <1>5. CASE Admit(c)
    BY <1>5 DEF Admit, Writing, Admitted
  <1>6. CASE Missing(c)
    BY <1>6, Zenon DEF Missing, Writing, Admitted
  <1>7. CASE Store(c)
    <2>1. version' \in 0..MaxVersion /\ durable' \in 0..MaxVersion /\ stamp' \in 0..MaxVersion
      BY <1>7 DEF Store
    <2>2. pc' \in [Commands -> {"idle", "reserved", "custody"} \cup Writing]
      BY <1>7, Zenon DEF Store, Writing, Admitted
    <2>3. /\ outcome' \in [Commands -> {"none", "NotCommitted", "Committed", "Indeterminate"}]
          /\ doubt' \in [Commands -> {"none", "open", "orphan"}]
      BY <1>7, Zenon DEF Store
    <2> QED BY <1>7, <2>1, <2>2, <2>3, Zenon DEF Store
  <1>8. CASE Report(c)
    BY <1>8 DEF Report, Writing, Admitted
  <1>9. CASE Settle(c)
    BY <1>9, Zenon DEF Settle, Writing, Admitted
  <1>10. CASE DropAdmission(c)
    BY <1>10, Zenon DEF DropAdmission, Writing, Admitted
  <1>11. CASE Finish(c)
    BY <1>11, Zenon DEF Finish, Returns, Calls, Writing, Admitted
  <1>12. CASE Install(c)
    BY <1>12 DEF Install, Writing, Admitted
  <1>13. CASE Resolve(c)
    BY <1>13 DEF Resolve, Writing, Admitted
  <1>14. CASE Panic(c)
    BY <1>14 DEF Panic, Writing, Admitted
  <1>15. CASE FailClosedOnWriterPanic(c)
    BY <1>15 DEF FailClosedOnWriterPanic, Writing, Admitted
  <1>16. CASE Unwind(c)
    <2>1. CASE scope[c] = "Reserved"
      <3>1. scope' \in [Commands -> {"Vacant", "Reserved", "Verifying"}]
        BY <1>16, <2>1, ZenonT(40) DEF Unwind
      <3> QED BY <1>16, <2>1, <3>1, Zenon DEF Unwind, command
    <2>2. CASE scope[c] # "Reserved"
      <3>1. active' \in [Stores -> BOOLEAN] /\ poisoned' \in [Stores -> BOOLEAN]
        BY <1>16, <2>2, Zenon DEF Unwind
      <3>2. /\ pc' \in [Commands -> {"idle", "reserved", "custody"} \cup Writing]
            /\ of' \in [Commands -> Stores \cup {NoStore}]
            /\ access' \in [Commands -> {"Ordinary", "Candidate"}]
        BY <1>16, <2>2, Zenon DEF Unwind, Returns, Calls
      <3> QED BY <1>16, <2>2, <3>1, <3>2, Zenon DEF Unwind
    <2> QED BY <2>1, <2>2, Zenon
  <1> QED BY <1>2, <1>3, <1>4, <1>5, <1>6, <1>7, <1>8, <1>9, <1>10, <1>11, <1>12, <1>13, <1>14,
     <1>15, <1>16, Zenon DEF WriterStep

\* Every step of a command keeps the invariant.
LEMMA HomeCommandKeeps ==
    ASSUME IInv, NEW c \in Commands, WriterStep(c)
    PROVE  IInv'
  <1>1. HomeTyped' /\ ElectorsTyped'
    BY CommandTyped, CommandGuards, Zenon
  <1> QED BY <1>1, CommandGuards, CommandWrites, CommandEffects, CommandIntervals, Zenon
     DEF IInv, TypeOK, HomeTyped, ElectorsTyped

\* A failure of the home and the steps of its recovery.
RecoveryStep ==
    \/ HomeFails \/ BeginRecovery \/ Reopen \/ PrepareCandidate
    \/ ValidateCandidate \/ PublishCandidate \/ AbortCandidate

\* They close boundaries under their locks, and the gate under its own.
LEMMA RecoveryKeeps ==
    ASSUME IInv, RecoveryStep
    PROVE  IInv'
  <1>1. HomeTyped /\ ElectorsTyped /\ LocksOK /\ Guarded /\ Lineage /\ OneWriter
        /\ Effects /\ Intervals
    BY Types, Zenon DEF IInv
  <1> USE DEF boundary, health, command, records
  <1>2. /\ UNCHANGED <<revision, active, poisoned, scope, guard, held, pc, of, access, outcome,
                       stamp, elector>>
        /\ store' = store \/ (Reopen /\ store' = store + 1)
        /\ closed' = closed \/ (guard[store] = Free /\ closed' = [closed EXCEPT ![store] = TRUE])
        /\ state' = state \/ held["health"] = Free
    BY Zenon DEF RecoveryStep, HomeFails, BeginRecovery, Reopen, PrepareCandidate,
       ValidateCandidate, PublishCandidate, AbortCandidate, Close, Unlocked, locks
  <1>3. HomeTyped'
    <2> USE <1>1 DEF HomeTyped
    <2>1. CASE HomeFails BY <2>1 DEF HomeFails
    <2>2. CASE BeginRecovery BY <2>2 DEF BeginRecovery
    <2>3. CASE Reopen
      <3>1. closed' \in [Stores -> BOOLEAN]
        BY <1>2, Zenon
      <3>2. store' \in Stores /\ admitted' \in [Stores -> 0..MaxGeneration]
        <4>1. store + 1 \in Stores /\ generation + 1 \in 0..MaxGeneration
          BY <2>3 DEF Reopen, Lineage
        <4> QED BY <2>3, <4>1, Zenon DEF Reopen
      <3>3. version' \in 0..MaxVersion /\ durable' \in 0..MaxVersion
        BY <2>3, ZenonT(40) DEF Reopen
      <3>4. doubt' \in [Commands -> {"none", "open", "orphan"}]
        BY <2>3 DEF Reopen
      <3>5. /\ state' \in {"Healthy", "Failed", "Reopening"} /\ generation' = generation
            /\ recovery' \in {"none", "draining", "reopened", "candidate", "validated"}
        BY <2>3, Zenon DEF Reopen
      <3> QED BY <1>2, <3>1, <3>2, <3>3, <3>4, <3>5, Zenon
    <2>4. CASE PrepareCandidate BY <2>4 DEF PrepareCandidate, Lineage
    <2>5. CASE ValidateCandidate BY <2>5 DEF ValidateCandidate
    <2>6. CASE PublishCandidate BY <2>6 DEF PublishCandidate
    <2>7. CASE AbortCandidate
      <3>1. closed' \in [Stores -> BOOLEAN]
        BY <1>2, Zenon
      <3> QED BY <2>7, <3>1, Zenon DEF AbortCandidate
    <2> QED BY <2>1, <2>2, <2>3, <2>4, <2>5, <2>6, <2>7, Zenon DEF RecoveryStep
  <1>4. ElectorsTyped'
    BY <1>1, <1>2, Zenon DEF ElectorsTyped, elector
  <1>5. store \in Nat /\ store <= store'
    BY <1>1, <1>2 DEF HomeTyped
  <1>6. LocksOK'
    BY <1>1, <1>2, <1>3, <1>5, SMTT(20) DEF LocksOK, LocksOf, elector, HomeTyped, ElectorsTyped
  <1>7. Guarded'
    <2>1. ASSUME NEW e \in Electors, epc[e] # "idle" PROVE Quiet(at[e])'
      <3>1. at[e] \in Stores /\ guard[at[e]] = e /\ Quiet(at[e])
        BY <1>1, <2>1 DEF LocksOK, LocksOf, Guarded
      <3>2. closed'[at[e]] = closed[at[e]]
        BY <1>1, <1>2, <3>1 DEF HomeTyped
      <3> QED BY <1>2, <3>1, <3>2, Zenon DEF Quiet, elector
    <2>2. ASSUME NEW e \in Electors, epc[e] = "electing" PROVE state' = "Healthy"
      BY <1>1, <1>2, <2>2 DEF LocksOK, LocksOf, Guarded
    <2> QED BY <1>1, <1>2, <2>1, <2>2, Zenon DEF Guarded, elector
  <1>8. Lineage'
    <2> USE <1>1 DEF HomeTyped, Lineage
    <2>1. CASE HomeFails BY <2>1 DEF HomeFails
    <2>2. CASE BeginRecovery BY <2>2 DEF BeginRecovery
    <2>3. CASE Reopen BY <2>3, SMTT(20) DEF Reopen, Close
    <2>4. CASE PrepareCandidate BY <2>4 DEF PrepareCandidate
    <2>5. CASE ValidateCandidate BY <2>5 DEF ValidateCandidate
    <2>6. CASE PublishCandidate BY <2>6 DEF PublishCandidate
    <2>7. CASE AbortCandidate BY <2>7 DEF AbortCandidate, Close
    <2> QED BY <2>1, <2>2, <2>3, <2>4, <2>5, <2>6, <2>7, Zenon DEF RecoveryStep
  <1>9. OneWriter'
    <2>1. store' = store \/ \A c \in Commands : pc[c] \notin Admitted
      BY <1>2, Zenon DEF Reopen, NoAdmission
    <2>2. \A c \in Commands :
             pc[c] \notin {"idle", "custody"} => of[c] \in Stores /\ of[c] <= store'
      <3>1. store' \in Nat
        BY <1>3 DEF HomeTyped
      <3>2. \A c \in Commands :
               pc[c] \notin {"idle", "custody"} => of[c] \in Stores /\ of[c] <= store
        BY <1>1, Zenon DEF OneWriter
      <3> QED BY <1>5, <3>1, <3>2
    <2>3. \A c \in Commands : pc[c] \in {"stored", "settling", "settled"} => of[c] = store'
      BY <1>1, <2>1, Zenon DEF OneWriter, Admitted
    <2> QED BY <1>1, <1>2, <2>2, <2>3, Zenon DEF OneWriter
  <1>10. Effects'
    <2> SUFFICES ASSUME NEW c \in Commands PROVE Effect(c)'
      BY Zenon DEF Effects
    <2> USE <1>1 DEF Effects, Effect
    <2>1. CASE HomeFails BY <2>1 DEF HomeFails
    <2>2. CASE BeginRecovery BY <2>2 DEF BeginRecovery
    <2>3. CASE Reopen BY <2>3, SMTT(20) DEF Reopen, NoAdmission, Admitted
    <2>4. CASE PrepareCandidate BY <2>4 DEF PrepareCandidate
    <2>5. CASE ValidateCandidate BY <2>5 DEF ValidateCandidate
    <2>6. CASE PublishCandidate BY <2>6 DEF PublishCandidate, NoAdmission, Admitted
    <2>7. CASE AbortCandidate BY <2>7 DEF AbortCandidate
    <2> QED BY <2>1, <2>2, <2>3, <2>4, <2>5, <2>6, <2>7, Zenon DEF RecoveryStep
  <1>11. Intervals'
    <2> SUFFICES ASSUME NEW e \in Electors PROVE Interval(e)'
      BY Zenon DEF Intervals
    <2>1. Interval(e) /\ (seen[e].store # NoStore => seen[e].store \in Stores)
      BY <1>1, Zenon DEF Intervals, ElectorsTyped
    <2>2. seen[e].store # NoStore => seen[e].store <= store'
      <3>1. seen[e].store # NoStore => seen[e].store <= store
        BY <2>1, Zenon DEF Interval
      <3>2. store' \in Nat
        BY <1>3 DEF HomeTyped
      <3> QED BY <1>5, <2>1, <3>1, <3>2
    <2>3. seen[e].store # NoStore /\ ~closed'[seen[e].store]
             => ~closed[seen[e].store] /\ version' = version
      <3>1. CASE Reopen
        <4>1. closed' = [closed EXCEPT ![store] = TRUE]
          BY <3>1, Zenon DEF Reopen, Close
        <4>2. \A s \in Stores : s <= store => closed'[s]
          BY <1>1, <4>1 DEF Lineage, HomeTyped
        <4> QED BY <2>1, <4>2, Zenon DEF Interval
      <3>2. CASE ~Reopen
        <4>1. version' = version
          BY <3>2, Zenon DEF RecoveryStep, HomeFails, BeginRecovery, PrepareCandidate,
             ValidateCandidate, PublishCandidate, AbortCandidate
        <4>2. \A s \in Stores : closed[s] => closed'[s]
          BY <1>1, <1>2, Zenon DEF HomeTyped
        <4> QED BY <2>1, <4>1, <4>2, Zenon
      <3> QED BY <3>1, <3>2, Zenon
    <2> QED BY <1>2, <2>1, <2>2, <2>3, Zenon DEF Interval, elector
  <1> QED BY <1>3, <1>4, <1>6, <1>7, <1>8, <1>9, <1>10, <1>11, Zenon
     DEF IInv, TypeOK, HomeTyped, ElectorsTyped

\* Every step keeps the invariant.
LEMMA NextIInv == IInv /\ [Next]_vars => IInv'
  <1> SUFFICES ASSUME IInv, [Next]_vars PROVE IInv'
    BY Zenon
  <1>1. ASSUME NEW c \in Commands, WriterStep(c) PROVE IInv'
    BY <1>1, HomeCommandKeeps, Zenon
  <1>2. CASE RecoveryStep
    BY <1>2, RecoveryKeeps, Zenon
  <1>3. ASSUME NEW e \in Electors,
               \/ Observe(e) \/ Read(e) \/ TakeBoundary(e) \/ TakeRegistry(e)
               \/ TakeHealth(e) \/ Refused(e) \/ Elected(e)
        PROVE  IInv'
    BY <1>3, ElectorKeeps, Zenon
  <1>4. CASE UNCHANGED vars
    <2>1. UNCHANGED <<boundary, scope, health, locks, command, records, elector>>
      BY <1>4, Zenon DEF vars
    <2>2. HomeTyped' /\ ElectorsTyped'
      BY <2>1, Types, Zenon DEF IInv, HomeTyped, ElectorsTyped, boundary, health, locks, command,
         records, elector
    <2>3. LocksOK'
      BY <2>1 DEF IInv, LocksOK, LocksOf, boundary, locks, elector
    <2>6. Guarded'
      BY <2>1, Zenon DEF IInv, Guarded, Quiet, boundary, health, elector
    <2>4. Lineage' /\ OneWriter' /\ Effects'
      BY <2>1, Zenon DEF IInv, Lineage, OneWriter, Effects, Effect, boundary, health, command
    <2>5. Intervals'
      BY <2>1, Zenon DEF IInv, Intervals, Interval, boundary, records, elector
    <2> QED BY <2>2, <2>3, <2>4, <2>5, <2>6, Zenon DEF IInv, TypeOK, HomeTyped, ElectorsTyped
  <1> QED BY <1>1, <1>2, <1>3, <1>4, Zenon DEF Next, WriterStep, RecoveryStep

(* Every reachable state of the three locks of coherence.rs and of what they *)
(* guard satisfies the invariant: an election holds exactly the locks it has *)
(* reached, every store but the last is closed, and an observed interval     *)
(* that has not ended is current.                                            *)
THEOREM Safe == Spec => []IInv
  BY InitIInv, NextIInv, PTL DEF Spec

\* What holds while the callback of an election runs.
Frozen(e) ==
    /\ at[e] = store
    /\ \A c \in Commands :
          /\ pc[c] \in Writing => of[c] # store
          /\ pc[c] \notin Admitted \cup {"custody"}
          /\ doubt[c] = "none"

\* Behind the three locks the store is the last one, none of its commands is
\* writing, none of any store is admitted, and no effect is in doubt.
LEMMA NobodyWrites ==
    ASSUME IInv, NEW e \in Electors, Electing(e)
    PROVE  Frozen(e)
  <1>1. HomeTyped /\ LocksOK /\ Guarded /\ Lineage /\ OneWriter /\ Effects
    BY Types, Zenon DEF IInv
  <1>2. epc[e] = "electing"
    BY Zenon DEF Electing
  <1>3. /\ at[e] \in Stores /\ at[e] <= store /\ Quiet(at[e])
        /\ state = "Healthy" /\ recovery = "none" /\ \A c \in Commands : scope[c] = "Vacant"
    BY <1>1, <1>2 DEF LocksOK, LocksOf, Guarded, Lineage
  <1>4. at[e] = store /\ ~active[store]
    BY <1>1, <1>3 DEF HomeTyped, Lineage, Quiet
  <1>5. ASSUME NEW c \in Commands
        PROVE  /\ pc[c] \in Writing => of[c] # store
               /\ pc[c] \notin Admitted \cup {"custody"} /\ doubt[c] = "none"
    <2>1. pc[c] \in Writing => of[c] # store
      BY <1>1, <1>4, Zenon DEF OneWriter
    <2>2. Effect(c) /\ scope[c] = "Vacant"
      BY <1>1, <1>3, Zenon DEF Effects
    <2>3. pc[c] \notin Admitted \cup {"custody"}
      BY <1>1, <1>3, <2>1, <2>2 DEF Effect, OneWriter, Writing, Admitted
    <2>4. doubt[c] = "none"
      BY <1>1, <1>3, <2>2, <2>3 DEF Effect, HomeTyped, Admitted
    <2> QED BY <2>1, <2>3, <2>4, Zenon
  <1> QED BY <1>4, <1>5, Zenon DEF Frozen

\* A step taken while a callback runs needs a lock the election holds, or
\* leaves the home alone.
LEMMA NothingChanges ==
    ASSUME IInv, [Next]_vars, NEW e \in Electors, Electing(e)
    PROVE  UNCHANGED <<store, Boundary(store), scope, health, doubt, records>>
  <1>1. HomeTyped /\ LocksOK /\ Guarded /\ Lineage /\ OneWriter /\ Frozen(e)
    BY Types, NobodyWrites, Zenon DEF IInv
  <1>2. /\ held["registry"] # Free /\ held["health"] # Free /\ guard[store] # Free
        /\ state = "Healthy" /\ recovery = "none"
    BY <1>1 DEF LocksOK, LocksOf, Guarded, Lineage, Frozen, Electing, HomeTyped
  <1>3. ASSUME NEW c \in Commands, WriterStep(c)
        PROVE  UNCHANGED <<store, Boundary(store), scope, health, doubt, records>>
    <2>1. UNCHANGED <<store, closed, generation, recovery, state, scope>>
      BY <1>2, <1>3, CommandFrame, Zenon DEF Unlocked
    <2>2. revision'[store] = revision[store] /\ active'[store] = active[store]
      BY <1>1, <1>2, <1>3, CommandBoundary, Zenon DEF HomeTyped
    <2>3. pc[c] \notin Admitted
      BY <1>1, Zenon DEF Frozen
    <2>4. UNCHANGED <<doubt, records>>
      BY <1>2, <1>3, <2>3, Zenon DEF WriterStep, Reserve, Abandon, Begin, Admit, Missing, Store,
         Report, Settle, DropAdmission, Finish, Install, Resolve, Panic,
         FailClosedOnWriterPanic, Unwind, Unlocked, Admitted, command
    <2> QED BY <2>1, <2>2, <2>4, Zenon DEF Boundary, health
  <1>4. ~RecoveryStep
    BY <1>2, Zenon DEF RecoveryStep, HomeFails, BeginRecovery, Reopen, PrepareCandidate,
       ValidateCandidate, PublishCandidate, AbortCandidate, Unlocked
  <1>5. ASSUME NEW f \in Electors,
               \/ Observe(f) \/ Read(f) \/ TakeBoundary(f) \/ TakeRegistry(f)
               \/ TakeHealth(f) \/ Refused(f) \/ Elected(f)
        PROVE  UNCHANGED <<store, Boundary(store), scope, health, doubt, records>>
    <2>1. UNCHANGED <<boundary, scope, health, command, records>>
      BY <1>5, Zenon DEF Observe, Read, TakeBoundary, TakeRegistry, TakeHealth, Refused, Elected
    <2> QED BY <2>1, Zenon DEF Boundary, boundary, command
  <1>6. CASE UNCHANGED vars
    BY <1>6, Zenon DEF vars, Boundary, boundary, command
  <1> QED BY <1>3, <1>4, <1>5, <1>6, Zenon DEF Next, WriterStep, RecoveryStep

(* An observed election of coherence.rs publishes only records that are      *)
(* still what the home holds, whatever commands, failures and recoveries,    *)
(* through whatever store, came between the observation and the election.    *)
THEOREM ElectionsPublishCurrentFacts == Spec => []PublishedIsCurrent
  <1>1. IInv => PublishedIsCurrent
    <2> SUFFICES ASSUME IInv, NEW e \in Electors, epc[e] = "electing", fact[e] # None
                 PROVE  fact[e] = version
      BY Zenon DEF PublishedIsCurrent
    <2>1. Quiet(at[e]) /\ at[e] \in Stores /\ Interval(e)
      BY DEF IInv, Guarded, LocksOK, LocksOf, Intervals
    <2> QED BY <2>1 DEF Interval, Quiet
  <1> QED BY <1>1, Safe, PTL

(* While the callback of an election runs its store is the last one, no      *)
(* command can mutate the home, none is in doubt, and the store's boundary,  *)
(* the scopes, the health and the records stay as they are, however many     *)
(* commands of replaced stores are still on their way out.                   *)
THEOREM ElectionsFreezeTheHome == Spec => ElectionFreezesHome
  <1> DEFINE Still == \A e \in Electors : Electing(e) => Frozen(e)
  <1> DEFINE Keeps == \A e \in Electors : Electing(e) =>
          UNCHANGED <<store, Boundary(store), scope, health, doubt, records>>
  <1>1. IInv => TypeOK /\ Still
    BY NobodyWrites, Zenon DEF IInv
  <1>2. IInv /\ [Next]_vars => [Keeps]_vars
    BY NothingChanges, Zenon
  <1>3. Spec => [](TypeOK /\ Still) /\ [][Keeps]_vars
    <2> HIDE DEF Still, Keeps
    <2> QED BY <1>1, <1>2, Safe, PTL DEF Spec
  <1> QED BY <1>3, Zenon DEF ElectionFreezesHome, Frozen
=============================================================================
