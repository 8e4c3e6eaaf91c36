------------------------ MODULE HomeBoundaryProofs --------------------------
(* The two gates at a home's boundary. HealthGate is proved for every finite *)
(* set of threads, every admission capacity and every bound on generations:  *)
(* its invariants, the action property about failures during recovery, and   *)
(* that it implements HomeAvailability. MutationObservation is proved for    *)
(* every set of writers and electors and every bound on revisions and        *)
(* registrations.                                                            *)
EXTENDS HealthGate, MutationObservation, TLAPS

\* How the owner's position in open, recover and close bounds the gate's state.
Phases ==
    /\ maintenance <=> owner \in {"begin_wait", "begin_drain", "reopen", "candidate"}
    /\ state = "Opening" => owner \in {"initial", "retire"}
    /\ state = "Healthy" => owner \in {"held", "retire"}
    /\ state = "Reopening" => maintenance
    /\ maintenance /\ signalled => state = "Failed"

\* An operation that borrows a candidate is in progress only while the owner
\* has that candidate, and then nobody else is admitted.
Borrows ==
    \A t \in Threads :
        /\ pc[t] # "idle" /\ want[t].state = "Opening" => owner = "initial"
        /\ pc[t] # "idle" /\ want[t].state = "Reopening" => owner = "candidate"
        /\ want[t].state # "Failed"
        /\ owner = "candidate" /\ held[t] # 0 => want[t].state = "Reopening"

\* The generation changes only while no admission is held.  The store is one
\* ahead of the gate only after a refused prepare_candidate, when nothing is
\* admitted: this is why retire_generation may return early.
GenerationsAgree ==
    /\ store_gen = generation \/ store_gen = generation + 1
    /\ state \in {"Opening", "Healthy"} \/ owner \in {"initial", "candidate"}
          => store_gen = generation
    /\ store_gen # generation => Holders = {}
    /\ \A t \in Threads : held[t] # 0 => held[t] = generation
    /\ published <= generation
    /\ owner \in {"initial", "candidate"} => published < generation

IInv ==
    /\ TypeOK /\ AdmissionsCounted /\ NoLostWakeup /\ ExclusiveReopen
    /\ Phases /\ Borrows /\ GenerationsAgree

USE ThreadsAssumption, AdmissionsAssumption, GenerationAssumption DEF States, Candidate,
   Generations

\* What the proofs use of the cardinality of a finite set: no holder is counted
\* as 0, and one more or one less holder changes the count by one.
Countable ==
    /\ active = 0 <=> Holders = {}
    /\ \A t \in Threads :
          t \notin Holders => Cardinality(Holders \cup {t}) = Cardinality(Holders) + 1
    /\ \A t \in Holders : Cardinality(Holders \ {t}) = Cardinality(Holders) - 1

\* admit_state counts the thread that was not yet admitted.
LEMMA HoldersGrow ==
    ASSUME TypeOK, AdmissionsCounted, Countable, NEW t \in Threads, held[t] = 0,
           held' = [held EXCEPT ![t] = generation]
    PROVE  Cardinality(Holders') = active + 1
  <1>1. Holders' = Holders \cup {t} /\ t \notin Holders
    BY DEF Holders, TypeOK
  <1> QED BY <1>1, Zenon DEF AdmissionsCounted, Countable

\* Drop of a counted admission uncounts it.
LEMMA HoldersShrink ==
    ASSUME TypeOK, AdmissionsCounted, Countable, NEW t \in Threads, held[t] # 0,
           held' = [held EXCEPT ![t] = 0]
    PROVE  /\ Cardinality(Holders') = active - 1 /\ active > 0
           /\ Holders' \subseteq Holders
  <1>1. Holders' = Holders \ {t} /\ t \in Holders
    BY Zenon DEF Holders, TypeOK
  <1>2. Cardinality(Holders') = active - 1
    BY <1>1, Zenon DEF AdmissionsCounted, Countable
  <1>3. active # 0
    BY <1>1, Zenon DEF Countable
  <1> QED BY <1>1, <1>2, <1>3 DEF TypeOK

\* opening() establishes the invariant.
LEMMA InitIInv == Init /\ Cardinality({}) = 0 => IInv
  <1> SUFFICES ASSUME Init, Cardinality({}) = 0 PROVE IInv
    BY Zenon
  <1>1. Holders = {}
    BY Zenon DEF Init, Holders
  <1>2. TypeOK
    <2>1. 1 \in Generations
      OBVIOUS
    <2>2. want \in [Threads -> [state : States, generation : Generations]]
      BY <2>1, Zenon DEF Init
    <2>3. maintenance \in BOOLEAN /\ signalled \in BOOLEAN
      BY Zenon DEF Init
    <2>4. /\ held \in [Threads -> {0} \cup Generations]
          /\ nested \in [Threads -> {0} \cup Generations]
      BY Zenon DEF Init
    <2>5. /\ pc \in [Threads -> {"idle", "admit", "wait", "admitted", "refused"}]
          /\ status \in [Threads -> {"none", "Ok", "Err"}]
      BY Zenon DEF Init
    <2>6. /\ state \in States /\ generation \in Generations /\ owner \in OwnerStates
          /\ active \in 0..MaxAdmissions /\ store_gen \in Generations
          /\ published \in {0} \cup Generations
      BY <2>1 DEF Init, OwnerStates
    <2> QED BY <2>2, <2>3, <2>4, <2>5, <2>6, Zenon DEF TypeOK
  <1>3. AdmissionsCounted
    BY <1>1, Zenon DEF Init, AdmissionsCounted
  <1>4. NoLostWakeup /\ ExclusiveReopen /\ Phases /\ Borrows /\ GenerationsAgree
    BY <1>1 DEF Init, NoLostWakeup, ExclusiveReopen, Phases, Borrows, GenerationsAgree
  <1> QED BY <1>2, <1>3, <1>4, Zenon DEF IInv

\* One critical section of admit_state preserves the invariant, for a request
\* the thread can make, or made before it waited.
LEMMA AdmitSectionIInv ==
    ASSUME IInv, Countable, NEW t \in Threads, NEW w \in [state : States, generation : Generations],
           pc[t] \in {"idle", "admit"}, w.state # "Failed",
           w.state = "Opening" => owner = "initial",
           w.state = "Reopening" => owner = "candidate",
           AdmitSection(t, w)
    PROVE  IInv'
  <1> USE DEF IInv
  <1>0. held[t] = 0 /\ nested[t] = 0
    BY Zenon DEF AdmissionsCounted, TypeOK
  <1>1. CASE active' = active /\ held' = held
    <2>1. Holders' = Holders
      BY <1>1, Zenon DEF Holders
    <2>2. TypeOK' BY <1>1, Zenon DEF AdmitSection, TypeOK
    <2>8. /\ AdmissionsCounted' /\ NoLostWakeup' /\ ExclusiveReopen'
          /\ Phases' /\ Borrows' /\ GenerationsAgree'
      BY <1>0, <1>1, <2>1 DEF AdmitSection, AdmissionsCounted, TypeOK, HasRoom, NoLostWakeup,
         ExclusiveReopen, Phases, Borrows, GenerationsAgree
    <2> QED BY <2>2, <2>8, Zenon
  <1>2. CASE /\ state = w.state /\ active < MaxAdmissions
             /\ active' = active + 1 /\ held' = [held EXCEPT ![t] = generation]
             /\ pc' = [pc EXCEPT ![t] = IF generation = w.generation THEN "admitted" ELSE "refused"]
             /\ status' = [status EXCEPT ![t] = "none"]
    <2>1. Cardinality(Holders') = active'
      BY <1>0, <1>2, HoldersGrow, Zenon
    <2>5. owner \in {"held", "retire", "initial", "candidate"}
      BY <1>2, Zenon DEF Phases, TypeOK
    <2>9. store_gen = generation
      BY <1>2, Zenon DEF GenerationsAgree
    <2>10. /\ TypeOK' /\ AdmissionsCounted' /\ NoLostWakeup' /\ ExclusiveReopen'
           /\ Phases' /\ Borrows' /\ GenerationsAgree'
      BY <1>2, <1>0, <2>1, <2>5, <2>9 DEF AdmitSection, TypeOK, AdmissionsCounted,
         NoLostWakeup, ExclusiveReopen, Phases, Borrows, GenerationsAgree
    <2> QED BY <2>10, Zenon
  <1> QED BY <1>1, <1>2, Zenon DEF AdmitSection, HasRoom

\* Every step of Next preserves the invariant.
LEMMA NextIInv == IInv /\ Countable /\ [Next]_vars => IInv'
  <1> SUFFICES ASSUME IInv, Countable, [Next]_vars PROVE IInv'
    BY Zenon
  <1> USE DEF IInv
  <1>0. active = 0 <=> Holders = {}
    BY Zenon DEF Countable
  <1>1. ASSUME NEW t \in Threads, Admit(t)
        PROVE  IInv'
    <2>1. PICK w \in Requests : AdmitSection(t, w)
      BY <1>1, Zenon DEF Admit
    <2>2. /\ w \in [state : States, generation : Generations] /\ w.state # "Failed"
          /\ w.state = "Opening" => owner = "initial"
          /\ w.state = "Reopening" => owner = "candidate"
      BY DEF Requests, TypeOK
    <2> QED BY <1>1, <2>1, <2>2, AdmitSectionIInv, Zenon DEF Admit
  <1>2. ASSUME NEW t \in Threads, AdmitWoken(t)
        PROVE  IInv'
    <2>1. /\ want[t] \in [state : States, generation : Generations] /\ want[t].state # "Failed"
          /\ want[t].state = "Opening" => owner = "initial"
          /\ want[t].state = "Reopening" => owner = "candidate"
      BY <1>2, Zenon DEF AdmitWoken, TypeOK, Borrows
    <2> QED BY <1>2, <2>1, AdmitSectionIInv, Zenon DEF AdmitWoken
  <1>3. ASSUME NEW t \in Threads, AdmitNested(t) \/ DropNested(t) \/ Confirm(t)
        PROVE  IInv'
    <2>1. Holders' = Holders
      BY <1>3, Zenon DEF Holders, AdmitNested, DropNested, Confirm, gate
    <2>8. /\ TypeOK' /\ AdmissionsCounted' /\ NoLostWakeup' /\ ExclusiveReopen'
          /\ Phases' /\ Borrows' /\ GenerationsAgree'
      BY <1>3, <2>1 DEF TypeOK, OwnerStates, AdmitNested, DropNested, Confirm, gate,
         AdmissionsCounted, GenerationsAgree, NoLostWakeup, ExclusiveReopen, Phases, Borrows
    <2> QED BY <2>8, Zenon
  <1>4. ASSUME NEW t \in Threads, Release(t)
        PROVE  IInv'
    <2>1. /\ Cardinality(Holders') = active - 1 /\ active > 0
          /\ Holders' \subseteq Holders
      BY <1>4, HoldersShrink, Zenon DEF Release
    <2>8. /\ TypeOK' /\ AdmissionsCounted' /\ NoLostWakeup' /\ ExclusiveReopen'
          /\ Phases' /\ Borrows' /\ GenerationsAgree'
      BY <1>4, <2>1 DEF TypeOK, OwnerStates, Release, Woken, OwnerWoken, AdmissionsCounted,
         NoLostWakeup, ExclusiveReopen, Phases, Borrows, GenerationsAgree
    <2> QED BY <2>8, Zenon
  <1>5. CASE SignalFailure
    <2>1. Holders' = Holders
      BY <1>5, Zenon DEF Holders, SignalFailure, Woken, OwnerWoken
    <2>8. /\ TypeOK' /\ AdmissionsCounted' /\ NoLostWakeup' /\ ExclusiveReopen'
          /\ Phases' /\ Borrows' /\ GenerationsAgree'
      BY <1>5, <2>1 DEF TypeOK, OwnerStates, SignalFailure, Woken, OwnerWoken,
         AdmissionsCounted, NoLostWakeup, ExclusiveReopen, Phases, Borrows, GenerationsAgree
    <2> QED BY <2>8, Zenon
  <1>6. CASE PublishOpening
    <2>1. Holders' = Holders
      BY <1>6, Zenon DEF Holders, PublishOpening, CandidateFree, Woken
    <2>3. AdmissionsCounted'
      BY <1>6, <2>1, Zenon DEF AdmissionsCounted, TypeOK, PublishOpening, CandidateFree, Woken
    <2>8. /\ TypeOK' /\ NoLostWakeup' /\ ExclusiveReopen'
          /\ Phases' /\ Borrows' /\ GenerationsAgree'
      BY <1>6, <2>1 DEF TypeOK, OwnerStates, PublishOpening, CandidateFree, Woken,
         NoLostWakeup, ExclusiveReopen, Phases, Borrows, AdmissionsCounted, GenerationsAgree
    <2> QED BY <2>8, <2>3, Zenon
  <1>7. CASE CloseInitial
    <2>1. Holders' = Holders
      BY <1>7, Zenon DEF Holders, CloseInitial, CandidateFree, Woken
    <2>8. /\ TypeOK' /\ AdmissionsCounted' /\ NoLostWakeup' /\ ExclusiveReopen'
          /\ Phases' /\ Borrows' /\ GenerationsAgree'
      BY <1>7, <2>1 DEF TypeOK, OwnerStates, CloseInitial, CandidateFree, Woken,
         AdmissionsCounted, NoLostWakeup, ExclusiveReopen, Phases, Borrows, GenerationsAgree
    <2> QED BY <2>8, Zenon
  <1>8. CASE BeginRecovery
    <2>1. Holders' = Holders
      BY <1>8, Zenon DEF Holders, BeginRecovery, Woken
    <2>2. TypeOK' BY <1>8, <2>1, Zenon DEF TypeOK, OwnerStates, BeginRecovery, Woken
    <2>8. /\ AdmissionsCounted' /\ NoLostWakeup' /\ ExclusiveReopen'
          /\ Phases' /\ Borrows' /\ GenerationsAgree'
      BY <1>8, <2>1, <1>0, Zenon DEF AdmissionsCounted, TypeOK, BeginRecovery, Woken, NoLostWakeup,
         ExclusiveReopen, Phases, Borrows, GenerationsAgree
    <2> QED BY <2>2, <2>8, Zenon
  <1>9. CASE BeginDrained
    <2>1. Holders' = Holders
      BY <1>9, Zenon DEF Holders, BeginDrained, Drained, gate, thread
    <2>8. /\ TypeOK' /\ AdmissionsCounted' /\ NoLostWakeup' /\ ExclusiveReopen'
          /\ Phases' /\ Borrows' /\ GenerationsAgree'
      BY <1>9, <2>1, <1>0, Zenon DEF TypeOK, OwnerStates, BeginDrained, Drained, gate, thread,
         AdmissionsCounted, NoLostWakeup, ExclusiveReopen, Phases, Borrows, GenerationsAgree
    <2> QED BY <2>8, Zenon
  <1>10. CASE ReopenFails
    <2>1. Holders' = Holders
      BY <1>10, Zenon DEF Holders, ReopenFails, FinishFailed, Woken
    <2>2. TypeOK'
      BY <1>10, <2>1, Zenon DEF TypeOK, OwnerStates, ReopenFails, FinishFailed, Woken
    <2>8. /\ AdmissionsCounted' /\ NoLostWakeup' /\ ExclusiveReopen'
          /\ Phases' /\ Borrows' /\ GenerationsAgree'
      BY <1>10, <2>1, Zenon DEF AdmissionsCounted, TypeOK, ReopenFails, FinishFailed, Woken,
         NoLostWakeup, ExclusiveReopen, Phases, Borrows, GenerationsAgree
    <2> QED BY <2>2, <2>8, Zenon
  <1>11. CASE ReopenSucceeds
    <2>1. Holders = {} /\ Holders' = {}
      BY <1>11, Zenon DEF ReopenSucceeds, FinishFailed, ExclusiveReopen, Holders, thread
    <2>2. /\ owner = "reopen" /\ generation < MaxGeneration /\ store_gen' = generation + 1
          /\ \A t \in Threads : held[t] = 0
      BY <1>11, <2>1, Zenon DEF ReopenSucceeds, Holders
    <2>3. CASE Preparable /\ generation' = generation + 1 /\ owner' = "candidate"
             /\ UNCHANGED <<state, active, maintenance, thread, published, signalled>>
      <3>1. TypeOK' BY <1>11, <2>1, <2>2, <2>3 DEF TypeOK, OwnerStates, thread, Preparable
      <3>2. AdmissionsCounted'
        BY <1>11, <2>1, <2>2, <2>3, Zenon DEF AdmissionsCounted, TypeOK, thread, Preparable
      <3>3. NoLostWakeup'
        BY <1>11, <2>1, <2>2, <2>3, Zenon DEF NoLostWakeup, TypeOK, thread, Preparable
      <3>4. ExclusiveReopen'
        BY <1>11, <2>1, <2>2, <2>3, Zenon DEF ExclusiveReopen, thread, Preparable
      <3>5. Phases' BY <1>11, <2>1, <2>2, <2>3, Zenon DEF Phases, TypeOK, thread, Preparable
      <3>6. Borrows'
        BY <1>11, <2>1, <2>2, <2>3, Zenon DEF Borrows, TypeOK, AdmissionsCounted, Holders, thread,
           Preparable
      <3>7. GenerationsAgree'
        BY <1>11, <2>1, <2>2, <2>3 DEF GenerationsAgree, TypeOK, Holders, thread, Preparable
      <3> QED BY <3>1, <3>2, <3>3, <3>4, <3>5, <3>6, <3>7, Zenon
    <2>4. CASE owner' = "held" /\ FinishFailed /\ UNCHANGED generation
      <3>0. store_gen' \in Generations
        BY <2>2 DEF TypeOK
      <3>1. TypeOK' BY <2>4, <3>0, Zenon DEF TypeOK, OwnerStates, FinishFailed, Woken
      <3>2. AdmissionsCounted'
        <4>1. /\ active' = active /\ held' = held /\ nested' = nested
              /\ \A t \in Threads :
                    pc'[t] \in {"admitted", "refused"} <=> pc[t] \in {"admitted", "refused"}
          BY <2>4, Zenon DEF FinishFailed, Woken
        <4> QED BY <2>1, <4>1, Zenon DEF AdmissionsCounted
      <3>3. NoLostWakeup'
        BY <1>11, <2>1, <2>2, <2>4, Zenon DEF NoLostWakeup, TypeOK, thread, FinishFailed, Woken
      <3>4. ExclusiveReopen'
        BY <1>11, <2>1, <2>2, <2>4, Zenon DEF ExclusiveReopen, thread, FinishFailed, Woken
      <3>5. Phases'
        BY <1>11, <2>1, <2>2, <2>4, Zenon DEF Phases, TypeOK, thread, FinishFailed, Woken
      <3>6. Borrows'
        BY <1>11, <2>1, <2>2, <2>4, Zenon DEF Borrows, TypeOK, AdmissionsCounted, Holders, thread,
           FinishFailed, Woken
      <3>7. GenerationsAgree'
        BY <1>11, <2>1, <2>2, <2>4, Zenon DEF GenerationsAgree, TypeOK, Holders, thread,
           FinishFailed, Woken
      <3> QED BY <3>1, <3>2, <3>3, <3>4, <3>5, <3>6, <3>7, Zenon
    <2> QED BY <1>11, <2>3, <2>4, Zenon DEF ReopenSucceeds
  <1>12. CASE PublishCandidate
    <2>1. Holders' = Holders
      BY <1>12, Zenon DEF Holders, PublishCandidate, Publishable, CandidateFree, Woken
    <2>2. TypeOK'
      BY <1>12, <2>1, Zenon DEF TypeOK, OwnerStates, PublishCandidate, Publishable,
         CandidateFree, Woken
    <2>3. AdmissionsCounted'
      BY <1>12, <2>1, Zenon DEF AdmissionsCounted, TypeOK, PublishCandidate, Publishable,
         CandidateFree, Woken
    <2>8. NoLostWakeup' /\ ExclusiveReopen' /\ Phases' /\ Borrows' /\ GenerationsAgree'
      BY <1>12, <2>1 DEF NoLostWakeup, TypeOK, PublishCandidate, Publishable, CandidateFree,
         Woken, ExclusiveReopen, Phases, Borrows, AdmissionsCounted, GenerationsAgree
    <2> QED BY <2>2, <2>3, <2>8, Zenon
  <1>13. CASE AbortCandidate \/ DropCandidate
    <2>1. Holders' = Holders
      BY <1>13, Zenon DEF Holders, AbortCandidate, DropCandidate, CandidateFree, FinishFailed, Woken
    <2>2. TypeOK'
      BY <1>13, <2>1, ZenonT(30) DEF TypeOK, OwnerStates, AbortCandidate, DropCandidate,
         CandidateFree, FinishFailed, Woken
    <2>3. AdmissionsCounted'
      <3>1. /\ active' = active /\ held' = held /\ nested' = nested
            /\ \A t \in Threads :
                  pc'[t] \in {"admitted", "refused"} <=> pc[t] \in {"admitted", "refused"}
        BY <1>13, Zenon DEF AbortCandidate, DropCandidate, FinishFailed, Woken
      <3> QED BY <2>1, <3>1, Zenon DEF AdmissionsCounted
    <2>8. NoLostWakeup' /\ ExclusiveReopen' /\ Phases' /\ Borrows' /\ GenerationsAgree'
      BY <1>13, <2>1 DEF AdmissionsCounted, TypeOK, AbortCandidate, DropCandidate,
         CandidateFree, FinishFailed, Woken, NoLostWakeup, ExclusiveReopen, Borrows, Holders,
         Phases, GenerationsAgree
    <2> QED BY <2>2, <2>3, <2>8, Zenon
  <1>14. CASE CloseHeld
    <2>1. Holders' = Holders
      BY <1>14, Zenon DEF Holders, CloseHeld, gate, thread
    <2>8. /\ TypeOK' /\ AdmissionsCounted' /\ NoLostWakeup' /\ ExclusiveReopen'
          /\ Phases' /\ Borrows' /\ GenerationsAgree'
      BY <1>14, <2>1 DEF TypeOK, OwnerStates, CloseHeld, gate, thread, AdmissionsCounted,
         NoLostWakeup, ExclusiveReopen, Phases, Borrows, CandidateFree, GenerationsAgree
    <2> QED BY <2>8, Zenon
  <1>15. CASE Retire
    <2>1. Holders' = Holders
      BY <1>15, Zenon DEF Holders, Retire, Drained, Woken
    <2>8. /\ TypeOK' /\ AdmissionsCounted' /\ NoLostWakeup' /\ ExclusiveReopen'
          /\ Phases' /\ Borrows' /\ GenerationsAgree'
      BY <1>15, <2>1, <1>0 DEF TypeOK, OwnerStates, Retire, Drained, Woken,
         AdmissionsCounted, NoLostWakeup, ExclusiveReopen, GenerationsAgree, Phases, Borrows
    <2> QED BY <2>8, Zenon
  <1>16. CASE RetireDrained
    <2>1. Holders' = Holders
      BY <1>16, Zenon DEF Holders, RetireDrained, Drained, gate, thread
    <2>8. /\ TypeOK' /\ AdmissionsCounted' /\ NoLostWakeup' /\ ExclusiveReopen'
          /\ Phases' /\ Borrows' /\ GenerationsAgree'
      BY <1>16, <2>1, <1>0, Zenon DEF TypeOK, OwnerStates, RetireDrained, Drained, gate, thread,
         AdmissionsCounted, NoLostWakeup, ExclusiveReopen, Phases, Borrows, GenerationsAgree
    <2> QED BY <2>8, Zenon
  <1>17. CASE UNCHANGED vars
    <2>1. Holders' = Holders
      BY <1>17, Zenon DEF Holders, vars, thread
    <2> QED BY <1>17, <2>1 DEF vars, gate, thread, TypeOK, AdmissionsCounted, NoLostWakeup,
       ExclusiveReopen, Phases, Borrows, GenerationsAgree
  <1>18. ASSUME NEW t \in Threads, Wake(t)
         PROVE  IInv'
    <2>1. Holders' = Holders
      BY <1>18, Zenon DEF Holders, Wake, gate
    <2>8. /\ TypeOK' /\ AdmissionsCounted' /\ NoLostWakeup' /\ ExclusiveReopen'
          /\ Phases' /\ Borrows' /\ GenerationsAgree'
      BY <1>18, <2>1 DEF TypeOK, OwnerStates, Wake, gate, AdmissionsCounted, NoLostWakeup,
         ExclusiveReopen, Phases, Borrows, GenerationsAgree
    <2> QED BY <2>8, Zenon
  <1>19. CASE WakeOwner
    <2>1. Holders' = Holders
      BY <1>19, Zenon DEF Holders, WakeOwner, OwnerWoken, gate, thread
    <2>8. /\ TypeOK' /\ AdmissionsCounted' /\ NoLostWakeup' /\ ExclusiveReopen'
          /\ Phases' /\ Borrows' /\ GenerationsAgree'
      BY <1>19, <2>1 DEF TypeOK, OwnerStates, WakeOwner, OwnerWoken, gate, thread,
         AdmissionsCounted, NoLostWakeup, ExclusiveReopen, Phases, Borrows, GenerationsAgree
    <2> QED BY <2>8, Zenon
  <1> QED
    BY <1>1, <1>2, <1>3, <1>4, <1>5, <1>6, <1>7, <1>8, <1>9, <1>10, <1>11, <1>12, <1>13,
       <1>14, <1>15, <1>16, <1>17, <1>18, <1>19, Zenon DEF Next, Operation, Owner

\* A candidate is published only while no failure has been signalled.
LEMMA PublicationsUnsignalled ==
    IInv /\ [Next]_vars => [owner = "candidate" /\ state' = "Healthy" => ~signalled]_vars
  <1> SUFFICES ASSUME IInv, Next, owner = "candidate", state' = "Healthy"
               PROVE  ~signalled
    BY Zenon DEF vars, gate, thread
  <1>1. state \in {"Reopening", "Failed"} /\ maintenance
    BY Zenon DEF IInv, Phases, TypeOK
  <1>2. state # state'
    BY <1>1, Zenon
  <1>3. ~\E t \in Threads : Operation(t)
    BY <1>2, Zenon DEF Operation, Admit, AdmitWoken, AdmitSection, AdmitNested, DropNested,
       Confirm, Release, Wake, gate
  <1>4. PublishCandidate
    BY <1>1, <1>2, <1>3, Zenon DEF Next, Owner, SignalFailure, PublishOpening, CloseInitial,
       BeginRecovery, BeginDrained, ReopenFails, ReopenSucceeds, AbortCandidate,
       DropCandidate, FinishFailed, CloseHeld, Retire, RetireDrained, WakeOwner, gate
  <1> QED BY <1>1, <1>4, Zenon DEF PublishCandidate, Publishable, IInv, Phases

-----------------------------------------------------------------------------
(* The refinement.  The abstract variables under the mapping of HealthGate:  *)
Live == IF state = "Healthy" THEN generation ELSE 0
User == [t \in Threads |-> IF Ordinary(t) THEN held[t] ELSE 0]
Status == [t \in Threads |-> IF Ordinary(t) THEN status[t] ELSE "none"]
Exclusive == owner = "reopen"

\* What an admission section does to the abstract state.
LEMMA AdmitSectionRefines ==
    ASSUME IInv, NEW t \in Threads, NEW w \in [state : States, generation : Generations],
           pc[t] \in {"idle", "admit"}, AdmitSection(t, w)
    PROVE  Availability!Call(t) \/ Availability!Enter(t) \/ Availability!Refuse(t)
  <1>0. /\ held[t] = 0 /\ User[t] = 0
        /\ Live' = Live /\ published' = published /\ Exclusive' = Exclusive
    BY Zenon DEF IInv, AdmissionsCounted, TypeOK, AdmitSection, User, Live, Exclusive
  <1>1. CASE w.state = "Healthy" /\ state # w.state
    <2>1. User' = User /\ Status' = [Status EXCEPT ![t] = "Err"]
      BY <1>0, <1>1, Zenon DEF AdmitSection, User, Status, Ordinary, IInv, TypeOK, HasRoom
    <2> QED BY <1>0, <2>1, Zenon DEF Availability!Refuse, Live, User, Status, Exclusive
  <1>2. CASE w.state = "Healthy" /\ state = w.state /\ HasRoom
    <2>0. /\ held' = [held EXCEPT ![t] = generation] /\ status' = [status EXCEPT ![t] = "none"]
          /\ want' = [want EXCEPT ![t] = w] /\ Live = generation /\ Live # 0
      BY <1>2 DEF AdmitSection, IInv, TypeOK, Live
    <2>1. /\ User' = [User EXCEPT ![t] = Live]
          /\ Status' = [Status EXCEPT ![t] = "none"]
      BY <1>2, <2>0, ZenonT(30) DEF User, Status, Ordinary, IInv, TypeOK
    <2>2. ~Exclusive
      BY <1>2, Zenon DEF Exclusive, IInv, Phases
    <2> QED BY <1>0, <2>0, <2>1, <2>2, Zenon DEF Availability!Enter, Live, User, Status, Exclusive
  <1>3. CASE w.state # "Healthy" \/ (state = w.state /\ ~HasRoom)
    <2>1. User' = User /\ Status' = [Status EXCEPT ![t] = "none"]
      BY <1>0, <1>3, ZenonT(30) DEF AdmitSection, User, Status, Ordinary, IInv, TypeOK
    <2> QED BY <1>0, <2>1, Zenon DEF Availability!Call, Live, User, Status, Exclusive
  <1> QED BY <1>1, <1>2, <1>3, Zenon

\* Every step of the gate is a step, or a stutter, of HomeAvailability.
LEMMA NextRefines == IInv /\ Countable /\ [Next]_vars => [Availability!Next]_Availability!vars
  <1> SUFFICES ASSUME IInv, Countable, [Next]_vars
               PROVE  Availability!Next \/ UNCHANGED Availability!vars
    BY Zenon
  <1>0. active = 0 => \A t \in Threads : held[t] = 0
    BY Zenon DEF Countable, Holders
  <1>1. ASSUME NEW t \in Threads, Admit(t) \/ AdmitWoken(t)
        PROVE  Availability!Next
    <2>1. PICK w \in [state : States, generation : Generations] : AdmitSection(t, w)
      BY <1>1 DEF Admit, AdmitWoken, Requests, IInv, TypeOK
    <2> QED BY <1>1, <2>1, AdmitSectionRefines, Zenon DEF Admit, AdmitWoken, Availability!Next
  <1>2. ASSUME NEW t \in Threads, AdmitNested(t) \/ DropNested(t) \/ Confirm(t)
        PROVE  Availability!Next \/ UNCHANGED Availability!vars
    <2>1. /\ Live' = Live /\ published' = published /\ Exclusive' = Exclusive
          /\ User' = User
      BY <1>2, Zenon DEF AdmitNested, DropNested, Confirm, gate, Live, Exclusive, User, Ordinary
    <2>2. CASE status' = status \/ ~Ordinary(t)
      <3>1. Status' = Status
        BY <1>2, <2>2, Zenon DEF AdmitNested, DropNested, Confirm, Status, Ordinary, IInv, TypeOK
      <3> QED BY <2>1, <3>1, Zenon DEF Availability!vars, Live, Exclusive, User, Status
    <2>3. CASE status' = [status EXCEPT ![t] = "Err"] /\ Ordinary(t)
      <3>1. Status' = [Status EXCEPT ![t] = "Err"]
        BY <1>2, <2>3, Zenon DEF AdmitNested, DropNested, Confirm, Status, Ordinary, IInv,
           TypeOK
      <3>2. Availability!Refuse(t)
        BY <2>1, <3>1, Zenon DEF Availability!Refuse, Live, Exclusive, User, Status
      <3> QED BY <3>2, Zenon DEF Availability!Next
    <2>4. CASE Confirm(t) /\ Confirms(t) /\ Ordinary(t)
      <3>1. Status' = [Status EXCEPT ![t] = "Ok"]
        BY <2>4, Zenon DEF Confirm, Status, Ordinary, IInv, TypeOK
      <3>2. User[t] # 0 /\ User[t] = Live
        BY <2>4, Zenon DEF Confirm, Confirms, Ordinary, User, Live, IInv, AdmissionsCounted, TypeOK
      <3>3. Availability!Confirm(t)
        BY <2>1, <3>1, <3>2, Zenon DEF Availability!Confirm, Live, Exclusive, User, Status
      <3> QED BY <3>3, Zenon DEF Availability!Next
    <2> QED BY <1>2, <2>2, <2>3, <2>4, Zenon DEF AdmitNested, DropNested, Confirm
  <1>3. ASSUME NEW t \in Threads, Release(t)
        PROVE  Availability!Next \/ UNCHANGED Availability!vars
    <2>1. Live' = Live /\ published' = published /\ Exclusive' = Exclusive
      BY <1>3, Zenon DEF Release, Live, Exclusive, OwnerWoken
    <2>2. CASE ~Ordinary(t)
      <3>1. User' = User /\ Status' = Status
        BY <1>3, <2>2, Zenon DEF Release, User, Status, Ordinary, IInv, TypeOK
      <3> QED BY <2>1, <3>1, Zenon DEF Availability!vars, Live, Exclusive, User, Status
    <2>3. CASE Ordinary(t)
      <3>1. /\ User' = [User EXCEPT ![t] = 0] /\ User[t] # 0
            /\ Status' = Status \/ Status' = [Status EXCEPT ![t] = "Err"]
        BY <1>3, <2>3, ZenonT(30) DEF Release, User, Status, Ordinary, IInv, TypeOK
      <3>2. Availability!Leave(t)
        BY <2>1, <3>1, Zenon DEF Availability!Leave, Live, Exclusive, User, Status
      <3> QED BY <3>2, Zenon DEF Availability!Next
    <2> QED BY <2>2, <2>3, Zenon
  <1>4. CASE SignalFailure \/ CloseInitial \/ Retire
    <2>1. /\ published' = published /\ Exclusive' = Exclusive
          /\ User' = User /\ Status' = Status /\ Live' \in {0, Live}
      BY <1>4, Zenon DEF SignalFailure, CloseInitial, Retire, Live, Exclusive, User, Status,
         Ordinary, OwnerWoken, Drained
    <2> QED BY <2>1, Zenon DEF Availability!Next, Availability!Fail, Availability!vars, Live,
       Exclusive, User, Status
  <1>5. CASE PublishOpening \/ PublishCandidate
    <2>0. User' = User /\ Status' = Status
      BY <1>5, Zenon DEF PublishOpening, PublishCandidate, User, Status, Ordinary
    <2>1. /\ Live = 0 /\ Live' = generation
          /\ Exclusive' = FALSE /\ Exclusive = FALSE /\ published' = generation
          /\ generation > published /\ generation \in 1..MaxGeneration
      BY <1>5, Zenon DEF PublishOpening, PublishCandidate, Publishable, IInv, GenerationsAgree,
         TypeOK, Live, Exclusive
    <2>2. \A t \in Threads : User[t] = 0
      BY <1>0, <1>5, Zenon DEF PublishOpening, PublishCandidate, Publishable, User
    <2>3. Availability!Publish(generation)
      BY <2>0, <2>1, <2>2, Zenon DEF Availability!Publish, Availability!Idle, Live,
         Exclusive, User, Status
    <2> QED BY <2>1, <2>3, Zenon DEF Availability!Next
  <1>6. CASE \/ BeginRecovery \/ BeginDrained \/ ReopenFails \/ ReopenSucceeds
             \/ AbortCandidate \/ DropCandidate
    <2>1. /\ published' = published /\ User' = User /\ Status' = Status /\ Live = 0 /\ Live' = 0
      BY <1>6, Zenon DEF BeginRecovery, BeginDrained, ReopenFails, ReopenSucceeds, AbortCandidate,
         DropCandidate, FinishFailed, Live, User, Status, Ordinary, IInv, Phases, gate,
         thread
    <2>2. Exclusive' /\ ~Exclusive => \A t \in Threads : User[t] = 0
      BY <1>0, <1>6, Zenon DEF BeginRecovery, BeginDrained, ReopenFails, ReopenSucceeds,
         AbortCandidate, DropCandidate, Exclusive, User, Drained
    <2>3. Exclusive \in BOOLEAN /\ Exclusive' \in BOOLEAN
      BY Zenon DEF Exclusive
    <2> QED BY <2>1, <2>2, <2>3, Zenon DEF Availability!Next, Availability!Seize,
       Availability!Yield, Availability!Idle, Availability!vars, Live, Exclusive, User,
       Status
  <1>7. CASE \/ \E t \in Threads : Wake(t)
             \/ CloseHeld \/ RetireDrained \/ WakeOwner \/ UNCHANGED vars
    BY <1>7, Zenon DEF Wake, CloseHeld, RetireDrained, WakeOwner, OwnerWoken, Drained, vars, gate,
       thread, Availability!vars, Ordinary
  <1> QED BY <1>1, <1>2, <1>3, <1>4, <1>5, <1>6, <1>7, Zenon DEF Next, Operation, Owner

-----------------------------------------------------------------------------
HIDE ThreadsAssumption
HIDE AdmissionsAssumption
HIDE GenerationAssumption
HIDE DEF States, Candidate, Generations

\* The assumptions of MutationObservation on its bounds.
BoundaryOK == MaxRevision \in Nat /\ MaxRegistrations \in Nat /\ MaxVersion \in Nat

(* They hold of every instance of the component. *)
LEMMA BoundaryConstants == BoundaryOK
  BY ObservationAssumption, Zenon DEF BoundaryOK

Holds(w) == step[w] \in {"locked", "begun"}

(* The writer's mutex, and what `active` says of its holder.                 *)
OneWriter == \A v, w \in Writers : Holds(v) /\ Holds(w) => v = w
ActiveIsBegun == mutating <=> \E w \in Writers : step[w] = "begun"

(* Observations come from revisions and registrations already made.          *)
Issued ==
    /\ observer <= registrations
    /\ \A e \in Electors :
          /\ owns[e] <= registrations
          /\ token[e].registration <= registrations
          /\ revision # Exhausted => token[e].revision <= revision
          /\ \A f \in Electors : owns[e] = owns[f] /\ owns[e] # 0 => e = f

(* While the revision stands, nothing has been mutated since the observation.*)
Unchanged ==
    \A e \in Electors :
        revision # Exhausted /\ token[e].revision = revision
        => ~mutating /\ (fact[e] # None => fact[e] = version)

\* The inductive invariant.
BoundaryInv ==
    /\ BoundaryOK /\ BoundaryTypeOK /\ OneWriter /\ ActiveIsBegun
    /\ Issued /\ Unchanged /\ StaleIsWoken

\* MutationBoundary::default and an idle writer satisfy the invariant.
LEMMA BoundaryInvInit == BoundaryOK /\ BoundaryInit => BoundaryInv
<1> SUFFICES ASSUME BoundaryOK, BoundaryInit PROVE BoundaryInv
  BY Zenon
<1> USE DEF BoundaryInit, None, Exhausted, NoToken,
            Revisions, Registrations
<1>1. BoundaryTypeOK
  <2>1. mutating \in BOOLEAN /\ closed \in BOOLEAN /\ woken \in [Electors -> BOOLEAN]
    BY Zenon
  <2> QED
    BY <2>1 DEF BoundaryOK, BoundaryTypeOK
<1>2. OneWriter /\ ActiveIsBegun /\ Issued /\ Unchanged
  BY DEF OneWriter, Holds, ActiveIsBegun, Issued, Unchanged
<1>3. StaleIsWoken
  BY Zenon DEF StaleIsWoken, Valid
<1> QED
  BY <1>1, <1>2, <1>3, Zenon DEF BoundaryInv

\* Every step of the boundary, the writers and the electors keeps the invariant.
LEMMA BoundaryInvNext == BoundaryInv /\ [BoundaryNext]_boundaryVars => BoundaryInv'
<1> SUFFICES ASSUME BoundaryInv, [BoundaryNext]_boundaryVars PROVE BoundaryInv'
  BY Zenon
<1> USE DEF BoundaryOK, None, Exhausted, NoToken,
            Revisions, Registrations, boundary, writers,
            electors
<1>1. ASSUME NEW w \in Writers, Lock(w) PROVE BoundaryInv'
  <2> USE <1>1 DEF BoundaryInv, Lock
  <2>1. BoundaryTypeOK'
    BY Zenon DEF BoundaryTypeOK
  <2>2. (OneWriter /\ ActiveIsBegun)'
    BY Zenon DEF BoundaryTypeOK, OneWriter, Holds, ActiveIsBegun
  <2>3. Issued'
    BY Zenon DEF BoundaryTypeOK, Issued
  <2>4. Unchanged'
    BY Zenon DEF BoundaryTypeOK, Issued, Unchanged, ActiveIsBegun
  <2>5. StaleIsWoken'
    BY Zenon DEF BoundaryTypeOK, Issued, StaleIsWoken, Valid
  <2> QED
    BY <2>1, <2>2, <2>3, <2>4, <2>5, Zenon
<1>2. ASSUME NEW w \in Writers, Begin(w) PROVE BoundaryInv'
  <2> USE <1>2 DEF BoundaryInv, Begin, CheckedNext
  <2>1. BoundaryTypeOK'
    BY DEF BoundaryTypeOK
  <2>2. (OneWriter /\ ActiveIsBegun)'
    BY Zenon DEF BoundaryTypeOK, OneWriter, Holds, ActiveIsBegun
  <2>3. Issued'
    BY DEF BoundaryTypeOK, Issued
  <2>4. Unchanged'
    BY DEF BoundaryTypeOK, Issued, Unchanged, ActiveIsBegun
  <2>5. StaleIsWoken'
    BY Zenon DEF BoundaryTypeOK, Issued, StaleIsWoken, Valid
  <2> QED
    BY <2>1, <2>2, <2>3, <2>4, <2>5, Zenon
<1>3. ASSUME NEW w \in Writers, Mutate(w) PROVE BoundaryInv'
  <2> USE <1>3 DEF BoundaryInv, Mutate
  <2>1. BoundaryTypeOK'
    BY DEF BoundaryTypeOK
  <2>2. (OneWriter /\ ActiveIsBegun)'
    BY Zenon DEF BoundaryTypeOK, OneWriter, Holds, ActiveIsBegun
  <2>3. Issued'
    BY Zenon DEF BoundaryTypeOK, Issued
  <2>4. Unchanged'
    BY Zenon DEF BoundaryTypeOK, Issued, Unchanged, ActiveIsBegun
  <2>5. StaleIsWoken'
    BY Zenon DEF BoundaryTypeOK, Issued, StaleIsWoken, Valid
  <2> QED
    BY <2>1, <2>2, <2>3, <2>4, <2>5, Zenon
<1>4. ASSUME NEW w \in Writers, Finish(w) PROVE BoundaryInv'
  <2> USE <1>4 DEF BoundaryInv, Finish
  <2>1. BoundaryTypeOK'
    BY Zenon DEF BoundaryTypeOK
  <2>2. (OneWriter /\ ActiveIsBegun)'
    BY Zenon DEF BoundaryTypeOK, OneWriter, Holds, ActiveIsBegun
  <2>3. Issued'
    BY Zenon DEF BoundaryTypeOK, Issued
  <2>4. Unchanged'
    BY Zenon DEF BoundaryTypeOK, Issued, Unchanged, ActiveIsBegun
  <2>5. StaleIsWoken'
    BY Zenon DEF BoundaryTypeOK, Issued, StaleIsWoken, Valid
  <2> QED
    BY <2>1, <2>2, <2>3, <2>4, <2>5, Zenon
<1>5. ASSUME NEW w \in Writers, WakeObserver(w) PROVE BoundaryInv'
  <2> USE <1>5 DEF BoundaryInv, WakeObserver
  <2>1. BoundaryTypeOK'
    BY Zenon DEF BoundaryTypeOK
  <2>2. (OneWriter /\ ActiveIsBegun)'
    BY Zenon DEF BoundaryTypeOK, OneWriter, Holds, ActiveIsBegun
  <2>3. Issued'
    BY Zenon DEF BoundaryTypeOK, Issued
  <2>4. Unchanged'
    BY Zenon DEF BoundaryTypeOK, Issued, Unchanged, ActiveIsBegun
  <2>5. StaleIsWoken'
    BY Zenon DEF BoundaryTypeOK, Issued, StaleIsWoken, Valid
  <2> QED
    BY <2>1, <2>2, <2>3, <2>4, <2>5, Zenon
<1>6. ASSUME NEW e \in Electors, Register(e) PROVE BoundaryInv'
  <2> USE <1>6 DEF BoundaryInv, Register
  <2>1. BoundaryTypeOK'
    BY DEF BoundaryTypeOK
  <2>2. (OneWriter /\ ActiveIsBegun)'
    BY Zenon DEF BoundaryTypeOK, OneWriter, Holds, ActiveIsBegun
  <2>3. Issued'
    BY DEF BoundaryTypeOK, Issued
  <2>4. Unchanged'
    BY Zenon DEF BoundaryTypeOK, Issued, Unchanged, ActiveIsBegun
  <2>5. StaleIsWoken'
    BY DEF BoundaryTypeOK, Issued, StaleIsWoken, Valid
  <2> QED
    BY <2>1, <2>2, <2>3, <2>4, <2>5, Zenon
<1>7. ASSUME NEW e \in Electors, DropObserver(e) PROVE BoundaryInv'
  <2> USE <1>7 DEF BoundaryInv, DropObserver
  <2>1. BoundaryTypeOK'
    BY Zenon DEF BoundaryTypeOK
  <2>2. (OneWriter /\ ActiveIsBegun)'
    BY Zenon DEF BoundaryTypeOK, OneWriter, Holds, ActiveIsBegun
  <2>3. Issued'
    BY DEF BoundaryTypeOK, Issued
  <2>4. Unchanged'
    BY Zenon DEF BoundaryTypeOK, Issued, Unchanged, ActiveIsBegun
  <2>5. StaleIsWoken'
    BY Zenon DEF BoundaryTypeOK, Issued, StaleIsWoken, Valid
  <2> QED
    BY <2>1, <2>2, <2>3, <2>4, <2>5, Zenon
<1>8. ASSUME NEW e \in Electors, Observe(e) PROVE BoundaryInv'
  <2> USE <1>8 DEF BoundaryInv, Observe
  <2>1. BoundaryTypeOK'
    <3>1. woken' \in [Electors -> BOOLEAN]
      BY Zenon DEF BoundaryTypeOK
    <3>2. /\ token' \in [Electors -> [registration : {0} \cup Registrations,
                                     revision : Revisions \cup {None}]]
          /\ fact' \in [Electors -> 0..MaxVersion \cup {None}]
      <4>1. CASE ~mutating /\ revision # Exhausted
        BY <4>1 DEF BoundaryTypeOK
      <4>2. CASE ~(~mutating /\ revision # Exhausted)
        BY <4>2, Zenon DEF BoundaryTypeOK
      <4> QED
        BY <4>1, <4>2, Zenon
    <3> QED
      BY <3>1, <3>2, Zenon DEF BoundaryTypeOK
  <2>2. (OneWriter /\ ActiveIsBegun)'
    BY Zenon DEF BoundaryTypeOK, OneWriter, Holds, ActiveIsBegun
  <2>3. Issued'
    BY DEF BoundaryTypeOK, Issued, Valid
  <2>4. Unchanged'
    BY Zenon DEF BoundaryTypeOK, Issued, Unchanged, ActiveIsBegun, Valid
  <2>5. StaleIsWoken'
    BY DEF BoundaryTypeOK, Issued, StaleIsWoken, Valid
  <2> QED
    BY <2>1, <2>2, <2>3, <2>4, <2>5, Zenon
<1>9. ASSUME NEW e \in Electors, Read(e) PROVE BoundaryInv'
  <2> USE <1>9 DEF BoundaryInv, Read
  <2>1. BoundaryTypeOK'
    BY Zenon DEF BoundaryTypeOK
  <2>2. (OneWriter /\ ActiveIsBegun)'
    BY Zenon DEF BoundaryTypeOK, OneWriter, Holds, ActiveIsBegun
  <2>3. Issued'
    BY Zenon DEF BoundaryTypeOK, Issued
  <2>4. Unchanged'
    BY Zenon DEF BoundaryTypeOK, Issued, Unchanged, ActiveIsBegun
  <2>5. StaleIsWoken'
    BY Zenon DEF BoundaryTypeOK, Issued, StaleIsWoken, Valid
  <2> QED
    BY <2>1, <2>2, <2>3, <2>4, <2>5, Zenon
<1>10. ASSUME NEW e \in Electors, Elect(e) PROVE BoundaryInv'
  <2> USE <1>10 DEF BoundaryInv, Elect, Electable
  <2>1. BoundaryTypeOK'
    BY Zenon DEF BoundaryTypeOK, Valid
  <2>2. (OneWriter /\ ActiveIsBegun)'
    BY Zenon DEF BoundaryTypeOK, OneWriter, Holds, ActiveIsBegun
  <2>3. Issued'
    BY Zenon DEF BoundaryTypeOK, Issued, Valid
  <2>4. Unchanged'
    BY Zenon DEF BoundaryTypeOK, Issued, Unchanged, ActiveIsBegun, Valid
  <2>5. StaleIsWoken'
    BY Zenon DEF BoundaryTypeOK, Issued, StaleIsWoken, Valid
  <2> QED
    BY <2>1, <2>2, <2>3, <2>4, <2>5, Zenon
<1>11. ASSUME Close PROVE BoundaryInv'
  BY <1>11 DEF BoundaryInv, Close, BoundaryTypeOK, OneWriter, Holds, ActiveIsBegun,
     Issued, Unchanged, StaleIsWoken, Valid
<1>12. CASE UNCHANGED boundaryVars
  BY <1>12, Zenon DEF BoundaryInv, boundaryVars, BoundaryTypeOK, OneWriter, Holds, ActiveIsBegun,
     Issued, Unchanged, StaleIsWoken, Valid
<1> QED
  BY <1>1, <1>2, <1>3, <1>4, <1>5, <1>6, <1>7, <1>8, <1>9, <1>10, <1>11, <1>12, Zenon
     DEF BoundaryNext

\* The invariant holds in every reachable state.
LEMMA BoundaryInvariance == BoundarySpec => []BoundaryInv
BY BoundaryConstants, BoundaryInvInit, BoundaryInvNext, PTL DEF BoundarySpec

\* Type correctness of the boundary, the writers and the electors.
THEOREM BoundaryTypeCorrect == BoundarySpec => []BoundaryTypeOK
<1>1. BoundaryInv => BoundaryTypeOK
  BY Zenon DEF BoundaryInv
<1> QED
  BY <1>1, BoundaryInvariance, PTL

\* An election of mutation_observation.rs rests on what the home holds.
THEOREM ElectionsAreCurrent == BoundarySpec => []ElectionIsCurrent
<1>1. BoundaryInv => ElectionIsCurrent
  BY Zenon DEF BoundaryInv, ElectionIsCurrent, Electable, Unchanged
<1> QED
  BY <1>1, BoundaryInvariance, PTL

\* `active` alone tells try_elect_quiescent that no mutation is in progress.
THEOREM QuietHomesAreIdle == BoundarySpec => []QuietIsIdle
<1>1. BoundaryInv => QuietIsIdle
  BY Zenon DEF BoundaryInv, QuietIsIdle, ActiveIsBegun
<1> QED
  BY <1>1, BoundaryInvariance, PTL

\* A current observer with a stale observation is woken, or about to be.
THEOREM StaleObserversAreWoken == BoundarySpec => []StaleIsWoken
<1>1. BoundaryInv => StaleIsWoken
  BY Zenon DEF BoundaryInv
<1> QED
  BY <1>1, BoundaryInvariance, PTL

\* A replaced or dropped observer never elects again, and the current one stays
\* valid until its owner drops it, a successor registers or the boundary closes.
THEOREM RevocationsAreFinal == BoundarySpec => RevocationIsFinal
<1> DEFINE Final(e) ==
       token[e] # NoToken /\ observer # token[e].registration /\ token'[e] = token[e]
       => ~Electable(e)'
<1> DEFINE Kept(e) ==
       Valid(owns[e]) /\ owns'[e] = owns[e] /\ registrations' = registrations
       => Valid(owns[e])' \/ closed'
<1>1. ASSUME BoundaryInv, [BoundaryNext]_boundaryVars, NEW e \in Electors PROVE Final(e)
  <2>0. /\ registrations \in Int /\ token[e].registration \in Int
        /\ token[e].registration <= registrations
    BY <1>1 DEF BoundaryInv, Issued, BoundaryTypeOK, Registrations
  <2>1. CASE \E f \in Electors : Register(f)
    BY <2>0, <2>1 DEF Register, Electable, Valid
  <2>2. CASE observer' \in {0, observer}
    BY <2>2, Zenon DEF Electable, Valid
  <2> QED
    BY <1>1, <2>1, <2>2, Zenon DEF BoundaryNext, boundaryVars, boundary, Lock,
       Begin, Mutate, Finish, WakeObserver,
       DropObserver, Observe, Read, Elect, Close
<1>2. ASSUME BoundaryInv, [BoundaryNext]_boundaryVars, NEW e \in Electors PROVE Kept(e)
  <2>1. CASE \E f \in Electors : Register(f)
    BY <1>2, <2>1 DEF BoundaryInv, BoundaryTypeOK, Registrations, Register
  <2>2. CASE \E f \in Electors : DropObserver(f)
    <3>1. PICK f \in Electors : DropObserver(f)
      BY <2>2, Zenon
    <3>2. f = e => owns'[e] = 0
      BY <1>2, <3>1, Zenon DEF BoundaryInv, BoundaryTypeOK, DropObserver
    <3>3. owns[f] = owns[e] => f = e
      BY <1>2, <3>1, Zenon DEF BoundaryInv, Issued, DropObserver
    <3> QED
      BY <3>1, <3>2, <3>3, Zenon DEF Valid, DropObserver
  <2>3. CASE closed' \/ UNCHANGED <<observer, closed>>
    BY <2>3, Zenon DEF Valid
  <2> QED
    BY <1>2, <2>1, <2>2, <2>3, Zenon DEF BoundaryNext, boundaryVars, boundary, Lock,
       Begin, Mutate, Finish, WakeObserver, Observe, Read, Elect, Close
<1> DEFINE Revokes == \A e \in Electors :
       /\ Final(e)
       /\ Kept(e)
<1>3. BoundaryInv /\ [BoundaryNext]_boundaryVars => [Revokes]_boundaryVars
  BY <1>1, <1>2, Zenon
<1>4. BoundarySpec => [][Revokes]_boundaryVars
  <2> HIDE DEF Revokes
  <2> QED
    BY <1>3, BoundaryInvariance, PTL DEF BoundarySpec
<1> QED
  BY <1>4, Zenon DEF RevocationIsFinal
-----------------------------------------------------------------------------
(* Counting the holders, and the theorems about the health gate.             *)
INSTANCE FiniteSetTheorems

HIDE DEF BoundaryOK
USE ThreadsAssumption, AdmissionsAssumption, GenerationAssumption DEF States, Candidate,
   Generations

\* The holders are finitely many, and active is their number.
LEMMA Counting == IInv => Countable
  <1> SUFFICES ASSUME TypeOK, AdmissionsCounted PROVE Countable
    BY Zenon DEF IInv
  <1>1. Holders \in SUBSET Threads
    BY Zenon DEF Holders
  <1>2. IsFiniteSet(Holders)
    BY <1>1, FS_Subset, Zenon
  <1>3. active = 0 <=> Holders = {}
    BY <1>2, FS_EmptySet, Zenon DEF AdmissionsCounted
  <1>4. \A t \in Threads :
           t \notin Holders => Cardinality(Holders \cup {t}) = Cardinality(Holders) + 1
    BY <1>2, FS_AddElement, Zenon
  <1>5. \A t \in Holders : Cardinality(Holders \ {t}) = Cardinality(Holders) - 1
    BY <1>2, FS_RemoveElement, Zenon
  <1> QED BY <1>3, <1>4, <1>5, Zenon DEF Countable

\* The inductive invariant holds in every reachable state.
LEMMA Invariance == Spec => []IInv
  <1>1. IInv /\ [Next]_vars => IInv'
    BY Counting, NextIInv, Zenon
  <1>2. Init => IInv
    BY InitIInv, FS_EmptySet, Zenon
  <1> QED BY <1>1, <1>2, PTL DEF Spec

\* HealthInner and the calls in progress keep their types: in particular the
\* admission count stays within MAX_CONCURRENT_STORAGE_ADMISSIONS.
THEOREM TypeCorrect == Spec => []TypeOK
  BY Invariance, PTL DEF IInv

\* `active` counts exactly the admissions held, nested ones excluded, so Drop
\* never underflows it.
THEOREM AdmissionsAreCounted == Spec => []AdmissionsCounted
  BY Invariance, PTL DEF IInv

\* recover_same_home reopens, and close releases, a home nobody is using.
THEOREM ReopenIsExclusive == Spec => []ExclusiveReopen
  BY Invariance, PTL DEF IInv

\* Threads and owner share `drained` without losing a wakeup.
THEOREM WakeupsAreNotLost == Spec => []NoLostWakeup
  BY Invariance, PTL DEF IInv

\* A failure signalled during a recovery keeps it from being published.
THEOREM FailuresStopPublication == Spec => FailureStopsPublication
  BY PublicationsUnsignalled, Invariance, PTL DEF Spec, FailureStopsPublication

\* The gate implements HomeAvailability: a confirmed result comes from the live
\* generation, generations go live in increasing order, and reopening excludes
\* every user.
THEOREM AvailabilityIsImplemented == Spec => ImplementsAvailability
  <1>1. Init => Availability!Init
    BY Zenon DEF Init, Availability!Init, Ordinary
  <1>2. IInv /\ [Next]_vars => [Availability!Next]_Availability!vars
    BY Counting, NextRefines, Zenon
  <1> QED BY <1>1, <1>2, Invariance, PTL DEF Spec, ImplementsAvailability, Availability!Spec
=============================================================================
