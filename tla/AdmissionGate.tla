--------------------------- MODULE AdmissionGate ---------------------------
(* crates/beryl-app/src/process_admission.rs: the state of the process       *)
(* admission gate and what each of its critical sections does to it.  The    *)
(* modules that use the gate (ProcessAdmission, WindowAdmission) compose     *)
(* these sections with the locks and the registries of their callers.        *)
EXTENDS Integers

CONSTANT EpochMax       \* the largest epoch: u64::MAX in the code

ASSUME EpochMaxAssumption == EpochMax \in Nat \ {0}

VARIABLES epoch, fenced, admissions

gate == <<epoch, fenced, admissions>>

GateInit == epoch = 1 /\ fenced = FALSE /\ admissions = 0

\* execution_permit: no epoch, here 0, while the gate is fenced.
ExecutionEpoch == IF fenced THEN 0 ELSE epoch

\* Mutant: a permit of an earlier epoch is as good as a new one.
AnyEpoch(e) == ~fenced /\ e # 0

\* ProcessExecutionPermit::validate.
Valid(e) == ~fenced /\ e = epoch

Reserve == admissions' = admissions + 1 /\ UNCHANGED <<epoch, fenced>>

Release == admissions' = admissions - 1 /\ UNCHANGED <<epoch, fenced>>

\* fence: a second one joins the first, and shares its epoch.
Fence ==
    /\ fenced \/ epoch < EpochMax
    /\ epoch' = IF fenced THEN epoch ELSE epoch + 1
    /\ fenced' = TRUE /\ UNCHANGED admissions

\* prepare_closing and publish, under one lock.
CanClose == ~fenced /\ admissions = 0 /\ epoch < EpochMax

Publish == epoch' = epoch + 1 /\ fenced' = TRUE /\ UNCHANGED admissions

\* with_settled_for and prepare_reopening of the fence with epoch f.
Settled(f) == fenced /\ epoch = f /\ admissions = 0

Reopen == fenced' = FALSE /\ UNCHANGED <<epoch, admissions>>

=============================================================================
