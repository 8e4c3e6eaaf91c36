----------------------------- MODULE HomeWriter -----------------------------
(* crates/beryl-home-store/src/writer.rs: revision-checked commands through   *)
(* the serialized writer of one home, from reservation to the outcome the    *)
(* caller gets, over the database they write (fjall, external), with the     *)
(* reconciliation of indeterminate commands, same-home recovery              *)
(* (recovery.rs) and process termination.                                    *)
(*                                                                           *)
(* Every command writes values of its own, so a record is modelled by the    *)
(* number of the command that wrote it last (0: never written).  A domain    *)
(* has one record; a contribution may put back the value it read.  The       *)
(* health gate and the reconciliation registry appear here by what they      *)
(* promise: HealthGate and ReconciliationRegistry model them.                *)
EXTENDS Integers, Sequences

CONSTANTS
    Threads, Domains,
    Contributions,   \* the [domains, changes] a command may carry
    MaxCommands, MaxRevision, MaxGeneration

ASSUME DomainsAssumption == Domains # {}
ASSUME ContributionsAssumption ==
    Contributions \subseteq [domains : (SUBSET Domains) \ {{}}, changes : SUBSET Domains]
ASSUME ChangesAssumption == \A p \in Contributions : p.changes \subseteq p.domains
ASSUME BoundsAssumption ==
    /\ MaxCommands \in Nat \ {0}
    /\ MaxRevision \in Nat \ {0}
    /\ MaxGeneration \in Nat \ {0}

Commands == 1..MaxCommands
Revisions == 1..MaxRevision
Generations == 1..MaxGeneration
Values == {0} \cup Commands

\* The contents of the database after a batch, and the command that wrote it.
Image ==
    [by : Values, home : Revisions, rev : [Domains -> Revisions],
     rec : [Domains -> Values]]
Genesis ==
    [by |-> 0, home |-> 1, rev |-> [d \in Domains |-> 1],
     rec |-> [d \in Domains |-> 0]]

VARIABLES
    journal,     \* the images in the order their batches were committed
    synced,      \* the length of the prefix that SyncAll made durable
    latched,     \* Database::health reports a retained failure
    healthy, generation,   \* the health gate
    poisoned,    \* the generations whose writer mutex is poisoned
    pc, svc,     \* each caller's step, and the generation of its HomeStore
    cmd,         \* the number of the command a caller is executing, or 0
    plan,        \* what that command asks for
    desc,        \* its descriptor: old records and intended receipt
    issued,      \* the number of commands so far
    outcome,     \* command -> what its caller was told
    scope,       \* command -> the descriptor the registry retains
    flight       \* command -> the answer a running reconciliation has read

database == <<journal, synced, latched>>
gate == <<healthy, generation, poisoned>>
callers == <<pc, svc, cmd, plan, desc>>
scopes == <<outcome, scope, flight>>
vars == <<database, gate, callers, issued, scopes>>

Live == journal[Len(journal)]

Locked == {"locked", "admitted", "prepared", "buffered", "synced", "refused", "unknown"}
Admitted == Locked \ {"locked"}
Steps == {"idle", "reserved"} \cup Locked
Answers == {"ExactOld", "ExactNew", "Collision"}
Outcomes == {"none", "NotCommitted", "Committed", "Indeterminate", "Lost"} \cup Answers

Plan == [domains : SUBSET Domains, changes : SUBSET Domains,
         sampled : BOOLEAN, base : Image]
Descriptor == [old : [Domains -> Values], new : [Domains -> Values],
               home : Revisions, rev : [Domains -> Revisions]]
Retained == [domains : SUBSET Domains, old : [Domains -> Values], new : [Domains -> Values]]

NoPlan == [domains |-> {}, changes |-> {}, sampled |-> FALSE, base |-> Genesis]
NoDescriptor == [old |-> Genesis.rec, new |-> Genesis.rec, home |-> 1, rev |-> Genesis.rev]
NoScope == [domains |-> {}, old |-> Genesis.rec, new |-> Genesis.rec]

\* One type invariant: the database, the gate, the callers and the commands.
TypeOK ==
    /\ journal \in Seq(Image) /\ synced \in 1..Len(journal) /\ latched \in BOOLEAN
    /\ healthy \in BOOLEAN /\ generation \in Generations
    /\ poisoned \subseteq Generations
    /\ pc \in [Threads -> Steps] /\ svc \in [Threads -> Generations]
    /\ cmd \in [Threads -> Values]
    /\ plan \in [Threads -> Plan] /\ desc \in [Threads -> Descriptor]
    /\ issued \in Values
    /\ outcome \in [Commands -> Outcomes] /\ scope \in [Commands -> Retained]
    /\ flight \in [Commands -> {"none"} \cup Answers]

Init ==
    /\ journal = <<Genesis>> /\ synced = 1 /\ latched = FALSE
    /\ healthy = TRUE /\ generation = 1 /\ poisoned = {}
    /\ pc = [t \in Threads |-> "idle"] /\ svc = [t \in Threads |-> 1]
    /\ cmd = [t \in Threads |-> 0]
    /\ plan = [t \in Threads |-> NoPlan] /\ desc = [t \in Threads |-> NoDescriptor]
    /\ issued = 0
    /\ outcome = [c \in Commands |-> "none"]
    /\ scope = [c \in Commands |-> NoScope]
    /\ flight = [c \in Commands |-> "none"]

-----------------------------------------------------------------------------
(* A call.                                                                   *)

At(t, step) == pc' = [pc EXCEPT ![t] = step]

(* The caller returns with `told`; the writer, the admission and the         *)
(* command's state are dropped.                                              *)
Return(t, told) ==
    /\ At(t, "idle")
    /\ svc' = [svc EXCEPT ![t] = 1]
    /\ cmd' = [cmd EXCEPT ![t] = 0]
    /\ plan' = [plan EXCEPT ![t] = NoPlan]
    /\ desc' = [desc EXCEPT ![t] = NoDescriptor]
    /\ outcome' = [outcome EXCEPT ![cmd[t]] = told]

(* The caller builds a command on a service reference, of this generation or *)
(* of a retired one; a HomeCommand carries the revisions its caller sampled, *)
(* a CurrentDomainCommand or CurrentHomeCommand does not.  Revisions are     *)
(* read through the same reference, hence only while it is current.          *)
Call(t, g, p, sampled) ==
    /\ pc[t] = "idle" /\ issued < MaxCommands
    /\ g <= generation /\ (sampled => g = generation /\ healthy)
    /\ At(t, "reserved")
    /\ svc' = [svc EXCEPT ![t] = g]
    /\ cmd' = [cmd EXCEPT ![t] = issued + 1]
    /\ issued' = issued + 1
    /\ plan' = [plan EXCEPT ![t] =
                    [domains |-> p.domains, changes |-> p.changes, sampled |-> sampled,
                     base |-> IF sampled THEN Live ELSE Genesis]]
    /\ UNCHANGED <<database, gate, desc, scopes>>

(* Cancelled, malformed, no registry slot, or reentrant: nothing is written. *)
RefuseEarly(t) ==
    /\ pc[t] = "reserved"
    /\ Return(t, "NotCommitted")
    /\ UNCHANGED <<database, gate, issued, scope, flight>>

(* acquire_writer: one mutex for each generation's store.                    *)
WriterFree(t) == \A u \in Threads : pc[u] \in Locked => svc[u] # svc[t]

Acquire(t) ==
    /\ pc[t] = "reserved" /\ svc[t] \notin poisoned /\ WriterFree(t)
    /\ At(t, "locked")
    /\ UNCHANGED <<database, gate, svc, cmd, plan, desc, issued, scopes>>

(* WriterPoisoned: the home fails when this store is still admitted.         *)
AcquirePoisoned(t) ==
    /\ pc[t] = "reserved" /\ svc[t] \in poisoned
    /\ healthy' = (healthy /\ svc[t] # generation)
    /\ Return(t, "NotCommitted")
    /\ UNCHANGED <<database, generation, poisoned, issued, scope, flight>>

\* Mutant: a reference to a retired store is admitted.
AdmitsAnyGeneration(t) == healthy

(* access.admit, after the last look at the cancellation.                    *)
Admits(t) == healthy /\ svc[t] = generation

Admit(t) ==
    /\ pc[t] = "locked" /\ Admits(t)
    /\ At(t, "admitted")
    /\ UNCHANGED <<database, gate, svc, cmd, plan, desc, issued, scopes>>

RefuseAdmission(t) ==
    /\ pc[t] = "locked"
    /\ Return(t, "NotCommitted")
    /\ UNCHANGED <<database, gate, issued, scope, flight>>

(* The fence of execute_admitted: home and domain revisions as sampled.      *)
Fenced(p) ==
    p.sampled => /\ Live.home = p.base.home
                 /\ \A d \in p.domains : Live.rev[d] = p.base.rev[d]

(* intended_receipt: checked_next of the home and of every mutated domain.   *)
Advances(p) == Live.home < MaxRevision /\ \A d \in p.domains : Live.rev[d] < MaxRevision

\* Mutant: the receipt repeats the home revision.
MaterializedSameHome(c, p) ==
    [old |-> Live.rec,
     new |-> [d \in Domains |-> IF d \in p.changes THEN c ELSE Live.rec[d]],
     home |-> Live.home,
     rev |-> [d \in Domains |-> IF d \in p.domains THEN Live.rev[d] + 1 ELSE Live.rev[d]]]

(* materialize_reservation: the receipt and the old records, from the        *)
(* snapshot, before anything is written.                                     *)
Materialized(c, p) ==
    [old |-> Live.rec,
     new |-> [d \in Domains |-> IF d \in p.changes THEN c ELSE Live.rec[d]],
     home |-> Live.home + 1,
     rev |-> [d \in Domains |-> IF d \in p.domains THEN Live.rev[d] + 1 ELSE Live.rev[d]]]

Prepare(t) ==
    /\ pc[t] = "admitted"
    /\ Fenced(plan[t]) /\ Advances(plan[t])
    /\ desc' = [desc EXCEPT ![t] = Materialized(cmd[t], plan[t])]
    /\ At(t, "prepared")
    /\ UNCHANGED <<database, gate, svc, cmd, plan, issued, scopes>>

(* A conflict, a rejection by a participant, exhausted revisions, a failed   *)
(* read or assembly: NotCommitted.                                           *)
Refuse(t) ==
    /\ pc[t] \in {"admitted", "prepared"}
    /\ At(t, "refused")
    /\ UNCHANGED <<database, gate, svc, cmd, plan, desc, issued, scopes>>

(* A participant's callback panics: FailClosedOnWriterPanic, and unwinding   *)
(* poisons the writer mutex and drops the reservation.                       *)
Panic(t) ==
    /\ pc[t] = "admitted"
    /\ healthy' = FALSE
    /\ poisoned' = poisoned \cup {svc[t]}
    /\ Return(t, "Lost")
    /\ UNCHANGED <<database, generation, issued, scope, flight>>

-----------------------------------------------------------------------------
(* commit_prepared.  The batch writes the receipt's revisions and the        *)
(* contributed records over the database as it is.                           *)

Batch(t) ==
    LET own(d) == d \in plan[t].domains
    IN  [by |-> cmd[t], home |-> desc[t].home,
         rev |-> [d \in Domains |-> IF own(d) THEN desc[t].rev[d] ELSE Live.rev[d]],
         rec |-> [d \in Domains |-> IF own(d) THEN desc[t].new[d] ELSE Live.rec[d]]]

Applied(t) == journal' = Append(journal, Batch(t))

(* batch.commit() succeeds, or reports CommitState::Committed.               *)
Commit(t) ==
    /\ pc[t] = "prepared"
    /\ Applied(t)
    /\ latched' \in {latched, TRUE}
    /\ At(t, "buffered")
    /\ UNCHANGED <<synced, gate, svc, cmd, plan, desc, issued, scopes>>

(* CommitState::NotCommitted.                                                *)
CommitRefused(t) ==
    /\ pc[t] = "prepared"
    /\ At(t, "refused")
    /\ UNCHANGED <<database, gate, svc, cmd, plan, desc, issued, scopes>>

\* Mutant: an indeterminate commit is reported as no commit.
CommitUnknownAsRefused(t) ==
    /\ pc[t] = "prepared"
    /\ Applied(t) \/ UNCHANGED journal
    /\ latched' = TRUE
    /\ At(t, "refused")
    /\ UNCHANGED <<synced, gate, svc, cmd, plan, desc, issued, scopes>>

(* CommitState::Indeterminate or none: the batch is there, or is not.        *)
CommitUnknown(t) ==
    /\ pc[t] = "prepared"
    /\ Applied(t) \/ UNCHANGED journal
    /\ latched' = TRUE
    /\ At(t, "unknown")
    /\ UNCHANGED <<synced, gate, svc, cmd, plan, desc, issued, scopes>>

(* persist(SyncAll) covers everything committed so far.                      *)
Persist(t) ==
    /\ pc[t] = "buffered"
    /\ synced' = Len(journal)
    /\ At(t, "synced")
    /\ UNCHANGED <<journal, latched, gate, svc, cmd, plan, desc, issued, scopes>>

\* Mutant: the error of persist is dropped.
PersistErrorIgnored(t) ==
    /\ pc[t] = "buffered"
    /\ latched' = TRUE
    /\ At(t, "synced")
    /\ UNCHANGED <<journal, synced, gate, svc, cmd, plan, desc, issued, scopes>>

PersistFails(t) ==
    /\ pc[t] = "buffered"
    /\ latched' = TRUE
    /\ At(t, "unknown")
    /\ UNCHANGED <<journal, synced, gate, svc, cmd, plan, desc, issued, scopes>>

-----------------------------------------------------------------------------
(* The end of execute_serialized and finalize_outcome.  An error may be      *)
(* structural and fail the home; a committed command observes the            *)
(* database's health, and a failure there does not take the commit back.     *)

Verdict(step) ==
    CASE step = "refused" -> "NotCommitted"
      [] step = "synced" -> "Committed"
      [] step = "unknown" -> "Indeterminate"

Settle(t) ==
    /\ pc[t] \in {"refused", "synced", "unknown"}
    /\ healthy' \in IF pc[t] = "synced" /\ latched THEN {FALSE} ELSE {healthy, FALSE}
    /\ Return(t, Verdict(pc[t]))
    /\ scope' = [scope EXCEPT ![cmd[t]] =
           IF pc[t] = "unknown"
           THEN [domains |-> plan[t].domains, old |-> desc[t].old, new |-> desc[t].new]
           ELSE @]
    /\ UNCHANGED <<database, generation, poisoned, issued, flight>>

-----------------------------------------------------------------------------
(* Reconciliation: each domain's hook compares its records with the          *)
(* descriptor; ordinary_exact_side composes the domains.                     *)

OldPossible(c) == \A d \in scope[c].domains : Live.rec[d] = scope[c].old[d]

NewPossible(c) == \A d \in scope[c].domains : Live.rec[d] = scope[c].new[d]

Answer(c) ==
    CASE OldPossible(c) /\ ~NewPossible(c) -> "ExactOld"
      [] NewPossible(c) /\ ~OldPossible(c) -> "ExactNew"
      [] OTHER -> "Collision"

ReconcileRead(c) ==
    /\ outcome[c] = "Indeterminate" /\ flight[c] = "none" /\ healthy
    /\ flight' = [flight EXCEPT ![c] = Answer(c)]
    /\ UNCHANGED <<database, gate, callers, issued, outcome, scope>>

\* Mutant: the database's own health is not observed.
ConfirmsGateOnly == healthy

(* confirm_database before the answer is published; a failed flight may be   *)
(* retried.                                                                  *)
Confirms == healthy /\ ~latched

ReconcilePublish(c) ==
    /\ flight[c] # "none"
    /\ flight' = [flight EXCEPT ![c] = "none"]
    /\ outcome' = [outcome EXCEPT ![c] = IF Confirms THEN flight[c] ELSE @]
    /\ scope' = [scope EXCEPT ![c] = IF Confirms THEN NoScope ELSE @]
    /\ healthy' = (healthy /\ ~latched)
    /\ UNCHANGED <<database, generation, poisoned, callers, issued>>

-----------------------------------------------------------------------------
(* Failures, recovery and termination.                                       *)

(* signal_failure by another part of the home, or a failure the database     *)
(* retains from its own maintenance.                                         *)
Fail ==
    /\ healthy \/ ~latched
    /\ healthy' \in {healthy, FALSE} /\ latched' \in {latched, TRUE}
    /\ UNCHANGED <<journal, synced, generation, poisoned, callers, issued, scopes>>

Drained == (\A t \in Threads : pc[t] \notin Admitted) /\ (\A c \in Commands : flight[c] = "none")

(* What opening the database finds: every synced batch, and a prefix of the  *)
(* rest.                                                                     *)
Reopened == \E n \in synced..Len(journal) : journal' = SubSeq(journal, 1, n)

(* recover_same_home and publish: the failed generation is dropped, the      *)
(* database reopened and synced, and the new store has its own writer.       *)
Recover ==
    /\ ~healthy /\ Drained /\ generation < MaxGeneration
    /\ Reopened /\ synced' = Len(journal') /\ latched' = FALSE
    /\ healthy' = TRUE /\ generation' = generation + 1
    /\ UNCHANGED <<poisoned, callers, issued, scopes>>

(* The process is terminated and the home opened by the next one: commands   *)
(* in progress and unresolved scopes are gone.                               *)
Crash ==
    /\ issued > 0
    /\ Reopened /\ synced' = synced /\ latched' = FALSE
    /\ healthy' = TRUE /\ generation' = 1 /\ poisoned' = {}
    /\ pc' = [t \in Threads |-> "idle"] /\ svc' = [t \in Threads |-> 1]
    /\ cmd' = [t \in Threads |-> 0]
    /\ plan' = [t \in Threads |-> NoPlan] /\ desc' = [t \in Threads |-> NoDescriptor]
    /\ scope' = [c \in Commands |-> NoScope]
    /\ outcome' = [c \in Commands |->
           IF c <= issued /\ outcome[c] \in {"none", "Indeterminate"} THEN "Lost" ELSE outcome[c]]
    /\ flight' = [c \in Commands |-> "none"]
    /\ UNCHANGED issued

-----------------------------------------------------------------------------
Step(t) ==
    \/ \E g \in Generations, p \in Contributions, b \in BOOLEAN : Call(t, g, p, b)
    \/ RefuseEarly(t) \/ Acquire(t) \/ AcquirePoisoned(t)
    \/ Admit(t) \/ RefuseAdmission(t)
    \/ Prepare(t) \/ Refuse(t) \/ Panic(t)
    \/ Commit(t) \/ CommitRefused(t) \/ CommitUnknown(t)
    \/ Persist(t) \/ PersistFails(t)
    \/ Settle(t)

Next ==
    \/ \E t \in Threads : Step(t)
    \/ \E c \in Commands : ReconcileRead(c) \/ ReconcilePublish(c)
    \/ Fail \/ Recover \/ Crash

Spec == Init /\ [][Next]_vars

-----------------------------------------------------------------------------
Wrote(c, n) == \E i \in 1..n : journal[i].by = c

\* A caller told Committed finds its batch in the durable prefix, whatever
\* fails or crashes afterwards (writer.rs: only a successful SyncAll after the
\* commit leads to Committed).
CommittedIsDurable ==
    \A c \in Commands : outcome[c] = "Committed" => Wrote(c, synced)

\* A caller told NotCommitted never finds its batch in the database, in this
\* process or the next one.
NotCommittedIsAbsent ==
    \A c \in Commands : outcome[c] = "NotCommitted" => ~Wrote(c, Len(journal))

Follows(image, before) ==
    /\ image.home = before.home + 1
    /\ \A d \in Domains :
          \/ image.rev[d] = before.rev[d] + 1 /\ image.rec[d] \in {before.rec[d], image.by}
          \/ image.rev[d] = before.rev[d] /\ image.rec[d] = before.rec[d]

\* Batches form one serial history: each advances the home by one, advances the
\* domains it writes by one, and leaves every other domain and every other
\* command's record as it found them.
BatchesSerialize == \A i \in 2..Len(journal) : Follows(journal[i], journal[i - 1])

\* A command about to be committed is based on the contents that are live at
\* that moment; with sampled revisions, on the very contents its caller sampled,
\* even when recovery dropped batches and revision numbers were used again.
PreparedIsCurrent ==
    \A t \in Threads :
        pc[t] = "prepared" => /\ desc[t].old = Live.rec
                              /\ plan[t].sampled => plan[t].base = Live

\* A published reconciliation is true and stays true: ExactNew names a durable
\* batch, ExactOld one that is not in the database.
ReconciledIsTrue ==
    \A c \in Commands :
        /\ outcome[c] = "ExactNew" => Wrote(c, synced)
        /\ outcome[c] = "ExactOld" => ~Wrote(c, Len(journal))
=============================================================================
