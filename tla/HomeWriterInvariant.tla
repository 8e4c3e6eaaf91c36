-------------------------- MODULE HomeWriterInvariant -----------------------
(* The inductive invariant of the serialized writer, what a step that leaves *)
(* part of the state alone leaves true, the steps that only move a caller,   *)
(* and those that take it from its batch to its answer.                      *)
EXTENDS HomeWriter, TLAPS

(* One serial history: revisions count the batches, every command writes at  *)
(* most one, and a record's value was already there or was written since.    *)
Numbered == \A i \in 1..Len(journal) : journal[i].home = i
Authored == \A i \in 2..Len(journal) : journal[i].by \in 1..issued
AuthoredOnce == \A i, j \in 2..Len(journal) : journal[i].by = journal[j].by => i = j
Traced(i, j) ==
    \A d \in Domains :
        \/ journal[j].rec[d] = journal[i].rec[d]
        \/ \E k \in (i + 1)..j : journal[k].by = journal[j].rec[d]
RecordsTraced == \A i, j \in 1..Len(journal) : i <= j => Traced(i, j)
JournalOK == journal[1] = Genesis /\ Numbered /\ Authored /\ AuthoredOnce /\ RecordsTraced

(* Callers run distinct commands; the admitted one is alone.                 *)
CallersOK ==
    /\ \A t \in Threads : svc[t] <= generation
    /\ \A t \in Threads : pc[t] # "idle" => cmd[t] \in 1..issued /\ outcome[cmd[t]] = "none"
    /\ \A t, u \in Threads : pc[t] # "idle" /\ pc[u] # "idle" /\ cmd[t] = cmd[u] => t = u
    /\ \A t \in Threads : pc[t] \in Admitted => svc[t] = generation
    /\ \A t, u \in Threads : pc[t] \in Locked /\ pc[u] \in Locked /\ svc[t] = svc[u] => t = u

(* While its generation lives, a sampled base is an image of the journal.    *)
SampledOK ==
    \A t \in Threads : pc[t] # "idle" /\ plan[t].sampled /\ svc[t] = generation
        => plan[t].base.home <= Len(journal) /\ journal[plan[t].base.home] = plan[t].base

(* A descriptor's new value is the command's own or the old one.             *)
Shaped(c, old, new) == \A d \in Domains : old[d] # c /\ new[d] \in {old[d], c}

(* A descriptor describes the batch, if the batch is there.                  *)
Linked(c, ds, old, new) ==
    \A i \in 2..Len(journal) : journal[i].by = c
        => \A d \in ds : old[d] = journal[i - 1].rec[d] /\ new[d] = journal[i].rec[d]

\* What a caller knows of its batch at each step.
ThreadOK(t) ==
    /\ pc[t] \in {"reserved", "locked", "admitted", "prepared", "refused"}
          => ~Wrote(cmd[t], Len(journal))
    /\ pc[t] = "prepared" => desc[t] = Materialized(cmd[t], plan[t])
    /\ pc[t] \in {"prepared", "buffered", "unknown"}
          => Shaped(cmd[t], desc[t].old, desc[t].new)
    /\ pc[t] \in {"buffered", "unknown"}
          => Linked(cmd[t], plan[t].domains, desc[t].old, desc[t].new)
    /\ pc[t] = "buffered" => Wrote(cmd[t], Len(journal))
    /\ pc[t] = "synced" => Wrote(cmd[t], synced)
ThreadsOK == \A t \in Threads : ThreadOK(t)

\* What a retained scope, and a reconciliation of it, say of their command.
ScopesOK ==
    \A c \in Commands :
        /\ c > issued => outcome[c] = "none"
        /\ outcome[c] = "Indeterminate"
              => /\ Shaped(c, scope[c].old, scope[c].new)
                 /\ Linked(c, scope[c].domains, scope[c].old, scope[c].new)
        /\ flight[c] # "none" => outcome[c] = "Indeterminate"
        /\ flight[c] = "ExactNew" => Wrote(c, Len(journal))
        /\ flight[c] = "ExactOld" => ~Wrote(c, Len(journal))

(* What is not synced belongs to a caller about to sync it, or to a command  *)
(* of a terminated process, or the database's health tells.                  *)
TailOK ==
    \A i \in (synced + 1)..Len(journal) :
        /\ outcome[journal[i].by] # "Collision"
        /\ \/ latched
           \/ outcome[journal[i].by] = "Lost"
           \/ \E t \in Threads : pc[t] = "buffered" /\ cmd[t] = journal[i].by

IInv ==
    /\ TypeOK /\ JournalOK /\ BatchesSerialize /\ CallersOK /\ SampledOK /\ PreparedIsCurrent
    /\ ThreadsOK /\ ScopesOK /\ TailOK
    /\ CommittedIsDurable /\ NotCommittedIsAbsent /\ ReconciledIsTrue

-----------------------------------------------------------------------------
\* The values a returning caller leaves behind are of their types.
LEMMA NothingIsTyped ==
    /\ 1 \in Generations /\ 0 \in Values /\ Genesis \in Image
    /\ NoPlan \in Plan /\ NoDescriptor \in Descriptor /\ NoScope \in Retained
<1>1. 1 \in Revisions /\ 1 \in Generations /\ 0 \in Values
  BY BoundsAssumption DEF Revisions, Generations, Values
<1>2. Genesis \in Image
  BY <1>1, Zenon DEF Genesis, Image
<1>3. NoPlan \in Plan
  BY <1>2, Zenon DEF NoPlan, Plan
<1>4. NoDescriptor \in Descriptor /\ NoScope \in Retained
  BY <1>1, Zenon DEF NoDescriptor, Descriptor, NoScope, Retained, Genesis
<1> QED
  BY <1>1, <1>2, <1>3, <1>4, Zenon

\* The freshly opened home: one image, no caller, no scope.
LEMMA InitIInv == Init => IInv
<1> SUFFICES ASSUME Init PROVE IInv
  BY Zenon
<1>1. 1 \in Generations /\ 0 \in Values
  BY NothingIsTyped, Zenon
<1>2. Genesis \in Image
  BY NothingIsTyped, Zenon
<1>3. Len(journal) = 1 /\ journal[1] = Genesis
  BY Zenon DEF Init
<1>4. TypeOK
  <2>1. /\ journal \in Seq(Image) /\ synced \in 1..Len(journal)
        /\ generation \in Generations /\ poisoned \subseteq Generations /\ issued \in Values
    BY <1>1, <1>2, <1>3 DEF Init
  <2>2. latched \in BOOLEAN /\ healthy \in BOOLEAN
    BY Zenon DEF Init
  <2>3. /\ pc \in [Threads -> Steps] /\ svc \in [Threads -> Generations]
        /\ cmd \in [Threads -> Values]
    BY <1>1, Zenon DEF Init, Steps
  <2>4. NoPlan \in Plan /\ NoDescriptor \in Descriptor /\ NoScope \in Retained
    BY NothingIsTyped, Zenon
  <2>5. plan \in [Threads -> Plan] /\ desc \in [Threads -> Descriptor]
    BY <2>4, Zenon DEF Init
  <2>6. /\ outcome \in [Commands -> Outcomes] /\ scope \in [Commands -> Retained]
        /\ flight \in [Commands -> {"none"} \cup Answers]
    BY <2>4, Zenon DEF Init, Outcomes
  <2> QED
    BY <2>1, <2>2, <2>3, <2>5, <2>6, Zenon DEF TypeOK
<1>5. JournalOK /\ BatchesSerialize
  BY <1>3 DEF JournalOK, Numbered, Authored, AuthoredOnce, RecordsTraced, Traced,
     BatchesSerialize, Genesis
<1>6. CallersOK /\ SampledOK /\ PreparedIsCurrent /\ ThreadsOK
  BY <1>3 DEF Init, CallersOK, SampledOK, PreparedIsCurrent, ThreadsOK, ThreadOK, Admitted, Locked
<1>7. ScopesOK
  BY Zenon DEF Init, ScopesOK
<1>8. TailOK
  BY <1>3 DEF Init, TailOK
<1>9. CommittedIsDurable /\ NotCommittedIsAbsent /\ ReconciledIsTrue
  BY Zenon DEF Init, CommittedIsDurable, NotCommittedIsAbsent, ReconciledIsTrue
<1> QED
  BY <1>4, <1>5, <1>6, <1>7, <1>8, <1>9, Zenon DEF IInv

-----------------------------------------------------------------------------
\* Committing the batch of a prepared caller keeps the history serial, adds
\* that command's batch and no other, and the batch is what its descriptor says.
LEMMA AppendJournal ==
    ASSUME IInv, NEW t \in Threads, pc[t] = "prepared", Applied(t), issued' = issued
    PROVE  /\ journal' \in Seq(Image) /\ Len(journal') = Len(journal) + 1
           /\ \A i \in 1..Len(journal) : journal'[i] = journal[i]
           /\ journal'[Len(journal) + 1].by = cmd[t]
           /\ \A d \in plan[t].domains :
                 /\ desc[t].old[d] = Live.rec[d]
                 /\ desc[t].new[d] = journal'[Len(journal) + 1].rec[d]
           /\ JournalOK' /\ BatchesSerialize'
<1> DEFINE n == Len(journal)
           image == Batch(t)
<1>1. /\ journal \in Seq(Image) /\ n \in Nat /\ n >= 1 /\ Live \in Image
      /\ Live = journal[n]
  BY DEF IInv, TypeOK, Live
<1>2. /\ plan[t] \in Plan /\ desc[t] \in Descriptor /\ cmd[t] \in 1..issued
      /\ desc[t] = Materialized(cmd[t], plan[t])
  BY Zenon DEF IInv, TypeOK, CallersOK, ThreadsOK, ThreadOK
<1>3. /\ desc[t].old = Live.rec /\ desc[t].home = Live.home + 1
      /\ \A d \in Domains :
            /\ desc[t].new[d] = IF d \in plan[t].changes THEN cmd[t] ELSE Live.rec[d]
            /\ desc[t].rev[d] = IF d \in plan[t].domains THEN Live.rev[d] + 1 ELSE Live.rev[d]
  BY <1>2 DEF Materialized
<1>4. image \in Image
  <2>1. cmd[t] \in Values /\ desc[t].home \in Revisions
    BY <1>2, Zenon DEF Descriptor, IInv, TypeOK
  <2>2. [d \in Domains |-> IF d \in plan[t].domains THEN desc[t].rev[d] ELSE Live.rev[d]]
           \in [Domains -> Revisions]
    BY <1>1, <1>2, Zenon DEF Descriptor, Image
  <2>3. [d \in Domains |-> IF d \in plan[t].domains THEN desc[t].new[d] ELSE Live.rec[d]]
           \in [Domains -> Values]
    BY <1>1, <1>2, Zenon DEF Descriptor, Image
  <2> QED
    BY <2>1, <2>2, <2>3, Zenon DEF Batch, Image
<1>5. /\ image.by = cmd[t] /\ image.home = Live.home + 1
      /\ \A d \in Domains :
            \/ image.rev[d] = Live.rev[d] + 1 /\ image.rec[d] \in {Live.rec[d], cmd[t]}
            \/ image.rev[d] = Live.rev[d] /\ image.rec[d] = Live.rec[d]
      /\ \A d \in Domains : image.rec[d] \in {Live.rec[d], cmd[t]}
      /\ \A d \in plan[t].domains : desc[t].new[d] = image.rec[d]
  BY <1>2, <1>3, Zenon DEF Batch, Plan
<1>6. /\ journal' \in Seq(Image) /\ Len(journal') = n + 1
      /\ \A i \in 1..n : journal'[i] = journal[i]
      /\ journal'[n + 1] = image
  BY <1>1, <1>4 DEF Applied
<1>7. ~Wrote(cmd[t], n)
  BY Zenon DEF IInv, ThreadsOK, ThreadOK
<1>8. JournalOK'
  <2>1. journal'[1] = Genesis
    BY <1>1, <1>6 DEF IInv, JournalOK
  <2>2. Numbered'
    BY <1>1, <1>5, <1>6 DEF IInv, JournalOK, Numbered
  <2>3. Authored'
    BY <1>1, <1>2, <1>5, <1>6 DEF IInv, JournalOK, Authored
  <2>4. AuthoredOnce'
    BY <1>1, <1>5, <1>6, <1>7 DEF IInv, JournalOK, AuthoredOnce, Wrote
  <2>5. RecordsTraced'
    <3> SUFFICES ASSUME NEW i \in 1..(n + 1), NEW j \in 1..(n + 1), i <= j, NEW d \in Domains
                 PROVE  \/ journal'[j].rec[d] = journal'[i].rec[d]
                        \/ \E k \in (i + 1)..j : journal'[k].by = journal'[j].rec[d]
      <4>1. Len(journal') = n + 1
        BY <1>6, Zenon
      <4> HIDE DEF n, image
      <4> QED
        BY <4>1 DEF RecordsTraced, Traced
    <3>1. CASE j <= n
      <4>1. \/ journal[j].rec[d] = journal[i].rec[d]
            \/ \E k \in (i + 1)..j : journal[k].by = journal[j].rec[d]
        <5>1. i \in 1..Len(journal) /\ j \in 1..Len(journal) /\ i <= j
          BY <1>1, <3>1
        <5> QED
          BY <5>1, Zenon DEF IInv, JournalOK, RecordsTraced, Traced
      <4> QED
        BY <1>1, <1>6, <3>1, <4>1
    <3>2. CASE j = n + 1 /\ i = j
      BY <3>2, Zenon
    <3>3. CASE j = n + 1 /\ i <= n /\ image.rec[d] = cmd[t]
      BY <1>1, <1>5, <1>6, <3>3
    <3>4. CASE j = n + 1 /\ i <= n /\ image.rec[d] = Live.rec[d]
      <4>1. \/ journal[n].rec[d] = journal[i].rec[d]
            \/ \E k \in (i + 1)..n : journal[k].by = journal[n].rec[d]
        BY <1>1, <3>4 DEF IInv, JournalOK, RecordsTraced, Traced
      <4> QED
        BY <1>1, <1>6, <3>4, <4>1
    <3> QED
      BY <1>1, <1>5, <3>1, <3>2, <3>3, <3>4
  <2> QED
    BY <2>1, <2>2, <2>3, <2>4, <2>5, Zenon DEF JournalOK
<1>9. BatchesSerialize'
  <2>1. Follows(image, Live)
    BY <1>5, Zenon DEF Follows
  <2> SUFFICES ASSUME NEW i \in 2..(n + 1) PROVE Follows(journal'[i], journal'[i - 1])
    BY <1>6, Zenon DEF BatchesSerialize, Follows
  <2>2. CASE i = n + 1
    BY <1>1, <1>6, <2>1, <2>2
  <2>3. CASE i \in 2..n
    BY <1>1, <1>6, <2>3 DEF IInv, BatchesSerialize
  <2> QED
    BY <1>1, <2>2, <2>3
<1> QED
  BY <1>3, <1>5, <1>6, <1>8, <1>9, Zenon

\* Reopening keeps a prefix of the history, and with it every property of it.
LEMMA TruncateJournal ==
    ASSUME IInv, Reopened, issued' = issued
    PROVE  /\ journal' \in Seq(Image) /\ Len(journal') \in synced..Len(journal)
           /\ \A i \in 1..Len(journal') : journal'[i] = journal[i]
           /\ JournalOK' /\ BatchesSerialize'
<1>1. PICK n \in synced..Len(journal) : journal' = SubSeq(journal, 1, n)
  BY Zenon DEF Reopened
<1>2. /\ journal \in Seq(Image) /\ Len(journal) \in Nat
      /\ n \in Nat /\ n >= 1 /\ n <= Len(journal)
  BY DEF IInv, TypeOK
<1>3. /\ journal' \in Seq(Image) /\ Len(journal') = n
      /\ \A i \in 1..n : journal'[i] = journal[i]
  BY <1>1, <1>2
<1>4. JournalOK'
  <2>1. /\ journal[1] = Genesis /\ Numbered /\ Authored /\ AuthoredOnce
    BY Zenon DEF IInv, JournalOK
  <2>3. journal'[1] = Genesis /\ Numbered'
    BY <1>2, <1>3, <2>1 DEF Numbered
  <2>4. Authored'
    BY <1>2, <1>3, <2>1 DEF Authored
  <2>5. AuthoredOnce'
    BY <1>2, <1>3, <2>1 DEF AuthoredOnce
  <2>2. RecordsTraced'
    <3> SUFFICES ASSUME NEW i \in 1..n, NEW j \in 1..n, i <= j, NEW d \in Domains
                 PROVE  \/ journal'[j].rec[d] = journal'[i].rec[d]
                        \/ \E k \in (i + 1)..j : journal'[k].by = journal'[j].rec[d]
      BY <1>3, Zenon DEF RecordsTraced, Traced
    <3>1. \/ journal[j].rec[d] = journal[i].rec[d]
          \/ \E k \in (i + 1)..j : journal[k].by = journal[j].rec[d]
      <4>1. i \in 1..Len(journal) /\ j \in 1..Len(journal)
        BY <1>2
      <4> QED
        BY <4>1, Zenon DEF IInv, JournalOK, RecordsTraced, Traced
    <3> QED
      BY <1>2, <1>3, <3>1
  <2> QED
    BY <2>2, <2>3, <2>4, <2>5, Zenon DEF JournalOK
<1>5. BatchesSerialize'
  <2> SUFFICES ASSUME NEW i \in 2..n PROVE Follows(journal'[i], journal'[i - 1])
    BY <1>3, Zenon DEF BatchesSerialize, Follows
  <2> QED
    BY <1>2, <1>3 DEF IInv, BatchesSerialize
<1> QED
  BY <1>3, <1>4, <1>5, Zenon

-----------------------------------------------------------------------------
\* Steps that write nothing leave the history as it is.
LEMMA SameJournal ==
    ASSUME IInv, journal' = journal, issued' \in Nat, issued' >= issued
    PROVE  JournalOK' /\ BatchesSerialize'
<1>1. issued \in Nat
  BY BoundsAssumption DEF IInv, TypeOK, Values, Commands
<1>2. Numbered' /\ AuthoredOnce' /\ RecordsTraced' /\ BatchesSerialize'
  BY DEF IInv, JournalOK, Numbered, AuthoredOnce, RecordsTraced, Traced, BatchesSerialize,
     Follows
<1>3. Authored'
  BY <1>1 DEF IInv, JournalOK, Authored
<1> QED
  BY <1>2, <1>3, Zenon DEF IInv, JournalOK

\* Steps of the commands in progress leave the scopes and the outcomes as they are.
LEMMA SameScopes ==
    ASSUME IInv, journal' = journal, synced' \in synced..Len(journal), issued' \in Nat,
           issued' >= issued, outcome' = outcome, scope' = scope, flight' = flight
    PROVE  (ScopesOK /\ CommittedIsDurable /\ NotCommittedIsAbsent /\ ReconciledIsTrue)'
<1>1. synced \in Nat /\ issued \in Nat /\ Len(journal) \in Nat /\ Commands \subseteq Nat
  BY BoundsAssumption DEF IInv, TypeOK, Values, Commands
<1>2. \A c : Wrote(c, Len(journal))' <=> Wrote(c, Len(journal))
  BY Zenon DEF Wrote
<1>3. \A c : Wrote(c, synced) => Wrote(c, synced)'
  BY <1>1 DEF Wrote
<1>4. \A c, ds, old, new : Linked(c, ds, old, new)' <=> Linked(c, ds, old, new)
  BY DEF Linked
<1>5. ScopesOK'
  BY <1>1, <1>2, <1>4 DEF IInv, ScopesOK, Shaped
<1>6. (CommittedIsDurable /\ NotCommittedIsAbsent /\ ReconciledIsTrue)'
  BY <1>2, <1>3, Zenon DEF IInv, CommittedIsDurable, NotCommittedIsAbsent, ReconciledIsTrue
<1> QED
  BY <1>5, <1>6, Zenon

\* What callers know of a history that did not change.
LEMMA SameKnowledge ==
    ASSUME IInv, journal' = journal, cmd' = cmd, plan' = plan, desc' = desc,
           synced' \in synced..Len(journal)
    PROVE  \A u \in Threads :
              /\ Wrote(cmd[u], Len(journal))' <=> Wrote(cmd[u], Len(journal))
              /\ Wrote(cmd[u], synced) => Wrote(cmd[u], synced)'
              /\ Materialized(cmd[u], plan[u])' = Materialized(cmd[u], plan[u])
              /\ Shaped(cmd[u], desc[u].old, desc[u].new)'
                    <=> Shaped(cmd[u], desc[u].old, desc[u].new)
              /\ Linked(cmd[u], plan[u].domains, desc[u].old, desc[u].new)'
                    <=> Linked(cmd[u], plan[u].domains, desc[u].old, desc[u].new)
<1> SUFFICES ASSUME NEW u \in Threads
             PROVE  /\ Wrote(cmd[u], Len(journal))' <=> Wrote(cmd[u], Len(journal))
                    /\ Wrote(cmd[u], synced) => Wrote(cmd[u], synced)'
                    /\ Materialized(cmd[u], plan[u])' = Materialized(cmd[u], plan[u])
                    /\ Shaped(cmd[u], desc[u].old, desc[u].new)'
                          <=> Shaped(cmd[u], desc[u].old, desc[u].new)
                    /\ Linked(cmd[u], plan[u].domains, desc[u].old, desc[u].new)'
                          <=> Linked(cmd[u], plan[u].domains, desc[u].old, desc[u].new)
  BY Zenon
<1>1. synced \in Nat /\ Len(journal) \in Nat
  BY DEF IInv, TypeOK
<1>2. Wrote(cmd[u], Len(journal))' <=> Wrote(cmd[u], Len(journal))
  BY Zenon DEF Wrote
<1>3. Wrote(cmd[u], synced) => Wrote(cmd[u], synced)'
  BY <1>1 DEF Wrote
<1>4. Materialized(cmd[u], plan[u])' = Materialized(cmd[u], plan[u])
  BY Zenon DEF Materialized, Live
<1>5. Shaped(cmd[u], desc[u].old, desc[u].new)' <=> Shaped(cmd[u], desc[u].old, desc[u].new)
  BY Zenon DEF Shaped
<1>6. Linked(cmd[u], plan[u].domains, desc[u].old, desc[u].new)'
         <=> Linked(cmd[u], plan[u].domains, desc[u].old, desc[u].new)
  BY Zenon DEF Linked
<1> QED
  BY <1>2, <1>3, <1>4, <1>5, <1>6, Zenon

\* A caller that a step does not move still knows what it knew.
LEMMA SameThread ==
    ASSUME IInv, NEW u \in Threads, journal' = journal, synced' \in synced..Len(journal),
           pc'[u] = pc[u], cmd'[u] = cmd[u], plan'[u] = plan[u], desc'[u] = desc[u]
    PROVE  ThreadOK(u)'
<1>1. synced \in Nat /\ Len(journal) \in Nat
  BY DEF IInv, TypeOK
<1>2. Wrote(cmd[u], Len(journal))' <=> Wrote(cmd[u], Len(journal))
  BY Zenon DEF Wrote
<1>3. Wrote(cmd[u], synced) => Wrote(cmd[u], synced)'
  BY <1>1 DEF Wrote
<1>4. Materialized(cmd[u], plan[u])' = Materialized(cmd[u], plan[u])
  BY Zenon DEF Materialized, Live
<1>5. /\ Shaped(cmd[u], desc[u].old, desc[u].new)' <=> Shaped(cmd[u], desc[u].old, desc[u].new)
      /\ Linked(cmd[u], plan[u].domains, desc[u].old, desc[u].new)'
            <=> Linked(cmd[u], plan[u].domains, desc[u].old, desc[u].new)
  BY DEF Shaped, Linked
<1> QED
  BY <1>2, <1>3, <1>4, <1>5, Zenon DEF IInv, ThreadsOK, ThreadOK

\* Callers that do not move, in a history that did not change, are as before.
LEMMA SameCallers ==
    ASSUME IInv, journal' = journal, synced' \in synced..Len(journal), UNCHANGED callers,
           generation' = generation
    PROVE  (SampledOK /\ PreparedIsCurrent /\ ThreadsOK)'
<1>1. pc' = pc /\ svc' = svc /\ cmd' = cmd /\ plan' = plan /\ desc' = desc
  BY Zenon DEF callers
<1>2. (SampledOK /\ PreparedIsCurrent)'
  BY <1>1, Zenon DEF IInv, SampledOK, PreparedIsCurrent, Live
<1>3. ThreadsOK'
  BY <1>1, SameThread, Zenon DEF ThreadsOK
<1> QED
  BY <1>2, <1>3, Zenon

\* A caller that moves to another step of its command and changes nothing but,
\* perhaps, what is synced or retained as a failure: it gets the writer only
\* when that is free, is admitted only in the live generation, and claims no
\* more about its batch than it knew.
LEMMA MoveIInv ==
    ASSUME IInv, NEW t \in Threads, NEW s \in Locked \ {"prepared", "buffered"},
           pc[t] # "idle", At(t, s),
           UNCHANGED <<journal, gate, svc, cmd, plan, desc, issued, scopes>>,
           synced' \in synced..Len(journal), latched' \in BOOLEAN, latched => latched',
           pc[t] \in Locked \/ WriterFree(t),
           s \in Admitted => svc[t] = generation,
           s \in {"locked", "admitted", "refused"}
              => pc[t] \in {"reserved", "locked", "admitted", "prepared"},
           s = "unknown" => pc[t] \in {"prepared", "buffered"},
           s = "synced" => pc[t] = "buffered" /\ synced' = Len(journal),
           pc[t] = "buffered" => latched' \/ synced' = Len(journal)
    PROVE  IInv'
<1>1. /\ journal' = journal /\ healthy' = healthy /\ generation' = generation
      /\ poisoned' = poisoned /\ svc' = svc /\ cmd' = cmd /\ plan' = plan /\ desc' = desc
      /\ issued' = issued /\ outcome' = outcome /\ scope' = scope /\ flight' = flight
  BY Zenon DEF gate, scopes
<1>2. /\ pc' \in [Threads -> Steps] /\ pc'[t] = s
      /\ \A u \in Threads : u # t => pc'[u] = pc[u]
  BY Zenon DEF IInv, TypeOK, At, Steps
<1>3. /\ issued \in Nat /\ synced \in Nat /\ synced >= 1 /\ Len(journal) \in Nat
      /\ synced' \in 1..Len(journal)
  BY BoundsAssumption DEF IInv, TypeOK, Values, Commands
<1>4. TypeOK'
  BY <1>1, <1>2, <1>3, Zenon DEF IInv, TypeOK
<1>5. JournalOK' /\ BatchesSerialize'
  BY <1>1, <1>3, SameJournal
<1>6. (ScopesOK /\ CommittedIsDurable /\ NotCommittedIsAbsent /\ ReconciledIsTrue)'
  BY <1>1, <1>3, SameScopes
<1>7. CallersOK'
  BY <1>1, <1>2 DEF IInv, CallersOK, WriterFree, Locked, Admitted
<1>8. SampledOK' /\ PreparedIsCurrent'
  BY <1>1, <1>2 DEF IInv, SampledOK, PreparedIsCurrent, Live
<1>9. ThreadsOK'
  <2>1. pc[t] = "prepared" => Linked(cmd[t], plan[t].domains, desc[t].old, desc[t].new)
    BY DEF IInv, ThreadsOK, ThreadOK, Linked, Wrote
  <2>2. s = "synced" => Wrote(cmd[t], synced)'
    BY <1>1, Zenon DEF IInv, ThreadsOK, ThreadOK, Wrote
  <2>3. ASSUME NEW u \in Threads, u # t PROVE ThreadOK(u)'
    BY <1>1, <1>2, <2>3, SameThread, Zenon
  <2>4. ThreadOK(t)'
    BY <1>1, <1>2, <2>1, <2>2, SameKnowledge, Zenon DEF IInv, ThreadsOK, ThreadOK, Locked
  <2> QED
    BY <2>3, <2>4, Zenon DEF ThreadsOK
<1>10. TailOK'
  <2> SUFFICES ASSUME NEW i \in (synced' + 1)..Len(journal')
               PROVE  /\ outcome'[journal'[i].by] # "Collision"
                      /\ \/ latched'
                         \/ outcome'[journal'[i].by] = "Lost"
                         \/ \E u \in Threads : pc'[u] = "buffered" /\ cmd'[u] = journal'[i].by
    BY Zenon DEF TailOK
  <2>1. i \in (synced + 1)..Len(journal) /\ synced' # Len(journal)
    BY <1>1, <1>3
  <2>2. /\ outcome[journal[i].by] # "Collision"
        /\ \/ latched
           \/ outcome[journal[i].by] = "Lost"
           \/ \E u \in Threads : pc[u] = "buffered" /\ cmd[u] = journal[i].by
    BY <2>1, Zenon DEF IInv, TailOK
  <2> QED
    BY <1>1, <1>2, <2>1, <2>2, Zenon
<1> QED
  BY <1>4, <1>5, <1>6, <1>7, <1>8, <1>9, <1>10, Zenon DEF IInv

\* acquire_writer admits one caller of a generation; only callers of the live
\* generation are admitted; a refused command has written nothing; a batch the
\* database refused is not there.
LEMMA QuietStepsIInv ==
    ASSUME IInv, NEW t \in Threads, Acquire(t) \/ Admit(t) \/ Refuse(t) \/ CommitRefused(t)
    PROVE  IInv'
<1>1. /\ UNCHANGED <<journal, gate, svc, cmd, plan, desc, issued, scopes>>
      /\ synced' = synced /\ latched' = latched /\ synced \in synced..Len(journal)
  BY DEF Acquire, Admit, Refuse, CommitRefused, database, IInv, TypeOK
<1>2. latched' \in BOOLEAN /\ (latched => latched')
  BY <1>1, Zenon DEF IInv, TypeOK
<1>3. CASE Acquire(t)
  BY <1>1, <1>2, <1>3, MoveIInv, Zenon DEF Acquire, Locked, Admitted
<1>4. CASE Admit(t)
  BY <1>1, <1>2, <1>4, MoveIInv, Zenon DEF Admit, Admits, Locked, Admitted
<1>5. CASE Refuse(t) \/ CommitRefused(t)
  <2>1. svc[t] = generation
    BY <1>5, Zenon DEF Refuse, CommitRefused, IInv, CallersOK, Locked, Admitted
  <2> QED
    BY <1>1, <1>2, <1>5, <2>1, MoveIInv, Zenon DEF Refuse, CommitRefused, Locked, Admitted
<1> QED
  BY <1>3, <1>4, <1>5, Zenon

\* persist(SyncAll) leaves no tail behind; one that fails is retained by the
\* database's health.
LEMMA PersistIInv ==
    ASSUME IInv, NEW t \in Threads, Persist(t) \/ PersistFails(t)
    PROVE  IInv'
<1>1. /\ UNCHANGED <<journal, gate, svc, cmd, plan, desc, issued, scopes>>
      /\ pc[t] = "buffered" /\ synced' \in synced..Len(journal) /\ svc[t] = generation
  BY DEF Persist, PersistFails, IInv, TypeOK, CallersOK, Locked, Admitted
<1>2. CASE Persist(t)
  <2>1. latched' \in BOOLEAN /\ (latched => latched')
    BY <1>2, Zenon DEF Persist, IInv, TypeOK
  <2> QED
    BY <1>1, <1>2, <2>1, MoveIInv, Zenon DEF Persist, Locked, Admitted
<1>3. CASE PersistFails(t)
  <2>1. latched' \in BOOLEAN /\ latched'
    BY <1>3, Zenon DEF PersistFails
  <2> QED
    BY <1>1, <1>3, <2>1, MoveIInv, Zenon DEF PersistFails, Locked, Admitted
<1> QED
  BY <1>2, <1>3, Zenon

\* A caller returns: what it tells is true, and only an indeterminate command
\* leaves a scope behind.
LEMMA ReturnIInv ==
    ASSUME IInv, NEW t \in Threads,
           NEW told \in {"NotCommitted", "Committed", "Indeterminate", "Lost"},
           pc[t] \notin {"idle", "buffered"}, Return(t, told),
           UNCHANGED <<database, generation, issued, flight>>,
           healthy' \in BOOLEAN, poisoned' \subseteq Generations,
           told = "NotCommitted" => ~Wrote(cmd[t], Len(journal)),
           told = "Committed" => Wrote(cmd[t], synced),
           told = "Indeterminate" => pc[t] = "unknown",
           scope' = IF told = "Indeterminate"
                    THEN [scope EXCEPT ![cmd[t]] = [domains |-> plan[t].domains,
                                                    old |-> desc[t].old, new |-> desc[t].new]]
                    ELSE scope
    PROVE  IInv'
<1> USE DEF database, Return, At, Locked, Admitted
<1>0. /\ journal' = journal /\ synced' = synced /\ latched' = latched
      /\ generation' = generation /\ issued' = issued /\ flight' = flight
  BY Zenon
<1>1. /\ cmd[t] \in Commands /\ cmd[t] <= issued /\ outcome[cmd[t]] = "none"
      /\ flight[cmd[t]] = "none" /\ issued \in Nat /\ Commands \subseteq Nat
  BY BoundsAssumption DEF IInv, TypeOK, CallersOK, ScopesOK, Values, Commands
<1>2. /\ outcome'[cmd[t]] = told /\ DOMAIN outcome' = Commands
      /\ \A c \in Commands : c # cmd[t] => outcome'[c] = outcome[c] /\ scope'[c] = scope[c]
  BY <1>1, Zenon DEF IInv, TypeOK
<1>3. /\ pc'[t] = "idle"
      /\ \A u \in Threads : u # t => /\ pc'[u] = pc[u] /\ svc'[u] = svc[u] /\ cmd'[u] = cmd[u]
                                     /\ plan'[u] = plan[u] /\ desc'[u] = desc[u]
                                     /\ pc[u] # "idle" => cmd[u] # cmd[t]
  BY DEF IInv, TypeOK, CallersOK
<1>4. TypeOK'
  <2>1. /\ pc' \in [Threads -> Steps] /\ svc' \in [Threads -> Generations]
        /\ cmd' \in [Threads -> Values]
    BY NothingIsTyped, Zenon DEF IInv, TypeOK, Steps
  <2>2. plan' \in [Threads -> Plan] /\ desc' \in [Threads -> Descriptor]
    BY NothingIsTyped, Zenon DEF IInv, TypeOK
  <2>3. outcome' \in [Commands -> Outcomes]
    BY <1>1, Zenon DEF IInv, TypeOK, Outcomes
  <2>4. [domains |-> plan[t].domains, old |-> desc[t].old, new |-> desc[t].new] \in Retained
    <3>1. plan[t].domains \in SUBSET Domains
      BY Zenon DEF IInv, TypeOK, Plan
    <3>2. desc[t].old \in [Domains -> Values] /\ desc[t].new \in [Domains -> Values]
      BY Zenon DEF IInv, TypeOK, Descriptor
    <3> QED
      BY <3>1, <3>2, Zenon DEF Retained
  <2>5. scope' \in [Commands -> Retained]
    BY <1>1, <2>4, Zenon DEF IInv, TypeOK
  <2> QED
    BY <1>0, <2>1, <2>2, <2>3, <2>5, Zenon DEF IInv, TypeOK
<1>5. JournalOK' /\ BatchesSerialize'
  BY <1>0, <1>1, SameJournal
<1>6. CallersOK'
  <2>1. svc'[t] <= generation
    BY DEF IInv, TypeOK, Generations
  <2>2. \A u \in Threads : u # t => svc'[u] <= generation
    BY <1>3, Zenon DEF IInv, CallersOK
  <2> QED
    BY <1>0, <1>1, <1>2, <1>3, <2>1, <2>2 DEF IInv, CallersOK
<1>7. (SampledOK /\ PreparedIsCurrent)'
  BY <1>0, <1>3 DEF IInv, SampledOK, PreparedIsCurrent, Live
<1>8. ThreadsOK'
  <2>1. synced' \in synced..Len(journal)
    BY <1>0 DEF IInv, TypeOK
  <2>2. ASSUME NEW u \in Threads, u # t PROVE ThreadOK(u)'
    BY <1>0, <1>3, <2>1, <2>2, SameThread, Zenon
  <2>3. ThreadOK(t)'
    BY <1>3, Zenon DEF ThreadOK
  <2> QED
    BY <2>2, <2>3, Zenon DEF ThreadsOK
<1>9. ScopesOK'
  <2>3. ASSUME NEW c \in Commands, c # cmd[t]
        PROVE  /\ c > issued => outcome'[c] = "none"
               /\ outcome'[c] = "Indeterminate"
                     => /\ Shaped(c, scope'[c].old, scope'[c].new)
                        /\ Linked(c, scope'[c].domains, scope'[c].old, scope'[c].new)
               /\ flight[c] # "none" => outcome'[c] = "Indeterminate"
               /\ flight[c] = "ExactNew" => Wrote(c, Len(journal))
               /\ flight[c] = "ExactOld" => ~Wrote(c, Len(journal))
    BY <1>2, <2>3, Zenon DEF IInv, ScopesOK
  <2>4. told = "Indeterminate"
           => /\ Shaped(cmd[t], scope'[cmd[t]].old, scope'[cmd[t]].new)
              /\ Linked(cmd[t], scope'[cmd[t]].domains, scope'[cmd[t]].old, scope'[cmd[t]].new)
    <3>1. ASSUME told = "Indeterminate"
          PROVE  scope'[cmd[t]] = [domains |-> plan[t].domains, old |-> desc[t].old,
                                   new |-> desc[t].new]
      BY <1>1, <3>1, Zenon DEF IInv, TypeOK
    <3> QED
      BY <3>1 DEF IInv, ThreadsOK, ThreadOK
  <2> QED
    BY <1>0, <1>1, <1>2, <2>3, <2>4 DEF ScopesOK, Shaped, Linked, Wrote
<1>10. TailOK'
  <2> SUFFICES ASSUME NEW i \in (synced + 1)..Len(journal)
               PROVE  /\ outcome'[journal[i].by] # "Collision"
                      /\ \/ latched
                         \/ outcome'[journal[i].by] = "Lost"
                         \/ \E u \in Threads : pc'[u] = "buffered" /\ cmd'[u] = journal[i].by
    BY <1>0 DEF TailOK
  <2>1. i \in 2..Len(journal) /\ 1..issued \subseteq Commands
    BY <1>1, BoundsAssumption DEF IInv, TypeOK, Values, Commands
  <2>2. journal[i].by \in Commands
    BY <2>1, Zenon DEF IInv, JournalOK, Authored
  <2> QED
    BY <1>1, <1>2, <1>3, <2>2 DEF IInv, TailOK
<1>11. (CommittedIsDurable /\ NotCommittedIsAbsent /\ ReconciledIsTrue)'
  BY <1>0, <1>1, <1>2 DEF IInv, CommittedIsDurable, NotCommittedIsAbsent, ReconciledIsTrue, Wrote
<1> QED
  BY <1>4, <1>5, <1>6, <1>7, <1>8, <1>9, <1>10, <1>11, Zenon DEF IInv

\* Early refusals, a poisoned writer, a refused admission and a panic end a
\* command that has written nothing.
LEMMA RefusalsIInv ==
    ASSUME IInv, NEW t \in Threads,
           RefuseEarly(t) \/ AcquirePoisoned(t) \/ RefuseAdmission(t) \/ Panic(t)
    PROVE  IInv'
<1>1. pc[t] \in {"reserved", "locked", "admitted"} /\ ~Wrote(cmd[t], Len(journal))
  BY Zenon DEF IInv, ThreadsOK, ThreadOK, RefuseEarly, AcquirePoisoned, RefuseAdmission, Panic
<1>2. svc[t] \in Generations /\ poisoned \subseteq Generations /\ healthy \in BOOLEAN
  BY Zenon DEF IInv, TypeOK
<1>3. CASE RefuseEarly(t) \/ RefuseAdmission(t)
  BY <1>1, <1>2, <1>3, ReturnIInv, Zenon DEF RefuseEarly, RefuseAdmission, gate
<1>4. CASE AcquirePoisoned(t)
  <2>1. healthy' \in BOOLEAN
    BY <1>4, Zenon DEF AcquirePoisoned
  <2> QED
    BY <1>1, <1>2, <1>4, <2>1, ReturnIInv, Zenon DEF AcquirePoisoned
<1>5. CASE Panic(t)
  <2>1. healthy' \in BOOLEAN
    BY <1>5, Zenon DEF Panic
  <2> QED
    BY <1>1, <1>2, <1>5, <2>1, ReturnIInv, Zenon DEF Panic
<1> QED
  BY <1>3, <1>4, <1>5, Zenon

\* The outcome a finished command is reported with is the one its steps earned.
LEMMA SettleIInv == ASSUME IInv, NEW t \in Threads, Settle(t) PROVE IInv'
<1>1. healthy' \in BOOLEAN /\ poisoned' \subseteq Generations
  <2>1. healthy' = healthy \/ healthy' = FALSE
    BY Zenon DEF Settle
  <2> QED
    BY <2>1, Zenon DEF Settle, IInv, TypeOK
<1>2. UNCHANGED <<database, generation, issued, flight>>
  BY Zenon DEF Settle
<1>3. CASE pc[t] = "refused"
  <2>1. Return(t, "NotCommitted") /\ scope' = scope /\ ~Wrote(cmd[t], Len(journal))
    BY <1>3, Zenon DEF Settle, Verdict, IInv, TypeOK, ThreadsOK, ThreadOK
  <2> QED
    BY <1>1, <1>2, <1>3, <2>1, ReturnIInv, Zenon
<1>4. CASE pc[t] = "synced"
  <2>1. Return(t, "Committed") /\ scope' = scope /\ Wrote(cmd[t], synced)
    BY <1>4, Zenon DEF Settle, Verdict, IInv, TypeOK, ThreadsOK, ThreadOK
  <2> QED
    BY <1>1, <1>2, <1>4, <2>1, ReturnIInv, Zenon
<1>5. CASE pc[t] = "unknown"
  <2>1. /\ Return(t, "Indeterminate")
        /\ scope' = [scope EXCEPT ![cmd[t]] = [domains |-> plan[t].domains,
                                               old |-> desc[t].old, new |-> desc[t].new]]
    BY <1>5, Zenon DEF Settle, Verdict
  <2> QED
    BY <1>1, <1>2, <1>5, <2>1, ReturnIInv, Zenon
<1> QED
  BY <1>3, <1>4, <1>5, Zenon DEF Settle
=============================================================================
