-------------------------- MODULE HomeWriterProofs --------------------------
(* The safety of the serialized writer, for any number of callers, domains   *)
(* and commands: the steps that prepare the evidence of a command, those     *)
(* that reconcile it, commits, failure, recovery and the crash keep its      *)
(* invariant, hence every step does.                                         *)
EXTENDS HomeWriterInvariant

\* A new command has a number nobody wrote yet; the revisions its caller
\* samples are those of the live image.
LEMMA CallIInv ==
    ASSUME IInv, NEW t \in Threads, NEW g \in Generations, NEW p \in Contributions,
           NEW b \in BOOLEAN, Call(t, g, p, b)
    PROVE  IInv'
<1> USE DEF Call, At, database, gate, scopes, Locked, Admitted
<1> DEFINE c == issued + 1
           q == [domains |-> p.domains, changes |-> p.changes, sampled |-> b,
                 base |-> IF b THEN Live ELSE Genesis]
<1>1. /\ issued \in Nat /\ c \in Commands /\ c \in Values /\ issued' = c
      /\ Commands \subseteq Nat /\ Len(journal) \in Nat \ {0}
  BY BoundsAssumption DEF IInv, TypeOK, Values, Commands
<1>2. ~Wrote(c, Len(journal))
  BY <1>1 DEF Wrote, IInv, JournalOK, Authored, Genesis
<1>3. outcome[c] = "none"
  BY <1>1 DEF IInv, ScopesOK
<1>4. Live \in Image /\ Live.home = Len(journal) /\ Live = journal[Len(journal)]
  BY <1>1 DEF IInv, TypeOK, Live, JournalOK, Numbered
<1>5. q \in Plan
  <2>1. p.domains \in SUBSET Domains /\ p.changes \in SUBSET Domains
    BY ContributionsAssumption, Zenon
  <2>2. q.base \in Image
    BY <1>4, NothingIsTyped, Zenon
  <2> QED
    BY <2>1, <2>2, Zenon DEF Plan
<1>6. /\ pc'[t] = "reserved" /\ svc'[t] = g /\ cmd'[t] = c /\ plan'[t] = q
      /\ \A u \in Threads : u # t => /\ pc'[u] = pc[u] /\ svc'[u] = svc[u] /\ cmd'[u] = cmd[u]
                                     /\ plan'[u] = plan[u]
      /\ journal' = journal /\ synced' = synced /\ latched' = latched /\ desc' = desc
      /\ healthy' = healthy /\ generation' = generation /\ poisoned' = poisoned
      /\ outcome' = outcome /\ scope' = scope /\ flight' = flight
  BY Zenon DEF IInv, TypeOK
<1>7. g <= generation /\ (b => g = generation) /\ pc[t] = "idle"
  BY Zenon
<1>8. TypeOK'
  <2>1. /\ pc' \in [Threads -> Steps] /\ svc' \in [Threads -> Generations]
        /\ cmd' \in [Threads -> Values]
    BY <1>1, Zenon DEF IInv, TypeOK, Steps
  <2>2. plan' \in [Threads -> Plan]
    <3> HIDE DEF q
    <3>1. plan' = [plan EXCEPT ![t] = q]
      BY Zenon DEF q
    <3> QED
      BY <1>5, <3>1, Zenon DEF IInv, TypeOK
  <2> QED
    BY <1>1, <1>6, <2>1, <2>2, Zenon DEF IInv, TypeOK
<1> HIDE DEF c, Call
<1>9. JournalOK' /\ BatchesSerialize'
  BY <1>1, <1>6, SameJournal DEF c
<1>10. (ScopesOK /\ CommittedIsDurable /\ NotCommittedIsAbsent /\ ReconciledIsTrue)'
  <2>1. synced' \in synced..Len(journal)
    BY <1>6 DEF IInv, TypeOK
  <2> QED
    BY <1>1, <1>6, <2>1, SameScopes DEF c
<1>11. CallersOK'
  BY <1>1, <1>3, <1>6, <1>7 DEF IInv, CallersOK, c
<1>12. SampledOK'
  BY <1>1, <1>4, <1>6, <1>7 DEF IInv, SampledOK
<1>13. PreparedIsCurrent'
  BY <1>6 DEF IInv, PreparedIsCurrent, Live
<1>14. ThreadsOK'
  <2>1. synced' \in synced..Len(journal)
    BY <1>6 DEF IInv, TypeOK
  <2>2. ASSUME NEW u \in Threads, u # t PROVE ThreadOK(u)'
    BY <1>6, <2>1, <2>2, SameThread, Zenon
  <2>3. ~Wrote(cmd[t], Len(journal))'
    BY <1>2, <1>6, Zenon DEF Wrote
  <2>4. ThreadOK(t)'
    BY <1>6, <2>3, Zenon DEF ThreadOK
  <2> QED
    BY <2>2, <2>4, Zenon DEF ThreadsOK
<1>15. TailOK'
  BY <1>6, <1>7 DEF IInv, TailOK
<1> QED
  BY <1>8, <1>9, <1>10, <1>11, <1>12, <1>13, <1>14, <1>15, Zenon DEF IInv

\* A record that is live now was there at the start or some batch wrote it.
LEMMA LiveIsWritten ==
    ASSUME IInv, NEW d \in Domains
    PROVE  Live.rec[d] = 0 \/ Wrote(Live.rec[d], Len(journal))
<1>1. Len(journal) \in Nat /\ Len(journal) >= 1 /\ journal[1].rec[d] = 0
  BY DEF IInv, TypeOK, JournalOK, Genesis
<1>2. Traced(1, Len(journal))
  BY <1>1 DEF IInv, JournalOK, RecordsTraced
<1> QED
  BY <1>1, <1>2 DEF Traced, Live, Wrote

\* The fence makes the sampled image the live one, and the descriptor's new
\* values are the command's own or unchanged.
LEMMA PrepareIInv == ASSUME IInv, NEW t \in Threads, Prepare(t) PROVE IInv'
<1> USE DEF database, gate, scopes, Locked, Admitted
<1> DEFINE m == Materialized(cmd[t], plan[t])
<1>1. /\ Live \in Image /\ Live.home = Len(journal) /\ Live = journal[Len(journal)]
      /\ plan[t] \in Plan /\ cmd[t] \in Values /\ pc[t] = "admitted"
  BY DEF IInv, TypeOK, Live, JournalOK, Numbered, Prepare
<1>2. cmd[t] \in Nat \ {0} /\ ~Wrote(cmd[t], Len(journal)) /\ svc[t] = generation
  BY <1>1, BoundsAssumption DEF IInv, CallersOK, ThreadsOK, ThreadOK, Values, Commands
<1>3. Fenced(plan[t]) /\ Advances(plan[t])
  BY Zenon DEF Prepare
<1>4. m \in Descriptor
  <2>1. Live.home + 1 \in Revisions
    BY <1>1, <1>3, BoundsAssumption DEF Image, Advances, Revisions
  <2>2. [d \in Domains |-> IF d \in plan[t].domains THEN Live.rev[d] + 1 ELSE Live.rev[d]]
          \in [Domains -> Revisions]
    BY <1>1, <1>3, BoundsAssumption DEF Image, Advances, Revisions
  <2>3. /\ Live.rec \in [Domains -> Values]
        /\ [d \in Domains |-> IF d \in plan[t].changes THEN cmd[t] ELSE Live.rec[d]]
             \in [Domains -> Values]
    BY <1>1, Zenon DEF Image
  <2> QED
    BY <2>1, <2>2, <2>3, Zenon DEF Materialized, Descriptor
<1>5. m.old = Live.rec /\ Shaped(cmd[t], m.old, m.new)
  <2>1. \A d \in Domains : Live.rec[d] # cmd[t]
    BY <1>2, LiveIsWritten, Zenon
  <2> QED
    BY <2>1, Zenon DEF Materialized, Shaped
<1>6. plan[t].sampled => plan[t].base = Live
  BY <1>1, <1>2, <1>3 DEF Fenced, IInv, SampledOK
<1>7. /\ desc' = [desc EXCEPT ![t] = m] /\ At(t, "prepared")
      /\ journal' = journal /\ synced' = synced /\ latched' = latched
      /\ healthy' = healthy /\ generation' = generation /\ poisoned' = poisoned
      /\ svc' = svc /\ cmd' = cmd /\ plan' = plan /\ issued' = issued
      /\ outcome' = outcome /\ scope' = scope /\ flight' = flight
  BY Zenon DEF Prepare
<1>8. /\ pc'[t] = "prepared" /\ desc'[t] = m
      /\ \A u \in Threads : u # t => pc'[u] = pc[u] /\ desc'[u] = desc[u]
  BY <1>7, Zenon DEF At, IInv, TypeOK
<1>9. issued \in Nat /\ synced \in synced..Len(journal)
  BY BoundsAssumption DEF IInv, TypeOK, Values, Commands
<1>10. TypeOK'
  <2> HIDE DEF m
  <2>1. pc' \in [Threads -> Steps] /\ desc' \in [Threads -> Descriptor]
    BY <1>4, <1>7, Zenon DEF At, IInv, TypeOK, Steps
  <2> QED
    BY <1>7, <2>1, Zenon DEF IInv, TypeOK
<1>11. JournalOK' /\ BatchesSerialize'
  BY <1>7, <1>9, SameJournal
<1>12. (ScopesOK /\ CommittedIsDurable /\ NotCommittedIsAbsent /\ ReconciledIsTrue)'
  BY <1>7, <1>9, SameScopes
<1>13. CallersOK'
  BY <1>1, <1>7, <1>8 DEF IInv, CallersOK
<1>14. SampledOK'
  BY <1>1, <1>7, <1>8 DEF IInv, SampledOK
<1>15. PreparedIsCurrent'
  <2> HIDE DEF m
  <2> QED
    BY <1>5, <1>6, <1>7, <1>8 DEF IInv, PreparedIsCurrent, Live
<1>16. ThreadsOK'
  <2>1. Live' = Live /\ m = Materialized(cmd[t], plan[t])'
    BY <1>7, Zenon DEF Live, Materialized
  <2> HIDE DEF m
  <2>2. ASSUME NEW u \in Threads, u # t PROVE ThreadOK(u)'
    BY <1>7, <1>8, <1>9, <2>2, SameThread, Zenon
  <2>3. ~Wrote(cmd[t], Len(journal))' /\ Shaped(cmd[t], desc[t].old, desc[t].new)'
    BY <1>2, <1>5, <1>7, <1>8, Zenon DEF Wrote, Shaped
  <2>4. ThreadOK(t)'
    BY <1>7, <1>8, <2>1, <2>3, Zenon DEF ThreadOK
  <2> QED
    BY <2>2, <2>4, Zenon DEF ThreadsOK
<1>17. TailOK'
  <2> HIDE DEF m
  <2>1. \A u \in Threads : pc[u] = "buffered" => pc'[u] = "buffered" /\ cmd'[u] = cmd[u]
    BY <1>1, <1>7, <1>8, Zenon
  <2> QED
    BY <1>7, <2>1, Zenon DEF IInv, TailOK
<1> QED
  BY <1>10, <1>11, <1>12, <1>13, <1>14, <1>15, <1>16, <1>17, Zenon DEF IInv

\* An indeterminate command whose records are exactly the new ones wrote them:
\* the changed one can have come from nobody else.
LEMMA ExactNewIsWritten ==
    ASSUME IInv, NEW c \in Commands, outcome[c] = "Indeterminate",
           NewPossible(c), ~OldPossible(c)
    PROVE  Wrote(c, Len(journal))
<1>1. PICK d \in scope[c].domains : Live.rec[d] # scope[c].old[d]
  BY Zenon DEF OldPossible
<1>2. d \in Domains /\ c # 0
  BY DEF IInv, TypeOK, Retained, Commands
<1>3. Live.rec[d] = c
  BY <1>1, <1>2, Zenon DEF NewPossible, IInv, ScopesOK, Shaped
<1> QED
  BY <1>2, <1>3, LiveIsWritten, Zenon

\* One whose records are exactly the old ones did not write: the record it
\* changed could only get its old value back from that value's author, who
\* wrote once, earlier.
LEMMA ExactOldIsAbsent ==
    ASSUME IInv, NEW c \in Commands, outcome[c] = "Indeterminate",
           OldPossible(c), ~NewPossible(c)
    PROVE  ~Wrote(c, Len(journal))
<1> SUFFICES ASSUME NEW i \in 1..Len(journal), journal[i].by = c PROVE FALSE
  BY Zenon DEF Wrote
<1>1. /\ Len(journal) \in Nat /\ i \in 2..Len(journal) /\ journal[1].by = 0
      /\ issued \in Nat
  BY BoundsAssumption DEF IInv, TypeOK, JournalOK, Genesis, Commands, Values
<1>2. PICK d \in scope[c].domains : Live.rec[d] # scope[c].new[d]
  BY Zenon DEF NewPossible
<1>3. d \in Domains /\ journal[1].rec[d] = 0
  BY DEF IInv, TypeOK, Retained, JournalOK, Genesis
<1>4. Live.rec[d] = journal[i - 1].rec[d] /\ Live.rec[d] # journal[i].rec[d]
  BY <1>1, <1>2 DEF OldPossible, IInv, ScopesOK, Linked
<1>5. PICK k \in (i + 1)..Len(journal) : journal[k].by = Live.rec[d]
  <2>1. Traced(i, Len(journal))
    BY <1>1 DEF IInv, JournalOK, RecordsTraced
  <2> QED
    BY <1>3, <1>4, <2>1, Zenon DEF Traced, Live
<1>6. journal[k].by \in 1..issued
  BY <1>1 DEF IInv, JournalOK, Authored
<1>7. PICK j \in 2..(i - 1) : journal[j].by = journal[i - 1].rec[d]
  <2>1. Traced(1, i - 1)
    BY <1>1 DEF IInv, JournalOK, RecordsTraced
  <2> QED
    BY <1>1, <1>3, <1>4, <1>5, <1>6, <2>1 DEF Traced
<1>8. j = k
  BY <1>1, <1>4, <1>5, <1>7 DEF IInv, JournalOK, AuthoredOnce
<1> QED
  BY <1>1, <1>8

\* A running reconciliation has read an answer that is true.
LEMMA ReconcileReadIInv == ASSUME IInv, NEW c \in Commands, ReconcileRead(c) PROVE IInv'
<1>1. /\ journal' = journal /\ synced' = synced /\ latched' = latched
      /\ healthy' = healthy /\ generation' = generation /\ poisoned' = poisoned
      /\ pc' = pc /\ svc' = svc /\ cmd' = cmd /\ plan' = plan /\ desc' = desc
      /\ issued' = issued /\ outcome' = outcome /\ scope' = scope
  BY Zenon DEF ReconcileRead, database, gate, callers
<1>2. Answer(c) \in Answers
  BY Zenon DEF Answer, Answers
<1>3. /\ flight' \in [Commands -> {"none"} \cup Answers] /\ flight'[c] = Answer(c)
      /\ \A e \in Commands : e # c => flight'[e] = flight[e]
  BY <1>2, Zenon DEF ReconcileRead, IInv, TypeOK
<1>4. outcome[c] = "Indeterminate"
  BY Zenon DEF ReconcileRead
<1>5. TypeOK'
  BY <1>1, <1>3, Zenon DEF IInv, TypeOK
<1>6. JournalOK' /\ BatchesSerialize'
  BY <1>1, SameJournal, BoundsAssumption DEF IInv, TypeOK, Values, Commands
<1>7. (CallersOK /\ TailOK)'
  BY <1>1, Zenon DEF IInv, CallersOK, TailOK
<1>8. (SampledOK /\ PreparedIsCurrent /\ ThreadsOK)'
  <2>1. UNCHANGED callers /\ synced' \in synced..Len(journal)
    <3>1. UNCHANGED callers
      BY <1>1, Zenon DEF callers
    <3>2. synced' \in synced..Len(journal)
      BY <1>1 DEF IInv, TypeOK
    <3> QED
      BY <3>1, <3>2, Zenon
  <2> QED
    BY <1>1, <2>1, SameCallers, Zenon
<1>9. ScopesOK'
  <2>1. Answer(c) = "ExactNew" => Wrote(c, Len(journal))
    BY <1>4, ExactNewIsWritten, Zenon DEF Answer
  <2>2. Answer(c) = "ExactOld" => ~Wrote(c, Len(journal))
    BY <1>4, ExactOldIsAbsent, Zenon DEF Answer
  <2>3. /\ \A e : Wrote(e, Len(journal))' <=> Wrote(e, Len(journal))
        /\ \A e, ds, old, new : Linked(e, ds, old, new)' <=> Linked(e, ds, old, new)
    BY <1>1 DEF Wrote, Linked
  <2> QED
    BY <1>1, <1>3, <1>4, <2>1, <2>2, <2>3 DEF IInv, ScopesOK, Shaped
<1>10. (CommittedIsDurable /\ NotCommittedIsAbsent /\ ReconciledIsTrue)'
  BY <1>1, Zenon DEF IInv, CommittedIsDurable, NotCommittedIsAbsent, ReconciledIsTrue, Wrote
<1> QED
  BY <1>5, <1>6, <1>7, <1>8, <1>9, <1>10, Zenon DEF IInv

\* An answer is published only while the database reports no failure, when
\* every batch of an indeterminate command is synced.
LEMMA ReconcilePublishIInv == ASSUME IInv, NEW c \in Commands, ReconcilePublish(c) PROVE IInv'
<1>1. /\ journal' = journal /\ synced' = synced /\ latched' = latched
      /\ generation' = generation /\ poisoned' = poisoned
      /\ pc' = pc /\ svc' = svc /\ cmd' = cmd /\ plan' = plan /\ desc' = desc
      /\ issued' = issued
  BY Zenon DEF ReconcilePublish, database, callers
<1>2. /\ flight'[c] = "none" /\ flight[c] \in Answers /\ outcome[c] = "Indeterminate"
      /\ flight' \in [Commands -> {"none"} \cup Answers]
      /\ outcome'[c] = IF Confirms THEN flight[c] ELSE "Indeterminate"
      /\ ~Confirms => scope'[c] = scope[c]
      /\ \A e \in Commands : e # c => /\ flight'[e] = flight[e] /\ outcome'[e] = outcome[e]
                                      /\ scope'[e] = scope[e]
  BY Zenon DEF ReconcilePublish, IInv, TypeOK, ScopesOK
<1>3. /\ synced \in Nat /\ Len(journal) \in Nat /\ synced >= 1 /\ c \in Nat /\ c <= issued
      /\ issued \in Nat /\ issued <= MaxCommands
  BY <1>2, BoundsAssumption DEF IInv, TypeOK, Values, Commands, ScopesOK
<1>4. TypeOK'
  <2>1. healthy' \in BOOLEAN
    BY Zenon DEF ReconcilePublish
  <2>2. outcome' \in [Commands -> Outcomes]
    BY <1>2, Zenon DEF ReconcilePublish, IInv, TypeOK, Outcomes
  <2>3. scope' \in [Commands -> Retained]
    BY NothingIsTyped, Zenon DEF ReconcilePublish, IInv, TypeOK
  <2> QED
    BY <1>1, <1>2, <2>1, <2>2, <2>3, Zenon DEF IInv, TypeOK
<1>5. JournalOK' /\ BatchesSerialize'
  BY <1>1, <1>3, SameJournal
<1>6. CallersOK'
  <2>1. \A t \in Threads : pc[t] # "idle" => cmd[t] \in Commands /\ cmd[t] # c
    BY <1>2, <1>3, BoundsAssumption DEF IInv, CallersOK, Commands
  <2> QED
    BY <1>1, <1>2, <2>1 DEF IInv, CallersOK
<1>7. (SampledOK /\ PreparedIsCurrent /\ ThreadsOK)'
  <2>1. UNCHANGED callers /\ synced' \in synced..Len(journal)
    BY <1>1, <1>3 DEF callers, IInv, TypeOK
  <2> QED
    BY <1>1, <2>1, SameCallers, Zenon
<1>9. ScopesOK'
  <2>1. outcome'[c] = "Indeterminate" => ~Confirms
    BY <1>2, Zenon DEF Answers
  <2> QED
    BY <1>1, <1>2, <1>3, <2>1 DEF IInv, ScopesOK, Wrote, Shaped, Linked
<1>10. ASSUME Confirms, NEW i \in (synced + 1)..Len(journal)
       PROVE  journal[i].by # c
  <2>1. ~latched
    BY <1>10, Zenon DEF Confirms
  <2>2. \/ outcome[journal[i].by] = "Lost"
        \/ \E t \in Threads : pc[t] = "buffered" /\ cmd[t] = journal[i].by
    BY <2>1, Zenon DEF IInv, TailOK
  <2>3. \A t \in Threads : pc[t] = "buffered" => outcome[cmd[t]] # "Indeterminate"
    BY Zenon DEF IInv, CallersOK
  <2> QED
    BY <1>2, <2>2, <2>3, Zenon
<1>11. TailOK'
  <2> SUFFICES ASSUME NEW i \in (synced + 1)..Len(journal)
               PROVE  /\ outcome'[journal[i].by] # "Collision"
                      /\ \/ latched
                         \/ outcome'[journal[i].by] = "Lost"
                         \/ \E t \in Threads : pc[t] = "buffered" /\ cmd[t] = journal[i].by
    BY <1>1, Zenon DEF TailOK
  <2>1. journal[i].by \in Commands
    BY <1>3, BoundsAssumption DEF IInv, JournalOK, Authored, Commands
  <2>2. CASE journal[i].by = c
    BY <1>2, <1>10, <2>2, Zenon DEF IInv, TailOK
  <2>3. CASE journal[i].by # c
    BY <1>2, <2>1, <2>3, Zenon DEF IInv, TailOK
  <2> QED
    BY <2>2, <2>3, Zenon
<1>12. (CommittedIsDurable /\ NotCommittedIsAbsent)'
  BY <1>1, <1>2, Zenon DEF IInv, CommittedIsDurable, NotCommittedIsAbsent, Wrote, Answers
<1>13. ReconciledIsTrue'
  <2>1. Confirms /\ flight[c] = "ExactNew" => Wrote(c, synced)
    BY <1>3, <1>10 DEF IInv, ScopesOK, Wrote
  <2>2. flight[c] = "ExactOld" => ~Wrote(c, Len(journal))
    BY Zenon DEF IInv, ScopesOK
  <2> QED
    BY <1>1, <1>2, <2>1, <2>2 DEF IInv, ReconciledIsTrue, Wrote
<1> QED
  BY <1>4, <1>5, <1>6, <1>7, <1>9, <1>11, <1>12, <1>13, Zenon DEF IInv

-----------------------------------------------------------------------------
\* A batch that is committed, or may be, belongs to the only admitted caller;
\* every other command finds what it knew of the history unchanged.
LEMMA AppliedIInv ==
    ASSUME IInv, NEW t \in Threads, NEW s \in {"buffered", "unknown"}, pc[t] = "prepared",
           Applied(t), At(t, s), latched' \in BOOLEAN, latched => latched',
           s = "unknown" => latched',
           UNCHANGED <<synced, gate, svc, cmd, plan, desc, issued, scopes>>
    PROVE  IInv'
<1> DEFINE n == Len(journal)
<1>1. /\ journal' \in Seq(Image) /\ Len(journal') = n + 1
      /\ \A i \in 1..n : journal'[i] = journal[i]
      /\ journal'[n + 1].by = cmd[t]
      /\ \A d \in plan[t].domains :
            /\ desc[t].old[d] = Live.rec[d]
            /\ desc[t].new[d] = journal'[n + 1].rec[d]
      /\ JournalOK' /\ BatchesSerialize'
  BY AppendJournal, Zenon
<1>2. /\ synced' = synced /\ healthy' = healthy /\ generation' = generation
      /\ poisoned' = poisoned /\ svc' = svc /\ cmd' = cmd /\ plan' = plan /\ desc' = desc
      /\ issued' = issued /\ outcome' = outcome /\ scope' = scope /\ flight' = flight
  BY Zenon DEF gate, scopes
<1>3. /\ n \in Nat /\ n >= 1 /\ synced \in Nat /\ 1 <= synced /\ synced <= n
      /\ cmd[t] \in Commands /\ outcome[cmd[t]] = "none" /\ flight[cmd[t]] = "none"
  BY BoundsAssumption DEF IInv, TypeOK, CallersOK, ScopesOK, Values, Commands
<1>4. /\ pc' \in [Threads -> Steps] /\ pc'[t] = s
      /\ \A u \in Threads : u # t => /\ pc'[u] = pc[u] /\ pc[u] \notin Admitted
                                     /\ pc[u] # "idle" => cmd[u] # cmd[t]
  BY DEF IInv, TypeOK, CallersOK, At, Steps, Locked, Admitted
<1>5. \A c : c # cmd[t] => (Wrote(c, Len(journal))' <=> Wrote(c, n))
  BY <1>1, <1>3 DEF Wrote
<1>6. \A c : (Wrote(c, synced))' <=> Wrote(c, synced)
  <2>1. \A i \in 1..synced : i \in 1..n
    BY <1>3
  <2> QED
    BY <1>1, <1>2, <2>1, Zenon DEF Wrote
<1>7. ASSUME NEW c, c # cmd[t], NEW ds, NEW old, NEW new, Linked(c, ds, old, new)
      PROVE  Linked(c, ds, old, new)'
  <2>1. \A i \in 2..(n + 1) : i = n + 1 \/ (i \in 2..n /\ i \in 1..n /\ i - 1 \in 1..n)
    BY <1>3
  <2>2. ASSUME NEW i \in 2..(n + 1), journal'[i].by = c, NEW d \in ds
        PROVE  old[d] = journal'[i - 1].rec[d] /\ new[d] = journal'[i].rec[d]
    <3>1. i \in 2..n /\ i \in 1..n /\ i - 1 \in 1..n
      BY <1>1, <1>7, <2>1, <2>2, Zenon
    <3> QED
      BY <1>1, <1>7, <2>2, <3>1 DEF Linked
  <2> QED
    BY <1>1, <2>2, Zenon DEF Linked
<1>8. /\ Wrote(cmd[t], Len(journal))'
      /\ Linked(cmd[t], plan[t].domains, desc[t].old, desc[t].new)'
  <2>1. ~Wrote(cmd[t], n)
    BY Zenon DEF IInv, ThreadsOK, ThreadOK
  <2>2. Wrote(cmd[t], Len(journal))'
    BY <1>1, <1>2, <1>3 DEF Wrote
  <2>3. Linked(cmd[t], plan[t].domains, desc[t].old, desc[t].new)'
    <3>1. \A i \in 2..(n + 1) : i = n + 1 \/ i \in 1..n
      BY <1>3
    <3>2. n \in 1..n
      BY <1>3
    <3>3. ASSUME NEW i \in 2..(n + 1), journal'[i].by = cmd[t] PROVE i = n + 1
      BY <1>1, <2>1, <3>1, <3>3, Zenon DEF Wrote
    <3>4. journal'[n] = Live
      BY <1>1, <3>2, Zenon DEF Live
    <3>5. ASSUME NEW i \in 2..(n + 1), journal'[i].by = cmd[t], NEW d \in plan[t].domains
          PROVE  desc[t].old[d] = journal'[i - 1].rec[d] /\ desc[t].new[d] = journal'[i].rec[d]
      <4>1. i = n + 1 /\ i - 1 = n
        BY <1>3, <3>3, <3>5
      <4> QED
        BY <1>1, <3>4, <4>1, Zenon
    <3>6. Len(journal)' = n + 1 /\ cmd' = cmd /\ plan' = plan /\ desc' = desc
      BY <1>1, <1>2, Zenon
    <3> QED
      BY <3>5, <3>6 DEF Linked
  <2> QED
    BY <2>2, <2>3, Zenon
<1>9. Shaped(cmd[t], desc[t].old, desc[t].new)
  BY Zenon DEF IInv, ThreadsOK, ThreadOK
<1> HIDE DEF n
<1>10. TypeOK'
  <2>1. synced' \in 1..Len(journal')
    BY <1>1, <1>2, <1>3
  <2> QED
    BY <1>1, <1>2, <1>4, <2>1, Zenon DEF IInv, TypeOK
<1>11. CallersOK'
  <2>1. /\ pc[t] \in Locked /\ pc[t] \in Admitted /\ pc[t] # "idle"
        /\ pc'[t] \in Locked /\ pc'[t] \in Admitted /\ pc'[t] # "idle"
    BY <1>4, Zenon DEF Locked, Admitted
  <2>2. \A u \in Threads : /\ pc'[u] \in Locked <=> pc[u] \in Locked
                           /\ pc'[u] \in Admitted <=> pc[u] \in Admitted
                           /\ pc'[u] = "idle" <=> pc[u] = "idle"
    BY <1>4, <2>1, Zenon
  <2> QED
    BY <1>2, <2>2 DEF IInv, CallersOK
<1>12. SampledOK'
  <2>1. \A u \in Threads : plan[u].base.home \in Nat \ {0}
    BY DEF IInv, TypeOK, Plan, Image, Revisions
  <2> QED
    BY <1>1, <1>2, <1>3, <1>4, <2>1 DEF IInv, SampledOK, n
<1>13. PreparedIsCurrent'
  BY <1>4, Zenon DEF PreparedIsCurrent, Locked, Admitted
<1>14. ThreadsOK'
  <2>1. \A u \in Threads : u # t =>
           /\ pc[u] \in {"reserved", "locked"} => ~Wrote(cmd[u], Len(journal))'
           /\ pc'[u] \in {"idle", "reserved", "locked"}
    <3>1. \A u \in Threads : pc[u] \in Steps
      BY Zenon DEF IInv, TypeOK
    <3> QED
      BY <1>2, <1>4, <1>5, <3>1, Zenon DEF IInv, ThreadsOK, ThreadOK, Steps, Locked, Admitted, n
  <2> QED
    BY <1>2, <1>4, <1>8, <1>9, <2>1, Zenon DEF ThreadsOK, ThreadOK, Shaped
<1>15. ScopesOK'
  <2>1. \A c \in Commands : outcome[c] = "Indeterminate" => c # cmd[t]
    BY <1>3, Zenon
  <2> QED
    BY <1>2, <1>5, <1>7, <2>1 DEF IInv, ScopesOK, Shaped, n
<1>16. TailOK'
  <2>0. Len(journal') = n + 1 /\ synced' = synced /\ outcome' = outcome /\ cmd' = cmd
    BY <1>1, <1>2, Zenon
  <2> SUFFICES ASSUME NEW i \in (synced + 1)..(n + 1)
               PROVE  /\ outcome[journal'[i].by] # "Collision"
                      /\ \/ latched'
                         \/ outcome[journal'[i].by] = "Lost"
                         \/ \E u \in Threads : pc'[u] = "buffered" /\ cmd[u] = journal'[i].by
    BY <2>0, Zenon DEF TailOK
  <2>1. CASE i = n + 1
    BY <1>1, <1>3, <1>4, <2>1, Zenon
  <2>2. CASE i \in (synced + 1)..n
    <3>1. journal'[i] = journal[i]
      BY <1>1, <1>3, <2>2
    <3> QED
      BY <1>4, <2>2, <3>1, Zenon DEF IInv, TailOK, n
  <2> QED
    BY <1>3, <2>1, <2>2
<1>17. (CommittedIsDurable /\ NotCommittedIsAbsent /\ ReconciledIsTrue)'
  BY <1>2, <1>3, <1>5, <1>6, Zenon
    DEF IInv, CommittedIsDurable, NotCommittedIsAbsent, ReconciledIsTrue, n
<1> QED
  BY <1>1, <1>10, <1>11, <1>12, <1>13, <1>14, <1>15, <1>16, <1>17, Zenon DEF IInv

\* commit() that succeeds, or reports Committed.
LEMMA CommitIInv == ASSUME IInv, NEW t \in Threads, Commit(t) PROVE IInv'
<1>1. latched' = latched \/ latched' = TRUE
  BY Zenon DEF Commit
<1>2. latched' \in BOOLEAN /\ (latched => latched')
  BY <1>1, Zenon DEF IInv, TypeOK
<1> QED
  BY <1>2, AppliedIInv, Zenon DEF Commit

\* commit() that fails without saying whether the batch is there.
LEMMA CommitUnknownIInv == ASSUME IInv, NEW t \in Threads, CommitUnknown(t) PROVE IInv'
<1>1. latched' \in BOOLEAN /\ (latched => latched') /\ latched'
  BY Zenon DEF CommitUnknown
<1>2. CASE Applied(t)
  BY <1>1, <1>2, AppliedIInv, Zenon DEF CommitUnknown
<1>3. CASE UNCHANGED journal
  <2>1. /\ UNCHANGED <<journal, gate, svc, cmd, plan, desc, issued, scopes>>
        /\ pc[t] = "prepared" /\ synced' \in synced..Len(journal) /\ svc[t] = generation
    BY <1>3 DEF CommitUnknown, IInv, TypeOK, CallersOK, Locked, Admitted
  <2> QED
    BY <1>1, <2>1, MoveIInv, Zenon DEF CommitUnknown, Locked, Admitted
<1> QED
  BY <1>2, <1>3, Zenon DEF CommitUnknown

-----------------------------------------------------------------------------

\* A failure changes what is admitted, and nothing that is written.
LEMMA FailIInv == ASSUME IInv, Fail PROVE IInv'
<1>1. /\ journal' = journal /\ synced' = synced
      /\ generation' = generation /\ poisoned' = poisoned
      /\ pc' = pc /\ svc' = svc /\ cmd' = cmd /\ plan' = plan /\ desc' = desc
      /\ issued' = issued /\ outcome' = outcome /\ scope' = scope /\ flight' = flight
      /\ healthy' = healthy \/ healthy' = FALSE
      /\ latched' = latched \/ latched' = TRUE
  BY Zenon DEF Fail, callers, scopes
<1>2. latched => latched'
  BY <1>1, Zenon
<1>3. TypeOK'
  BY <1>1, Zenon DEF IInv, TypeOK
<1>4. issued \in Nat /\ synced \in synced..Len(journal)
  BY BoundsAssumption DEF IInv, TypeOK, Values, Commands
<1>5. JournalOK' /\ BatchesSerialize'
  BY <1>1, <1>4, SameJournal
<1>6. (ScopesOK /\ CommittedIsDurable /\ NotCommittedIsAbsent /\ ReconciledIsTrue)'
  BY <1>1, <1>4, SameScopes
<1>7. CallersOK'
  BY <1>1, Zenon DEF IInv, CallersOK
<1>8. (SampledOK /\ PreparedIsCurrent /\ ThreadsOK)'
  <2>1. UNCHANGED callers
    BY <1>1, Zenon DEF callers
  <2> QED
    BY <1>1, <1>4, <2>1, SameCallers, Zenon
<1>9. TailOK'
  BY <1>1, <1>2, Zenon DEF IInv, TailOK
<1> QED
  BY <1>3, <1>5, <1>6, <1>7, <1>8, <1>9, Zenon DEF IInv

\* What reopening keeps: every synced batch, and of each command what was there.
LEMMA ReopenedHistory ==
    ASSUME IInv, Reopened, issued' = issued
    PROVE  /\ synced \in 1..Len(journal') /\ synced \in Nat /\ Len(journal') \in Nat
           /\ \A c : ~Wrote(c, Len(journal)) => ~Wrote(c, Len(journal))'
           /\ \A c : Wrote(c, synced) => \E i \in 1..synced : journal'[i].by = c
           /\ \A c, ds, old, new : Linked(c, ds, old, new) => Linked(c, ds, old, new)'
<1>1. /\ journal' \in Seq(Image) /\ Len(journal') \in synced..Len(journal)
      /\ \A i \in 1..Len(journal') : journal'[i] = journal[i]
  BY TruncateJournal, Zenon
<1>2. synced \in Nat /\ 1 <= synced /\ Len(journal) \in Nat /\ Len(journal') \in Nat
  BY <1>1 DEF IInv, TypeOK
<1>3. \A c : ~Wrote(c, Len(journal)) => ~Wrote(c, Len(journal))'
  BY <1>1, <1>2 DEF Wrote
<1>4. \A c : Wrote(c, synced) => \E i \in 1..synced : journal'[i].by = c
  BY <1>1, <1>2 DEF Wrote
<1>5. \A c, ds, old, new : Linked(c, ds, old, new) => Linked(c, ds, old, new)'
  BY <1>1, <1>2 DEF Linked
<1> QED
  BY <1>1, <1>2, <1>3, <1>4, <1>5

\* Recovery runs when nobody is admitted and syncs what it found.
LEMMA RecoverIInv == ASSUME IInv, Recover PROVE IInv'
<1>1. /\ Reopened /\ synced' = Len(journal') /\ generation' = generation + 1
      /\ poisoned' = poisoned /\ healthy' = TRUE /\ latched' = FALSE
      /\ pc' = pc /\ svc' = svc /\ cmd' = cmd /\ plan' = plan /\ desc' = desc
      /\ issued' = issued /\ outcome' = outcome /\ scope' = scope /\ flight' = flight
  BY Zenon DEF Recover, callers, scopes
<1>2. /\ \A t \in Threads : pc[t] \notin Admitted /\ svc[t] \in Nat /\ svc[t] < generation'
      /\ \A c \in Commands : flight[c] = "none"
      /\ generation' \in Generations
  BY <1>1, BoundsAssumption DEF Recover, Drained, IInv, TypeOK, CallersOK, Generations
<1>3. journal' \in Seq(Image) /\ JournalOK' /\ BatchesSerialize'
  BY <1>1, TruncateJournal, Zenon
<1>4. /\ synced \in 1..Len(journal') /\ synced \in Nat /\ Len(journal') \in Nat
      /\ \A c : ~Wrote(c, Len(journal)) => ~Wrote(c, Len(journal))'
      /\ \A c : Wrote(c, synced) => \E i \in 1..synced : journal'[i].by = c
      /\ \A c, ds, old, new : Linked(c, ds, old, new) => Linked(c, ds, old, new)'
  BY <1>1, ReopenedHistory, Zenon
<1>5. TypeOK'
  <2>1. synced' \in 1..Len(journal')
    BY <1>1, <1>4
  <2> QED
    BY <1>1, <1>2, <1>3, <2>1, Zenon DEF IInv, TypeOK
<1>6. CallersOK'
  BY <1>1, <1>2 DEF IInv, CallersOK
<1>7. (SampledOK /\ PreparedIsCurrent)'
  BY <1>1, <1>2 DEF SampledOK, PreparedIsCurrent, Locked, Admitted
<1>8. ThreadsOK'
  BY <1>1, <1>2, <1>4, Zenon DEF IInv, ThreadsOK, ThreadOK, Locked, Admitted
<1>9. ScopesOK'
  <2> SUFFICES ASSUME NEW c \in Commands
               PROVE  /\ c > issued => outcome[c] = "none"
                      /\ outcome[c] = "Indeterminate"
                            => /\ Shaped(c, scope[c].old, scope[c].new)
                               /\ Linked(c, scope[c].domains, scope[c].old, scope[c].new)'
    BY <1>1, <1>2, Zenon DEF ScopesOK, Shaped
  <2> QED
    BY <1>1, <1>4, Zenon DEF IInv, ScopesOK
<1>10. TailOK'
  BY <1>1, <1>4 DEF TailOK
<1>11. \A c : Wrote(c, synced) => Wrote(c, synced)'
  <2>1. \A i \in 1..synced : i \in 1..synced'
    BY <1>1, <1>4
  <2> QED
    BY <1>4, <2>1, Zenon DEF Wrote
<1>12. (CommittedIsDurable /\ NotCommittedIsAbsent /\ ReconciledIsTrue)'
  BY <1>1, <1>4, <1>11, Zenon DEF IInv, CommittedIsDurable, NotCommittedIsAbsent, ReconciledIsTrue
<1> QED
  BY <1>3, <1>5, <1>6, <1>7, <1>8, <1>9, <1>10, <1>12, Zenon DEF IInv

\* After a crash every unsynced batch that survived belongs to a command whose
\* caller was told nothing.
LEMMA CrashIInv == ASSUME IInv, Crash PROVE IInv'
<1>1. /\ Reopened /\ synced' = synced /\ issued' = issued
      /\ \A t \in Threads : pc'[t] = "idle" /\ svc'[t] = 1
      /\ \A c \in Commands :
            /\ flight'[c] = "none"
            /\ outcome'[c] = IF c <= issued /\ outcome[c] \in {"none", "Indeterminate"}
                             THEN "Lost" ELSE outcome[c]
      /\ generation' = 1
  BY Zenon DEF Crash
<1>2. journal' \in Seq(Image) /\ JournalOK' /\ BatchesSerialize'
  BY <1>1, TruncateJournal, Zenon
<1>3. /\ synced \in 1..Len(journal') /\ synced \in Nat /\ Len(journal') \in Nat
      /\ \A c : ~Wrote(c, Len(journal)) => ~Wrote(c, Len(journal))'
      /\ \A c : Wrote(c, synced) => \E i \in 1..synced : journal'[i].by = c
  BY <1>1, ReopenedHistory, Zenon
<1>4. /\ issued \in Nat /\ issued <= MaxCommands
      /\ Commands \subseteq Nat /\ 1..issued \subseteq Commands
  BY BoundsAssumption DEF IInv, TypeOK, Values, Commands
<1>5. TypeOK'
  <2>1. latched' \in BOOLEAN /\ healthy' \in BOOLEAN
    BY Zenon DEF Crash
  <2>2. /\ generation' \in Generations /\ poisoned' \subseteq Generations
        /\ synced' \in 1..Len(journal')
    BY <1>3, NothingIsTyped, Zenon DEF Crash
  <2>3. /\ pc' \in [Threads -> Steps] /\ svc' \in [Threads -> Generations]
        /\ cmd' \in [Threads -> Values]
    BY NothingIsTyped, Zenon DEF Crash, Steps
  <2>4. plan' \in [Threads -> Plan] /\ desc' \in [Threads -> Descriptor]
    BY NothingIsTyped, Zenon DEF Crash
  <2>5. /\ outcome' \in [Commands -> Outcomes] /\ scope' \in [Commands -> Retained]
        /\ flight' \in [Commands -> {"none"} \cup Answers]
    BY NothingIsTyped, Zenon DEF Crash, IInv, TypeOK, Outcomes
  <2>6. issued' \in Values
    BY <1>1, Zenon DEF IInv, TypeOK
  <2> QED
    BY <1>2, <2>1, <2>2, <2>3, <2>4, <2>5, <2>6, Zenon DEF TypeOK
<1>6. (CallersOK /\ SampledOK /\ PreparedIsCurrent /\ ThreadsOK)'
  BY <1>1 DEF CallersOK, SampledOK, PreparedIsCurrent, ThreadsOK, ThreadOK, Locked, Admitted
<1>7. ScopesOK'
  <2>1. \A c \in Commands : outcome'[c] # "Indeterminate" /\ (c > issued => outcome'[c] = "none")
    BY <1>1, <1>4 DEF IInv, ScopesOK
  <2> QED
    BY <1>1, <2>1, Zenon DEF ScopesOK
<1>8. TailOK'
  <2> SUFFICES ASSUME NEW i \in (synced + 1)..Len(journal')
               PROVE  outcome'[journal'[i].by] = "Lost"
    BY <1>1, Zenon DEF TailOK
  <2>1. /\ Len(journal') \in synced..Len(journal) /\ Len(journal) \in Nat
        /\ i \in (synced + 1)..Len(journal) /\ i \in 2..Len(journal) /\ journal'[i] = journal[i]
    BY <1>1, <1>3, TruncateJournal DEF IInv, TypeOK
  <2> DEFINE c == journal[i].by
  <2>2. c \in 1..issued /\ c \in Commands /\ c # 0
    BY <1>4, <2>1 DEF IInv, JournalOK, Authored
  <2>3. Wrote(c, Len(journal)) /\ ~Wrote(c, synced)
    <3>1. journal[1].by = 0 /\ AuthoredOnce
      BY DEF IInv, JournalOK, Genesis
    <3> QED
      BY <1>3, <2>1, <2>2, <3>1 DEF Wrote, AuthoredOnce
  <2>4. outcome[c] \notin {"Committed", "NotCommitted", "ExactNew", "ExactOld", "Collision"}
    <3> HIDE DEF c
    <3>1. outcome[c] \notin {"Committed", "NotCommitted", "ExactNew", "ExactOld"}
      BY <2>2, <2>3, Zenon DEF IInv, CommittedIsDurable, NotCommittedIsAbsent, ReconciledIsTrue
    <3>2. outcome[c] # "Collision"
      BY <2>1, Zenon DEF IInv, TailOK, c
    <3> QED
      BY <3>1, <3>2, Zenon
  <2>5. outcome[c] \in Outcomes
    BY <2>2, Zenon DEF IInv, TypeOK
  <2> QED
    BY <1>1, <1>4, <2>1, <2>2, <2>4, <2>5 DEF Outcomes, Answers
<1>9. \A c : Wrote(c, synced) => Wrote(c, synced)'
  BY <1>1, <1>3, Zenon DEF Wrote
<1>10. (CommittedIsDurable /\ NotCommittedIsAbsent /\ ReconciledIsTrue)'
  BY <1>1, <1>3, <1>9, Zenon DEF IInv, CommittedIsDurable, NotCommittedIsAbsent, ReconciledIsTrue
<1> QED
  BY <1>2, <1>5, <1>6, <1>7, <1>8, <1>10, Zenon DEF IInv

-----------------------------------------------------------------------------
\* Every step of callers, reconciliations, failures, recovery and termination
\* keeps the invariant.
LEMMA NextIInv == IInv /\ [Next]_vars => IInv'
<1> SUFFICES ASSUME IInv, [Next]_vars PROVE IInv'
  BY Zenon
<1>1. ASSUME NEW t \in Threads, Step(t) PROVE IInv'
  BY <1>1, CallIInv, RefusalsIInv, QuietStepsIInv, PrepareIInv, CommitIInv, CommitUnknownIInv,
     PersistIInv, SettleIInv, Zenon DEF Step
<1>2. ASSUME NEW c \in Commands, ReconcileRead(c) \/ ReconcilePublish(c) PROVE IInv'
  BY <1>2, ReconcileReadIInv, ReconcilePublishIInv, Zenon
<1>3. CASE UNCHANGED vars
  <2>1. /\ journal' = journal /\ synced' = synced /\ latched' = latched
        /\ healthy' = healthy /\ generation' = generation /\ poisoned' = poisoned
        /\ pc' = pc /\ svc' = svc /\ cmd' = cmd /\ plan' = plan /\ desc' = desc
        /\ issued' = issued /\ outcome' = outcome /\ scope' = scope /\ flight' = flight
    BY <1>3, Zenon DEF vars, database, gate, callers, scopes
  <2>2. issued \in Nat /\ synced \in synced..Len(journal)
    BY BoundsAssumption DEF IInv, TypeOK, Values, Commands
  <2>3. JournalOK' /\ BatchesSerialize'
    BY <2>1, <2>2, SameJournal
  <2>4. (ScopesOK /\ CommittedIsDurable /\ NotCommittedIsAbsent /\ ReconciledIsTrue)'
    BY <2>1, <2>2, SameScopes
  <2>5. TypeOK'
    BY <2>1, Zenon DEF IInv, TypeOK
  <2>6. (CallersOK /\ TailOK)'
    BY <2>1, Zenon DEF IInv, CallersOK, TailOK
  <2>7. (SampledOK /\ PreparedIsCurrent /\ ThreadsOK)'
    <3>1. UNCHANGED callers
      BY <2>1, Zenon DEF callers
    <3> QED
      BY <2>1, <2>2, <3>1, SameCallers, Zenon
  <2> QED
    BY <2>3, <2>4, <2>5, <2>6, <2>7, Zenon DEF IInv
<1> QED
  BY <1>1, <1>2, <1>3, FailIInv, RecoverIInv, CrashIInv, Zenon DEF Next

\* The invariant holds in every state of every home.
LEMMA Invariance == Spec => []IInv
<1> QED
  BY InitIInv, NextIInv, PTL DEF Spec

\* The writer's state is of its types.
THEOREM TypeCorrect == Spec => []TypeOK
<1>1. IInv => TypeOK
  BY Zenon DEF IInv
<1> QED
  BY <1>1, Invariance, PTL

\* Every batch follows the one before it, whatever failed in between.
THEOREM BatchesAreSerial == Spec => []BatchesSerialize
<1>1. IInv => BatchesSerialize
  BY Zenon DEF IInv
<1> QED
  BY <1>1, Invariance, PTL

\* execute: what is about to be committed was prepared on the live contents.
THEOREM PreparedCommandsAreCurrent == Spec => []PreparedIsCurrent
<1>1. IInv => PreparedIsCurrent
  BY Zenon DEF IInv
<1> QED
  BY <1>1, Invariance, PTL

\* A Committed outcome survives failures, recovery and termination.
THEOREM CommitsAreDurable == Spec => []CommittedIsDurable
<1>1. IInv => CommittedIsDurable
  BY Zenon DEF IInv
<1> QED
  BY <1>1, Invariance, PTL

\* A NotCommitted outcome is never contradicted by the database.
THEOREM RefusalsAreAbsent == Spec => []NotCommittedIsAbsent
<1>1. IInv => NotCommittedIsAbsent
  BY Zenon DEF IInv
<1> QED
  BY <1>1, Invariance, PTL

\* What reconciliation publishes about an indeterminate command is true.
THEOREM ReconciliationsAreTrue == Spec => []ReconciledIsTrue
<1>1. IInv => ReconciledIsTrue
  BY Zenon DEF IInv
<1> QED
  BY <1>1, Invariance, PTL
=============================================================================
