--------------------------- MODULE ProviderBroker ---------------------------
(* crates/beryl-app/src/cas_projection/connection/provider_broker: the       *)
(* connection's driver thread submits one provider operation at a time to an *)
(* ingester thread through a channel of capacity one and waits for its reply *)
(* in a one-place acknowledgement slot.  A third thread owns the ingester:   *)
(* it opens its start gate, may cancel it at any moment, and joins it.  The  *)
(* live-command gate that authorizes an operation is external here: it is    *)
(* open until an ordinary shutdown or a persistent failure closes it.        *)
(*                                                                           *)
(* Operations are numbered in the order of their submission.  What applying  *)
(* one does to storage, the approval and the steering slots are left out.    *)
EXTENDS Naturals, Sequences, FiniteSets

CONSTANT MaxOperations        \* bound on the submitted operations

VARIABLES
    cancelled,                \* the broker's shared AtomicBool
    queue, receiver,          \* the channel's ring; whether its receiver lives
    ack,                      \* AckState: the reply, if any, and closed
    submitter, operation,     \* the driver thread: its step, its last operation
    ingester,                 \* the ingester thread: its step
    held,                     \* the operation and reply run_loop works on
    permit,                   \* self.command, the outer live-command permit
    passive, authority_lost,
    gate,                     \* the live-command gate
    owner, start,             \* the owning thread; ProviderBrokerStartState
    worker                    \* ProviderBrokerWorkerState

work == <<held, permit, passive, authority_lost>>
vars == <<cancelled, queue, receiver, ack, submitter, operation, ingester, work,
          gate, owner, start, worker>>

Operations == 1..MaxOperations
Reply == [operation : Operations, kind : {"Applied", "Rejected"}]
None == <<>>
Option(S) == {None} \cup {<<x>> : x \in S}

\* One type invariant: the threads' steps and the shared state.
TypeOK ==
    /\ {cancelled, receiver, permit, passive, authority_lost} \subseteq BOOLEAN
    /\ queue \in Option(Operations)
    /\ ack \in [reply : Option(Reply), closed : BOOLEAN]
    /\ submitter \in {"idle", "prepare", "send", "wait", "panicked", "gone"}
    /\ operation \in 0..MaxOperations
    /\ ingester \in {"blocked", "cancel", "loop", "receive", "idled", "received", "refuse",
                     "apply", "applied", "release", "complete", "cut", "close",
                     "retire", "exit", "done"}
    /\ held \in [operation : Option(Operations), reply : Option(Reply), terminal : BOOLEAN]
    /\ gate \in {"open", "shutdown", "failed"}
    /\ owner \in {"prepared", "abandon", "running", "join", "ended"}
    /\ start \in {"Blocked", "Started", "Cancelled"}
    /\ worker \in [permit : {"owned", "released", "joined"}, terminal : BOOLEAN,
                   armed : BOOLEAN]

Free == [operation |-> None, reply |-> None, terminal |-> FALSE]

Init ==
    /\ cancelled = FALSE /\ queue = None /\ receiver = TRUE
    /\ ack = [reply |-> None, closed |-> FALSE]
    /\ submitter = "idle" /\ operation = 0
    /\ ingester = "blocked" /\ held = Free
    /\ permit = FALSE /\ passive = FALSE /\ authority_lost = FALSE
    /\ gate = "open" /\ owner = "prepared" /\ start = "Blocked"
    /\ worker = [permit |-> "owned", terminal |-> FALSE, armed |-> FALSE]

Goto(thread, label, next) == thread = label /\ thread' = next

-----------------------------------------------------------------------------
(* The submitting thread: submit_inner and exchange_special.                 *)

\* The operation is returned to the caller at once when the broker is cancelled.
Submit ==
    /\ operation < MaxOperations /\ ingester \notin {"blocked", "cancel"}
    /\ operation' = operation + 1
    /\ Goto(submitter, "idle", IF cancelled THEN "idle" ELSE "prepare")
    /\ UNCHANGED <<cancelled, queue, receiver, ack, ingester, work, gate, owner, start, worker>>

\* AckSlot::prepare; refused, the operation is returned.
Prepare ==
    /\ Goto(submitter, "prepare", IF ack.closed \/ ack.reply # None THEN "idle" ELSE "send")
    /\ UNCHANGED <<cancelled, queue, receiver, ack, operation, ingester, work, gate, owner,
                   start, worker>>

\* send_timeout; a receiver that is gone, or a full ring, returns the operation.
Send ==
    /\ IF receiver /\ queue = None
       THEN queue' = <<operation>> /\ Goto(submitter, "send", "wait")
       ELSE UNCHANGED queue /\ Goto(submitter, "send", "idle")
    /\ UNCHANGED <<cancelled, receiver, ack, operation, ingester, work, gate, owner, start,
                   worker>>

\* Mutant: the reply stays in the slot.
WaitKeepsReply ==
    /\ ack.reply # None \/ ack.closed
    /\ Goto(submitter, "wait", IF ack.reply # None THEN "idle" ELSE "panicked")
    /\ UNCHANGED <<cancelled, queue, receiver, ack, operation, ingester, work, gate, owner,
                   start, worker>>

\* AckSlot::wait: the reply first, then the closed slot, which panics.
Wait ==
    /\ ack.reply # None \/ ack.closed
    /\ Goto(submitter, "wait", IF ack.reply # None THEN "idle" ELSE "panicked")
    /\ ack' = [ack EXCEPT !.reply = None]
    /\ UNCHANGED <<cancelled, queue, receiver, operation, ingester, work, gate, owner, start,
                   worker>>

\* The driver ends and drops the sink with its sender.
DropSink ==
    /\ Goto(submitter, "idle", "gone")
    /\ UNCHANGED <<cancelled, queue, receiver, ack, operation, ingester, work, gate, owner,
                   start, worker>>

SenderGone == submitter \in {"gone", "panicked"}

-----------------------------------------------------------------------------
(* The ingester thread.                                                      *)

Others == <<submitter, operation, gate, owner, start>>

\* The spawned closure: the start gate, then the service's initial start.
Begin ==
    /\ start # "Blocked" /\ ingester = "blocked"
    /\ ingester' \in IF start = "Started" THEN {"loop", "cancel"} ELSE {"cancel"}
    /\ UNCHANGED <<cancelled, queue, receiver, ack, work, Others, worker>>

CancelBeforeStart ==
    /\ Goto(ingester, "cancel", "close") /\ cancelled' = TRUE
    /\ UNCHANGED <<queue, receiver, ack, work, Others, worker>>

\* The head of the loop: a persistent failure makes the broker passive.
LoopTop ==
    /\ Goto(ingester, "loop", "receive")
    /\ passive' = (passive \/ gate = "failed")
    /\ UNCHANGED <<cancelled, queue, receiver, ack, held, permit, authority_lost, Others, worker>>

\* receive_timeout: an operation, a timeout, or the end of the channel.
Receive ==
    /\ \/ /\ queue # None /\ Goto(ingester, "receive", "received")
          /\ held' = [Free EXCEPT !.operation = queue] /\ queue' = None
       \/ /\ queue = None /\ UNCHANGED <<queue, held>>
          /\ Goto(ingester, "receive", IF SenderGone THEN "close" ELSE "idled")
    /\ UNCHANGED <<cancelled, receiver, ack, permit, passive, authority_lost, Others, worker>>

\* Mutant: an idle ingester never looks at the cancellation.
IdledForGood ==
    /\ Goto(ingester, "idled", "loop")
    /\ UNCHANGED <<cancelled, queue, receiver, ack, work, Others, worker>>

\* After a timeout the loop ends if the broker has been cancelled.
Idled ==
    /\ Goto(ingester, "idled", IF cancelled THEN "close" ELSE "loop")
    /\ UNCHANGED <<cancelled, queue, receiver, ack, work, Others, worker>>

\* Mutant: the acknowledgement leaves the operation undecided.
AnswerUndecided(kind, terminal) ==
    held' = [operation |-> None, terminal |-> terminal,
             reply |-> <<[operation |-> held.operation[1], kind |-> "Undecided"]>>]

Answer(kind, terminal) ==
    held' = [operation |-> None, terminal |-> terminal,
             reply |-> <<[operation |-> held.operation[1], kind |-> kind]>>]

\* passive_reply and passive_completion may end the broker.
PassiveAnswer ==
    \E kind \in {"Applied", "Rejected"}, terminal \in BOOLEAN : Answer(kind, terminal)

\* The received operation is refused, answered passively, or authorized.
Received ==
    /\ ingester = "received"
    /\ \/ /\ cancelled /\ Answer("Rejected", TRUE) /\ ingester' = "complete"
          /\ UNCHANGED <<cancelled, permit, passive>>
       \/ /\ ~cancelled /\ (passive \/ gate = "failed")
          /\ passive' = TRUE /\ PassiveAnswer /\ ingester' = "complete"
          /\ UNCHANGED <<cancelled, permit>>
       \/ /\ ~cancelled /\ ~passive /\ gate = "open"
          /\ permit' = TRUE /\ ingester' = "apply"
          /\ UNCHANGED <<cancelled, passive, held>>
       \/ /\ ~cancelled /\ ~passive /\ gate = "shutdown"
          /\ cancelled' = TRUE /\ ingester' = "refuse"
          /\ UNCHANGED <<permit, passive, held>>
    /\ UNCHANGED <<queue, receiver, ack, authority_lost, Others, worker>>

Refuse ==
    /\ Goto(ingester, "refuse", "complete") /\ Answer("Rejected", TRUE)
    /\ UNCHANGED <<cancelled, queue, receiver, ack, permit, passive, authority_lost, Others,
                   worker>>

\* apply: cancelled it rejects; otherwise the operation's handler decides.
Apply ==
    /\ Goto(ingester, "apply", "applied")
    /\ IF cancelled
       THEN Answer("Rejected", TRUE) /\ UNCHANGED authority_lost
       ELSE \/ PassiveAnswer /\ UNCHANGED authority_lost
            \/ Answer("Applied", TRUE) /\ authority_lost' = TRUE
    /\ UNCHANGED <<cancelled, queue, receiver, ack, permit, passive, Others, worker>>

\* After apply: a persistent failure turns the reply into its passive completion.
Applied ==
    /\ Goto(ingester, "applied", "release")
    /\ IF gate = "failed"
       THEN /\ passive' = TRUE
            /\ \E terminal \in BOOLEAN : held' = [held EXCEPT !.terminal = terminal]
       ELSE UNCHANGED <<passive, held>>
    /\ UNCHANGED <<cancelled, queue, receiver, ack, permit, authority_lost, Others, worker>>

\* Mutant: the permit is still held when the reply is installed.
ReleaseLate ==
    /\ Goto(ingester, "release", "complete")
    /\ UNCHANGED <<cancelled, queue, receiver, ack, work, Others, worker>>

\* The outer permit is dropped, or released after a loss of authority.
Release ==
    /\ Goto(ingester, "release", "complete") /\ permit' = FALSE
    /\ UNCHANGED <<cancelled, queue, receiver, ack, held, passive, authority_lost, Others, worker>>

Installed == IF ack.reply = None THEN held.reply ELSE ack.reply

\* Mutant: the reply is kept after it has been installed.
CompleteKeeping ==
    /\ ack' = [reply |-> Installed, closed |-> ack.closed \/ held.terminal]
    /\ Goto(ingester, "complete", IF held.terminal THEN "cut" ELSE "loop")
    /\ UNCHANGED <<cancelled, queue, receiver, work, Others, worker>>

\* AckSlot::complete and complete_terminal, one critical section.
Complete ==
    /\ ack' = [reply |-> Installed, closed |-> ack.closed \/ held.terminal]
    /\ Goto(ingester, "complete", IF held.terminal THEN "cut" ELSE "loop") /\ held' = Free
    /\ UNCHANGED <<cancelled, queue, receiver, permit, passive, authority_lost, Others, worker>>

\* After a terminal reply the broker is cancelled and the loop ends.
Cut ==
    /\ Goto(ingester, "cut", "close") /\ cancelled' = TRUE
    /\ UNCHANGED <<queue, receiver, ack, work, Others, worker>>

\* Mutant: the slot is left open.
LeaveAckOpen ==
    /\ Goto(ingester, "close", "retire")
    /\ UNCHANGED <<cancelled, queue, receiver, ack, work, Others, worker>>

\* The end of run_loop, AckSlot::close.
CloseAck ==
    /\ Goto(ingester, "close", "retire") /\ ack' = [ack EXCEPT !.closed = TRUE]
    /\ UNCHANGED <<cancelled, queue, receiver, work, Others, worker>>

\* The rest of run, and the drop of the ingester with its receiver.
Retire ==
    /\ Goto(ingester, "retire", "exit") /\ passive' = FALSE /\ receiver' = FALSE
    /\ UNCHANGED <<cancelled, queue, ack, held, permit, authority_lost, Others, worker>>

\* Mutant: the end of the thread does not look whether a release is armed.
MarkOnly ==
    /\ Goto(ingester, "exit", "done") /\ worker' = [worker EXCEPT !.terminal = TRUE]
    /\ UNCHANGED <<cancelled, queue, receiver, ack, work, Others>>

\* The terminal guard of the thread: mark_terminal.
MarkTerminal ==
    /\ Goto(ingester, "exit", "done")
    /\ worker' = [worker EXCEPT !.terminal = TRUE,
                                !.permit = IF worker.armed THEN "released" ELSE @]
    /\ UNCHANGED <<cancelled, queue, receiver, ack, work, Others>>

IngesterStep ==
    \/ Begin \/ CancelBeforeStart \/ LoopTop \/ Receive \/ Idled \/ Received \/ Refuse
    \/ Apply \/ Applied \/ Release \/ Complete \/ Cut \/ CloseAck \/ Retire \/ MarkTerminal

-----------------------------------------------------------------------------
(* The owner of the ingester, and the threads that cancel the connection.    *)

Inside == <<queue, receiver, ack, submitter, operation, ingester, work, gate>>

\* The start token is used: the gate opens.
Start ==
    /\ Goto(owner, "prepared", "running") /\ start' = "Started"
    /\ UNCHANGED <<cancelled, Inside, worker>>

\* The start token is dropped: the broker is cancelled, then the gate.
DropToken ==
    /\ \/ Goto(owner, "prepared", "abandon") /\ cancelled' = TRUE /\ UNCHANGED start
       \/ Goto(owner, "abandon", "join") /\ start' = "Cancelled" /\ UNCHANGED cancelled
    /\ UNCHANGED <<Inside, worker>>

\* Mutant: the cancellation closes the slot under the ingester.
RequestCancelCloses ==
    /\ owner = "running" /\ ~cancelled /\ cancelled' = TRUE
    /\ ack' = [ack EXCEPT !.closed = TRUE]
    /\ UNCHANGED <<queue, receiver, submitter, operation, ingester, work, gate, owner, start,
                   worker>>

\* ProviderBrokerControl::request_cancel, from any thread that has the control.
RequestCancel ==
    /\ owner = "running" /\ ~cancelled /\ cancelled' = TRUE
    /\ UNCHANGED <<Inside, owner, start, worker>>

\* An elected ordinary retirement arms the release of the worker permit.
ArmOrdinaryRelease ==
    /\ owner = "running" /\ ~worker.armed
    /\ worker' = [worker EXCEPT !.armed = TRUE,
                                !.permit = IF worker.terminal THEN "released" ELSE @]
    /\ UNCHANGED <<cancelled, Inside, owner, start>>

\* stop_and_join up to the join, or the drop of the running ingester.
Stop ==
    /\ owner = "running" /\ owner' \in {"join", "ended"} /\ cancelled' = TRUE
    /\ UNCHANGED <<Inside, start, worker>>

\* The join returns and the owner takes what is left of the worker.
Join ==
    /\ Goto(owner, "join", "ended") /\ ingester = "done"
    /\ worker' = [worker EXCEPT !.permit = IF @ = "owned" THEN "joined" ELSE @]
    /\ UNCHANGED <<cancelled, Inside, start>>

OwnerStep == Start \/ DropToken \/ RequestCancel \/ ArmOrdinaryRelease \/ Stop \/ Join

\* The live-command gate closes for one reason or the other, and stays closed.
GateCloses ==
    /\ gate = "open" /\ gate' \in {"shutdown", "failed"}
    /\ UNCHANGED <<cancelled, queue, receiver, ack, submitter, operation, ingester, work,
                   owner, start, worker>>

SubmitterStep == Submit \/ Prepare \/ Send \/ Wait \/ DropSink

Next == SubmitterStep \/ IngesterStep \/ OwnerStep \/ GateCloses

Spec == Init /\ [][Next]_vars

\* A started thread runs; a submitter that has begun goes on to its answer; the
\* owner comes back for its ingester.
FairSpec ==
    Spec /\ WF_vars(IngesterStep) /\ WF_vars(Prepare \/ Send \/ Wait)
         /\ WF_vars(Start \/ DropToken \/ Join)

-----------------------------------------------------------------------------
(* The slot never holds a stale reply: what is in it answers the operation   *)
(* the submitter is waiting for (channel.rs:74-83, 94-108, 110-118).         *)
ReplyIsOwn ==
    ack.reply # None => submitter = "wait" /\ ack.reply[1].operation = operation

(* While a submitter waits, its operation is in exactly one place: the ring, *)
(* the hands of the ingester, or its reply (channel.rs:121-124,              *)
(* core.rs:48-142).                                                          *)
OneHolder ==
    submitter = "wait" =>
        Cardinality({p \in {"queue", "operation", "reply", "ack"} :
            \/ p = "queue" /\ queue = <<operation>>
            \/ p = "operation" /\ held.operation = <<operation>>
            \/ p = "reply" /\ held.reply # None /\ held.reply[1].operation = operation
            \/ p = "ack" /\ ack.reply # None /\ ack.reply[1].operation = operation}) = 1

(* A submitter that has its answer never sees its operation still counted as *)
(* live: the outer permit goes before the acknowledgement is installed       *)
(* (core.rs:128-142).                                                        *)
PermitReleasedFirst == permit => submitter = "wait" /\ ack.reply = None

(* Once the slot is closed no reply is installed, and no operation is taken  *)
(* from the ring, whoever closed it and when (core.rs:57-61, 145-151).       *)
ClosedIsFinal ==
    [][ack.closed => /\ ack'.reply \in {None, ack.reply} /\ ack'.closed
                     /\ held'.operation \in {None, held.operation}]_vars

(* The worker permit of an ended ingester that was retired ordinarily is not *)
(* kept, whether the retirement or the end of the thread came first          *)
(* (lifecycle.rs:165-204).                                                   *)
WorkerReleased == worker.terminal /\ worker.armed => worker.permit # "owned"

(* An accepted operation is answered: its submitter does not wait for good,  *)
(* whenever the broker is cancelled, cut or fails (channel.rs:110-132).      *)
SubmitEnds == submitter = "wait" ~> submitter # "wait"

(* A cancelled broker retires, so the join of stop_and_join ends             *)
(* (core.rs:48-61, lifecycle.rs:336-353).                                    *)
IngesterRetires == cancelled ~> ingester = "done"

(* The submitter never finds the slot closed without a reply: "Closure       *)
(* without an ownership-preserving acknowledgement is a process invariant    *)
(* violation; the ingester guard normally prevents this branch."             *)
(* (channel.rs:253-258).                                                     *)
NeverClosedUnanswered == submitter # "panicked"

(* The ingester publishes a cancellation of its own only after the terminal  *)
(* reply: "Only after that linearization point may the ingester publish      *)
(* cancellation and retire." (doc/failures/                                  *)
(* cas-provider-broker-terminal-ack-ordering.md; core.rs:91-93).             *)
TerminalReplyFirst ==
    [][ingester = "received" /\ ~cancelled /\ cancelled' /\ ingester' # ingester
        => ack.closed]_vars
=============================================================================
