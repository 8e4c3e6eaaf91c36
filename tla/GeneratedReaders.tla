--------------------------- MODULE GeneratedReaders ---------------------------
(* The generated-file readers of a WSL namespace, end to end: the registry of *)
(* the backend (beryl-backend/src/wsl_supervision/readers.rs and              *)
(* readers/requests.rs), the supervisor's ReaderControl and Output            *)
(* (beryl-wsl-supervisor/src/linux/reader_control.rs, sys.rs), the readers of *)
(* the namespace's init (linux/readers.rs) and the reader children            *)
(* (linux/reader_worker.rs).  Each party keeps its own table and refuses what *)
(* its own table does not allow; the messages between them are in flight      *)
(* while the tables change.                                                   *)
(*                                                                            *)
(* A frame is its kind, its reader and its sequence; offsets, lengths and     *)
(* bytes are left out, and so is the cancelled flag, which nobody decides on. *)
(* Readers are configured before the first one opens.                         *)
EXTENDS Integers, Sequences, FiniteSets, FiniteSetsExt

CONSTANTS
  MaxId,       \* readers a behaviour opens
  Limit,       \* the configured allowance
  MaxReads,    \* reads one reader asks for
  QueueMax,    \* the backend's request queue
  ReplyMax,    \* frames the socket from init to the supervisor takes
  MaxPending   \* MAX_PENDING_FRAMES

Ids == 1 .. MaxId
None == -1
Sequences == 0 .. MaxReads + 1

Frame(kind, i, s) == [kind |-> kind, id |-> i, s |-> s]
Frames == [kind : {"open", "read", "close", "opened", "page", "failed", "closed"},
           id : Ids, s : Sequences]

VARIABLES
  slot,      \* the backend's SlotState of every reader
  user,      \* what the owner of the reader is doing
  requests,  \* frames queued for the supervisor
  control,   \* ReaderControl's operation of every reader
  highest,   \* the highest identity ReaderControl and init have seen
  commands,  \* frames from the supervisor to init
  reader,    \* init's entry or terminal record of every reader
  rejected,  \* init's queue of refusals and terminal receipts
  worker,    \* the reader children
  channel,   \* frames from a child to init
  replies,   \* frames from init to the supervisor
  outKeys,   \* readers Output holds a queue for
  outq,      \* those queues
  active,    \* the reader frame being written: <<>> or <<frame>>
  pipe,      \* frames written and not yet read by the backend
  fault      \* some party refused a frame: the readers fail together, and what
             \* follows is not modelled

backend == <<slot, user, requests>>
supervisor == <<control, highest, outKeys, outq, active>>
namespace == <<reader, rejected, worker, channel>>
vars == <<slot, user, requests, control, highest, commands, reader, rejected, worker,
          channel, replies, outKeys, outq, active, pipe, fault>>

NewSlot ==
  [pending |-> "open", s |-> 0, opening |-> TRUE, inFlight |-> FALSE,
   previous |-> None, reply |-> FALSE, error |-> FALSE, automatic |-> None,
   sent |-> FALSE, next |-> 1, closed |-> FALSE]

NoOperation == [op |-> "none", s |-> 0, pending |-> None, reusable |-> FALSE]
Operation(op, s) == [NoOperation EXCEPT !.op = op, !.s = s]

NoReader ==
  [kind |-> "none", op |-> "closing", s |-> 0, pending |-> <<>>, failed |-> FALSE,
   asked |-> FALSE, drained |-> FALSE, reusable |-> FALSE]
NewReader == [NoReader EXCEPT !.kind = "entry", !.op = "opening"]
TerminalReader(s, reusable) ==
  [NoReader EXCEPT !.kind = "terminal", !.s = s, !.reusable = reusable]

\* The readers each party counts against the limit.
Live == {i \in Ids : user[i] \notin {"free", "released"}}
ControlHolds == {i \in Ids : control[i].op # "none"}
ControlOccupied == {i \in ControlHolds : ~control[i].reusable}
InitHolds == {i \in Ids : reader[i].kind # "none"}
InitOccupied == {i \in InitHolds : ~reader[i].reusable}

Init ==
  /\ slot = [i \in Ids |-> NewSlot]
  /\ user = [i \in Ids |-> "free"]
  /\ control = [i \in Ids |-> NoOperation]
  /\ highest = [control |-> 0, init |-> 0]
  /\ reader = [i \in Ids |-> NoReader]
  /\ worker = [i \in Ids |-> "none"]
  /\ channel = [i \in Ids |-> <<>>]
  /\ outq = [i \in Ids |-> <<>>]
  /\ outKeys = {}
  /\ requests = <<>> /\ commands = <<>> /\ rejected = <<>> /\ replies = <<>>
  /\ active = <<>> /\ pipe = <<>>
  /\ fault = FALSE

-----------------------------------------------------------------------------
(* The backend. *)

\* Mutant: the request queue takes frames without a bound.
QueueUnbounded == TRUE

QueueRoom == Len(requests) < QueueMax

\* An open borrows the process owner exclusively, its undoing close included.
OwnerFree == \A j \in Ids : user[j] \notin {"open", "undo", "undoing"}

(* ReaderRegistry::reserve and WslGeneratedReader::open: an open that cannot *)
(* be queued gives its reservation back.                                     *)
Open(i) ==
  /\ user[i] = "free"
  /\ \A j \in 1 .. i - 1 : user[j] # "free"
  /\ OwnerFree
  /\ Cardinality(Live) < Limit
  /\ IF QueueRoom
     THEN /\ requests' = Append(requests, Frame("open", i, 0))
          /\ user' = [user EXCEPT ![i] = "open"]
     ELSE /\ user' = [user EXCEPT ![i] = "released"]
          /\ UNCHANGED requests
  /\ UNCHANGED <<slot, supervisor, namespace, commands, replies, pipe, fault>>

(* wait: an error first, then a reply, else the caller's cancellation or the *)
(* deadline.  An open that fails, or whose source is no longer wanted, goes  *)
(* on to close the reader.                                                   *)
WaitEnds(i) ==
  /\ user[i] \in {"open", "read"}
  /\ slot' = [slot EXCEPT ![i].reply = IF slot[i].error THEN @ ELSE FALSE]
  /\ \E next \in CASE user[i] = "read" -> {"idle"}
                   [] slot[i].reply /\ ~slot[i].error -> {"idle", "undo"}
                   [] OTHER -> {"undo"} :
       user' = [user EXCEPT ![i] = next]
  /\ UNCHANGED <<requests, supervisor, namespace, commands, replies, pipe, fault>>

(* WslGeneratedReader::read; a full queue restores the slot and is no step. *)
Read(i) ==
  LET s == slot[i] IN
  /\ user[i] = "idle"
  /\ ~(s.closed \/ s.reply \/ s.inFlight \/ s.opening \/ s.error)
  /\ s.pending # "close"
  /\ s.next <= MaxReads
  /\ QueueRoom
  /\ slot' = [slot EXCEPT ![i] = [s EXCEPT !.next = @ + 1, !.pending = "read",
                                           !.s = s.next, !.inFlight = TRUE]]
  /\ requests' = Append(requests, Frame("read", i, s.next))
  /\ user' = [user EXCEPT ![i] = "read"]
  /\ UNCHANGED <<supervisor, namespace, commands, replies, pipe, fault>>

\* Mutant: the read in flight is forgotten when the close is prepared.
ClosingForgetsRead(s) ==
  IF s.pending = "close" THEN s
  ELSE [s EXCEPT !.s = s.next, !.next = @ + 1, !.pending = "close", !.reply = FALSE]

\* The close a slot is to send: a new one, or the one it could not send.
Closing(s) ==
  IF s.pending = "close" THEN s
  ELSE [s EXCEPT !.previous = IF s.pending = "read" THEN s.s ELSE @,
                 !.s = s.next, !.next = @ + 1, !.pending = "close", !.reply = FALSE]

(* WslGeneratedReader::close up to its wait. *)
Close(i) ==
  LET s == Closing(slot[i])
      waiting == IF user[i] = "undo" THEN "undoing" ELSE "close" IN
  /\ user[i] \in {"idle", "undo"}
  /\ CASE slot[i].closed ->
            /\ user' = [user EXCEPT ![i] = "released"]
            /\ UNCHANGED <<slot, requests>>
       [] ~slot[i].closed /\ s.sent ->
            /\ user' = [user EXCEPT ![i] = waiting]
            /\ UNCHANGED <<slot, requests>>
       [] ~slot[i].closed /\ ~s.sent /\ QueueRoom ->
            /\ slot' = [slot EXCEPT ![i] = [s EXCEPT !.sent = TRUE]]
            /\ requests' = Append(requests, Frame("close", i, s.s))
            /\ user' = [user EXCEPT ![i] = waiting]
       [] OTHER ->
            /\ slot' = [slot EXCEPT ![i] = s]
            /\ user' = [user EXCEPT ![i] = "idle"]
            /\ UNCHANGED requests
  /\ UNCHANGED <<supervisor, namespace, commands, replies, pipe, fault>>

(* The wait of close: the receipt releases the slot, the deadline leaves the *)
(* reader to its owner, who may call close again.                            *)
CloseReturns(i) ==
  /\ user[i] \in {"close", "undoing"}
  /\ user' = [user EXCEPT ![i] = IF slot[i].closed THEN "released" ELSE "idle"]
  /\ UNCHANGED <<slot, requests, supervisor, namespace, commands, replies, pipe, fault>>

\* Which response the slot expects (the match of ReaderRegistry::route).
Expected(s, f) ==
  CASE f.kind = "opened" -> s.pending \in {"open", "close"} /\ ~s.reply /\ s.opening
    [] f.kind = "page" -> \/ s.pending = "read" /\ ~s.reply /\ f.s = s.s
                          \/ s.pending = "close" /\ f.s = s.previous
    [] f.kind = "failed" -> \/ s.pending \in {"open", "read"} /\ ~s.reply /\ f.s = s.s
                            \/ /\ s.pending = "close"
                               /\ f.s \in {s.s, s.previous} \/ (s.opening /\ f.s = 0)
    [] f.kind = "closed" -> (s.pending = "close" /\ f.s = s.s) \/ f.s = s.automatic

\* What the slot keeps of it.
Routed(s, f) ==
  CASE f.kind = "closed" ->
         [s EXCEPT !.closed = s.pending = "close" /\ s.sent /\ f.s = s.s, !.reply = FALSE]
    [] f.kind = "failed" -> [s EXCEPT !.error = TRUE, !.automatic = f.s]
    [] OTHER -> [s EXCEPT !.opening = @ /\ f.kind # "opened",
                          !.inFlight = @ /\ f.kind # "page",
                          !.reply = s.pending # "close"]

(* The control reader thread hands one frame to the registry. *)
Route ==
  LET f == Head(pipe) IN
  /\ pipe # <<>>
  /\ pipe' = Tail(pipe)
  /\ IF f.id \in Live /\ ~slot[f.id].closed /\ Expected(slot[f.id], f)
     THEN slot' = [slot EXCEPT ![f.id] = Routed(@, f)] /\ UNCHANGED fault
     ELSE fault' = TRUE /\ UNCHANGED slot
  /\ UNCHANGED <<user, requests, supervisor, namespace, commands, replies>>

-----------------------------------------------------------------------------
(* The supervisor. *)

\* Writes meet a full pipe only while page bytes fill it.
MayBlock == \E n \in 1 .. Len(active \o pipe) : (active \o pipe)[n].kind = "page"

(* Output::drain over the queues q: finish the active frame if the pipe     *)
(* takes it, then promote the first frame of the lowest reader.  A closed   *)
(* receipt takes the reader's whole queue with it.                          *)
Drain(keys, q, blocked) ==
  LET held == active # <<>> /\ blocked
      ready == {i \in Ids : q[i] # <<>>}
      i == Min(ready)
      f == Head(q[i])
  IN /\ blocked => MayBlock
     /\ pipe' = IF held THEN pipe ELSE pipe \o active
     /\ IF held \/ ready = {}
        THEN /\ active' = IF held THEN active ELSE <<>>
             /\ outq' = q /\ outKeys' = keys
        ELSE /\ active' = <<f>>
             /\ outq' = [q EXCEPT ![i] = IF f.kind = "closed" THEN <<>> ELSE Tail(@)]
             /\ outKeys' = IF f.kind = "closed" THEN keys \ {i} ELSE keys

\* Output::reader_pending.
OutputPending(i) == outq[i] # <<>> \/ (active # <<>> /\ active[1].id = i)

SupervisorDrains ==
  /\ active # <<>>
  /\ \E blocked \in BOOLEAN : Drain(outKeys, outq, blocked)
  /\ UNCHANGED <<backend, namespace, control, highest, commands, replies, fault>>

\* The frame goes on to init, or the request fails the namespace.
Forward(legal, f, c) ==
  /\ requests' = Tail(requests)
  /\ IF legal
     THEN commands' = Append(commands, f) /\ control' = c /\ UNCHANGED fault
     ELSE fault' = TRUE /\ UNCHANGED <<commands, control>>

\* The terminal readers whose close was acknowledged.
Evictable == {i \in ControlHolds : control[i].reusable}

(* ReaderControl::request on an open: refused at the limit, else inserted in *)
(* the place of a terminal reader when the table is full.                    *)
RequestOpen ==
  LET f == Head(requests) IN
  /\ requests # <<>> /\ f.kind = "open"
  /\ highest' = [highest EXCEPT !.control = Max({@, f.id})]
  /\ IF f.id > highest.control /\ Cardinality(ControlOccupied) >= Limit
     THEN /\ pipe' = pipe \o <<Frame("failed", f.id, 0), Frame("closed", f.id, 0)>>
          /\ requests' = Tail(requests)
          /\ UNCHANGED <<commands, control, fault>>
     ELSE /\ LET full == Cardinality(ControlHolds) >= Limit
                 kept == IF full /\ Evictable # {}
                         THEN [control EXCEPT ![Min(Evictable)] = NoOperation] ELSE control
             IN Forward(f.id > highest.control /\ (full => Evictable # {}), f,
                        [kept EXCEPT ![f.id] = Operation("waiting", 0)])
          /\ UNCHANGED pipe
  /\ UNCHANGED <<slot, user, outKeys, outq, active, namespace, replies>>

RequestRead ==
  LET f == Head(requests) IN
  /\ requests # <<>> /\ f.kind = "read"
  /\ Forward(control[f.id].op = "ready" /\ ~OutputPending(f.id), f,
             [control EXCEPT ![f.id] = Operation("waiting", 0)])
  /\ UNCHANGED <<slot, user, highest, outKeys, outq, active, namespace, replies, pipe>>

RequestClose ==
  LET f == Head(requests)
      o == control[f.id] IN
  /\ requests # <<>> /\ f.kind = "close"
  /\ Forward(/\ o.op # "none"
             /\ o.op = "closed" => f.s = o.s + 1 /\ o.pending = None, f,
             [control EXCEPT ![f.id] = Operation("closing", f.s)])
  /\ UNCHANGED <<slot, user, highest, outKeys, outq, active, namespace, replies, pipe>>

\* Mutant: every closed receipt, the automatic one too, frees the place.
ReceivedReusing(o, f) ==
  LET waited == IF o.op = "closing" THEN o.s ELSE o.pending IN
  CASE f.kind = "closed" ->
         [op |-> "closed", s |-> f.s, reusable |-> TRUE,
          pending |-> IF waited = f.s THEN None ELSE waited]
    [] f.kind = "failed" -> IF o.op = "closing" THEN o ELSE Operation("failed", 0)
    [] OTHER -> IF o.op \in {"closing", "failed"} THEN o ELSE Operation("ready", 0)

\* The operation after a response (the body of ReaderControl::pump).
Received(o, f) ==
  LET waited == IF o.op = "closing" THEN o.s ELSE o.pending IN
  CASE f.kind = "closed" ->
         [op |-> "closed", s |-> f.s, reusable |-> waited = f.s,
          pending |-> IF waited = f.s THEN None ELSE waited]
    [] f.kind = "failed" -> IF o.op = "closing" THEN o ELSE Operation("failed", 0)
    [] OTHER -> IF o.op \in {"closing", "failed"} THEN o ELSE Operation("ready", 0)

(* One turn of ReaderControl::pump with Output::reader: the response joins   *)
(* its reader's queue, three frames long at most, and the output is drained. *)
SupervisorPumps ==
  LET f == Head(replies)
      keys == outKeys \cup {f.id} IN
  /\ replies # <<>>
  /\ replies' = Tail(replies)
  /\ IF /\ control[f.id].op # "none"
        /\ Cardinality(keys) <= Limit
        /\ Len(outq[f.id]) < 3
     THEN /\ control' = [control EXCEPT ![f.id] = Received(@, f)]
          /\ \E blocked \in BOOLEAN :
               Drain(keys, [outq EXCEPT ![f.id] = Append(@, f)], blocked)
          /\ UNCHANGED fault
     ELSE fault' = TRUE /\ UNCHANGED <<control, outKeys, outq, active, pipe>>
  /\ UNCHANGED <<backend, highest, namespace, commands>>

-----------------------------------------------------------------------------
(* The namespace's init. *)

\* Reader::terminate, with the child killed unless it is already reaped.
Killed(i) == [worker EXCEPT ![i] = IF @ = "reaped" THEN @ ELSE "dead"]
Terminated(r, failed) == [r EXCEPT !.op = "closing", !.pending = <<>>, !.failed = failed]

\* The command is consumed, with what becomes of the reader's record.
Obey(records, workers, queue) ==
  /\ commands' = Tail(commands)
  /\ reader' = records
  /\ worker' = workers
  /\ rejected' = queue
  /\ UNCHANGED fault

InitRefuses ==
  /\ commands' = Tail(commands)
  /\ fault' = TRUE
  /\ UNCHANGED <<reader, worker, rejected>>

(* Readers::reject keeps a terminal record where the table has room. *)
Reject(i, records) ==
  IF Len(rejected) + 2 > MaxPending THEN InitRefuses
  ELSE Obey(IF Cardinality({j \in Ids : records[j].kind # "none"}) < Limit
            THEN [records EXCEPT ![i] = TerminalReader(0, FALSE)] ELSE records,
            worker,
            rejected \o <<Frame("failed", i, 0), Frame("closed", i, 0)>>)

(* Readers::request on an open: the child may not start, or not be released. *)
InitOpens ==
  LET f == Head(commands)
      reusable == {j \in InitHolds : reader[j].reusable}
      full == Cardinality(InitHolds) >= Limit
      freed == {[reader EXCEPT ![j] = NoReader] : j \in reusable}
      spawned(records) ==
        \/ Reject(f.id, records)
        \/ Obey([records EXCEPT ![f.id] = NewReader],
                [worker EXCEPT ![f.id] = "opening"], rejected)
        \/ Obey([records EXCEPT ![f.id] = Terminated(NewReader, TRUE)],
                [worker EXCEPT ![f.id] = "dead"], rejected)
  IN
  /\ commands # <<>> /\ f.kind = "open"
  /\ highest' = [highest EXCEPT !.init = Max({@, f.id})]
  /\ CASE f.id <= highest.init -> InitRefuses
       [] f.id > highest.init /\ Cardinality(InitOccupied) >= Limit -> Reject(f.id, reader)
       [] OTHER -> \E records \in IF full THEN freed ELSE {reader} : spawned(records)
  /\ UNCHANGED <<backend, control, outKeys, outq, active, channel, replies, pipe>>

InitReads ==
  LET f == Head(commands)
      r == reader[f.id]
      legal == f.s = r.s + 1 /\ r.op = "idle" /\ r.pending = <<>> IN
  /\ commands # <<>> /\ f.kind = "read"
  /\ IF r.kind # "entry" THEN InitRefuses
     ELSE Obey([reader EXCEPT ![f.id] = IF legal THEN [r EXCEPT !.s = f.s, !.op = "reading"]
                                                 ELSE Terminated(r, TRUE)],
               IF legal THEN [worker EXCEPT ![f.id] = "reading"] ELSE Killed(f.id),
               rejected)
  /\ UNCHANGED <<backend, supervisor, channel, replies, pipe>>

\* Mutant: a close that finds the reader already closed is not acknowledged.
AcknowledgeSilently(f) == <<>>

\* The receipt for a close that finds the reader already closed.
Acknowledge(f) == <<Frame("closed", f.id, f.s)>>

InitCloses ==
  LET f == Head(commands)
      r == reader[f.id]
      next == f.s = r.s + 1 IN
  /\ commands # <<>> /\ f.kind = "close"
  /\ CASE r.kind = "entry" ->
            Obey([reader EXCEPT ![f.id] =
                    IF next THEN [Terminated(r, FALSE) EXCEPT !.s = f.s, !.asked = TRUE]
                            ELSE Terminated(r, TRUE)],
                 Killed(f.id), rejected)
       [] r.kind = "terminal" /\ next /\ Len(rejected) < MaxPending ->
            Obey([reader EXCEPT ![f.id] = TerminalReader(f.s, TRUE)], worker,
                 rejected \o Acknowledge(f))
       [] OTHER -> InitRefuses
  /\ UNCHANGED <<backend, supervisor, channel, replies, pipe>>

ReplyRoom(out) == Len(out) < ReplyMax

\* The head of Readers::pump: refusals and terminal receipts go first.
InitSendsRejected ==
  /\ rejected # <<>>
  /\ ReplyRoom(replies)
  /\ replies' = Append(replies, Head(rejected))
  /\ rejected' = Tail(rejected)
  /\ UNCHANGED <<backend, supervisor, commands, reader, worker, channel, pipe, fault>>

\* The frame a child's record expects (Reader::receive).
ChildExpected(r, f) ==
  \/ f.kind = "opened" /\ r.op = "opening"
  \/ f.kind = "page" /\ r.op = "reading" /\ f.s = r.s
  \/ f.kind = "failed" /\ r.op \in {"opening", "reading"} /\ f.s = r.s

\* A child whose frames are read while none waits to be sent on.
Listens(r) == ~r.drained /\ (r.pending = <<>> \/ r.op = "closing")

(* Reader::receive: one frame, or the end of the channel of a dead child. *)
ReceivedFrom(i) ==
  LET r == reader[i] IN
  CASE Listens(r) /\ channel[i] # <<>> /\ r.op # "closing" ->
         LET f == Head(channel[i]) IN
         IF ChildExpected(r, f) /\ f.kind # "failed"
         THEN [r EXCEPT !.pending = <<f>>] ELSE Terminated(r, TRUE)
    [] Listens(r) /\ channel[i] = <<>> /\ worker[i] \in {"dead", "reaped"} ->
         IF r.op = "closing" THEN [r EXCEPT !.drained = TRUE]
                             ELSE [Terminated(r, TRUE) EXCEPT !.drained = TRUE]
    [] OTHER -> r

\* The sends of one turn of the pump, each only if the socket takes it.
SendPending(r, out) ==
  IF r.pending # <<>> /\ ReplyRoom(out)
  THEN <<[r EXCEPT !.pending = <<>>, !.op = "idle"], out \o r.pending>>
  ELSE <<r, out>>
SendFailure(i, r, out) ==
  IF r.op = "closing" /\ r.failed /\ ReplyRoom(out)
  THEN <<[r EXCEPT !.failed = FALSE], Append(out, Frame("failed", i, r.s))>>
  ELSE <<r, out>>

\* Mutant: the receipt does not wait for the child to be reaped.
SendClosedUnreaped(i, r, out) ==
  IF r.op = "closing" /\ r.drained /\ ~r.failed /\ ReplyRoom(out)
  THEN <<TerminalReader(r.s, r.asked), Append(out, Frame("closed", i, r.s))>>
  ELSE <<r, out>>

SendClosed(i, r, out) ==
  IF r.op = "closing" /\ worker[i] = "reaped" /\ r.drained /\ ~r.failed /\ ReplyRoom(out)
  THEN <<TerminalReader(r.s, r.asked), Append(out, Frame("closed", i, r.s))>>
  ELSE <<r, out>>

(* One reader's turn of Readers::pump. *)
InitPumps(i) ==
  LET r == ReceivedFrom(i)
      first == SendPending(r, replies)
      second == SendFailure(i, first[1], first[2])
      third == SendClosed(i, second[1], second[2]) IN
  /\ reader[i].kind = "entry"
  /\ third[1] # reader[i] \/ (Listens(reader[i]) /\ channel[i] # <<>>)
  /\ reader' = [reader EXCEPT ![i] = third[1]]
  /\ replies' = third[2]
  /\ channel' = [channel EXCEPT ![i] = IF Listens(reader[i]) /\ @ # <<>> THEN Tail(@) ELSE @]
  /\ worker' = IF r.op = "closing" THEN Killed(i) ELSE worker
  /\ UNCHANGED <<backend, supervisor, commands, rejected, pipe, fault>>

\* waitpid reports the child.
InitReaps(i) ==
  /\ reader[i].kind = "entry" /\ worker[i] = "dead"
  /\ worker' = [worker EXCEPT ![i] = "reaped"]
  /\ UNCHANGED <<backend, supervisor, commands, reader, rejected, channel, replies,
                 pipe, fault>>

(* reader_worker::run: an open or a read is answered, or fails and the child *)
(* exits.                                                                    *)
WorkerAnswers(i) ==
  /\ worker[i] \in {"opening", "reading"}
  /\ \E ok \in BOOLEAN :
       LET kind == IF worker[i] = "opening" THEN "opened" ELSE "page"
           s == IF worker[i] = "opening" THEN 0 ELSE reader[i].s
       IN /\ channel' = [channel EXCEPT ![i] =
                           Append(@, Frame(IF ok THEN kind ELSE "failed", i, s))]
          /\ worker' = [worker EXCEPT ![i] = IF ok THEN "idle" ELSE "dead"]
  /\ UNCHANGED <<backend, supervisor, commands, reader, rejected, replies, pipe, fault>>

-----------------------------------------------------------------------------
User(i) == Open(i) \/ WaitEnds(i) \/ Read(i) \/ Close(i) \/ CloseReturns(i)
Supervisor == SupervisorDrains \/ RequestOpen \/ RequestRead \/ RequestClose \/ SupervisorPumps
NamespaceInit == InitOpens \/ InitReads \/ InitCloses \/ InitSendsRejected
                 \/ \E i \in Ids : InitPumps(i) \/ InitReaps(i)

Next ==
  \/ Route
  \/ Supervisor
  \/ NamespaceInit
  \/ \E i \in Ids : User(i) \/ WorkerAnswers(i)

Spec == Init /\ [][Next]_vars

(* The control threads, the supervisor's loop and init's loop keep turning,  *)
(* and the kernel reports a dead child.  Nothing obliges an owner to call    *)
(* anything, nor a child to answer: a close kills it.                        *)
FairSpec ==
  /\ Spec
  /\ WF_vars(Route)
  /\ WF_vars(RequestOpen \/ RequestRead \/ RequestClose)
  /\ WF_vars(SupervisorPumps)
  /\ WF_vars(SupervisorDrains /\ pipe' # pipe)
  /\ WF_vars(InitOpens \/ InitReads \/ InitCloses)
  /\ WF_vars(InitSendsRejected)
  /\ \A i \in Ids : WF_vars(InitPumps(i)) /\ WF_vars(InitReaps(i))

-----------------------------------------------------------------------------
(* Every table holds what its party can hold. *)
TypeOK ==
  /\ user \in [Ids -> {"free", "open", "undo", "undoing", "idle", "read", "close",
                       "released"}]
  /\ slot \in [Ids -> [pending : {"open", "read", "close"}, s : Sequences,
                       opening : BOOLEAN, inFlight : BOOLEAN,
                       previous : Sequences \cup {None}, reply : BOOLEAN,
                       error : BOOLEAN, automatic : Sequences \cup {None},
                       sent : BOOLEAN, next : 1 .. MaxReads + 2, closed : BOOLEAN]]
  /\ control \in [Ids -> [op : {"none", "waiting", "ready", "closing", "failed", "closed"},
                          s : Sequences, pending : Sequences \cup {None},
                          reusable : BOOLEAN]]
  /\ reader \in [Ids -> [kind : {"none", "entry", "terminal"},
                         op : {"opening", "idle", "reading", "closing"}, s : Sequences,
                         pending : {<<>>} \cup {<<f>> : f \in Frames}, failed : BOOLEAN,
                         asked : BOOLEAN, drained : BOOLEAN, reusable : BOOLEAN]]
  /\ worker \in [Ids -> {"none", "opening", "idle", "reading", "dead", "reaped"}]
  /\ highest \in [control : 0 .. MaxId, init : 0 .. MaxId]
  /\ requests \in Seq(Frames) /\ Len(requests) <= QueueMax
  /\ replies \in Seq(Frames) /\ Len(replies) <= ReplyMax
  /\ rejected \in Seq(Frames) /\ Len(rejected) <= MaxPending
  /\ commands \in Seq(Frames) /\ pipe \in Seq(Frames) /\ active \in Seq(Frames)
  /\ Len(active) <= 1
  /\ \A i \in Ids : channel[i] \in Seq(Frames) /\ outq[i] \in Seq(Frames)
  /\ outKeys \subseteq Ids
  /\ fault \in BOOLEAN

(* A backend that follows its own slot is never refused: whatever open,      *)
(* read, close, failure and automatic receipt cross on the way, no party     *)
(* meets a frame its own table calls illegal, replayed, unknown or too many  *)
(* (readers.rs:174-286, reader_control.rs:36-165, linux/readers.rs:180-315,  *)
(* sys.rs:271-285).  Any of these would take every reader of the namespace   *)
(* down with it.                                                             *)
NoProtocolError == ~fault

(* The three tables agree on who still holds a place: init frees one before  *)
(* the supervisor does, and the supervisor before the backend.  A new reader *)
(* admitted by the backend therefore always finds room further on, and an    *)
(* automatic receipt frees nothing (reader_control.rs:47-82, 137-151,        *)
(* linux/readers.rs:185-210).                                                *)
ReservationsAgree ==
  /\ InitOccupied \subseteq ControlOccupied
  /\ ControlOccupied \subseteq Live
  /\ Cardinality(Live) <= Limit

(* A reader the backend calls closed has no child left: the receipt it       *)
(* accepted was sent after the child was reaped and its channel drained      *)
(* (linux/readers.rs:334-366, readers.rs:289-293).                           *)
ClosedMeansReaped ==
  \A i \in Ids : slot[i].closed => worker[i] \in {"none", "reaped"} /\ channel[i] = <<>>

(* The acknowledgement that lets the supervisor reuse a place is on its way  *)
(* to the backend until the backend has it (native_readers.rs:322-374 expects*)
(* the receipt of a cancel that races an automatic failure).                 *)
AcknowledgementDelivered ==
  \A i \in Ids :
    control[i].reusable /\ user[i] # "released" /\ ~slot[i].closed =>
      \E n \in 1 .. Len(outq[i] \o active \o pipe) :
        (outq[i] \o active \o pipe)[n] = Frame("closed", i, control[i].s)

(* A close that was sent is acknowledged, whatever the child was doing and   *)
(* whatever failed before it (requests.rs:134-203, linux/readers.rs:280-311).*)
CloseEnds == \A i \in Ids : slot[i].sent ~> slot[i].closed
=============================================================================
