------------------------ MODULE FixedCapacityProofs -------------------------
(* Three structures that count what they let in. The first part proves       *)
(* FixedChannel: type correctness, ring consistency, the absence of lost     *)
(* wakeups and the refinement of BoundedFifo, for every capacity, every set  *)
(* of threads and every set of messages. The second proves WorkerPool, the   *)
(* permits of the process worker pool, for every capacity that holds one     *)
(* connection, one ordinary role and the reserve. The third proves           *)
(* LiveCommandGate, the permits of the live commands and the election        *)
(* between the cut of a failed service and its ordinary shutdown, for every  *)
(* finite set of commands.                                                   *)
EXTENDS FixedChannel, WorkerPool, LiveCommandGate, Sequences, FiniteSets, TLAPS

\* NextSlot stays in the ring and is the increment that wraps at Capacity.
LEMMA NextSlotWraps ==
    ASSUME NEW i \in 0..Capacity-1
    PROVE  /\ NextSlot(i) \in 0..Capacity-1
           /\ NextSlot(i) = IF i + 1 = Capacity THEN 0 ELSE i + 1
  <1>1. CASE i + 1 = Capacity
    <2>1. Capacity % Capacity = 0
      BY CapacityAssumption, SMT
    <2> QED BY <1>1, <2>1, CapacityAssumption DEF NextSlot
  <1>2. CASE i + 1 # Capacity
    <2>1. i + 1 \in 0..Capacity-1
      BY <1>2, CapacityAssumption
    <2>2. (i + 1) % Capacity = i + 1
      BY <2>1, CapacityAssumption, SMT
    <2> QED BY <1>2, <2>1, <2>2, Zenon DEF NextSlot
  <1> QED BY <1>1, <1>2, Zenon

\* A send call in progress still owns its message (message.take() has not run).
CallerOwnsMessage == \A s \in Senders : pc[s] \in {"lock", "wait"} => msg[s] \in Messages

\* The inductive invariant: CallerOwnsMessage is what keeps an occupied slot
\* distinguishable from an empty one.
IInv == TypeOK /\ RingConsistent /\ CallerOwnsMessage /\ NoLostWakeup

USE CapacityAssumption, CounterAssumption, NoneAssumption, ThreadAssumption DEF Threads,
   HasRoom

\* A new channel satisfies the invariant.
LEMMA InitIInv == Init => IInv
  BY SMTT(30) DEF Init, IInv, TypeOK, RingConsistent, DiagnosticsAgree, InRing,
     CallerOwnsMessage, NoLostWakeup, Statuses

\* The diagnostic counters stay within u64.
LEMMA SaturatingAddType == \A n \in 0..CounterMax : SaturatingAdd(n) \in 0..CounterMax
  BY DEF SaturatingAdd

\* Storing at tail keeps the ring consistent.
LEMMA PushTailRing ==
    ASSUME TypeOK, RingConsistent, len < Capacity, NEW m \in Messages, PushTail(m)
    PROVE  /\ slots' \in [0..Capacity-1 -> Messages \cup {None}]
           /\ head' \in 0..Capacity-1 /\ tail' \in 0..Capacity-1 /\ len' \in 0..Capacity
           /\ sends' \in 0..CounterMax /\ receives' \in 0..CounterMax /\ high_water' \in 0..Capacity
           /\ RingConsistent'
  <1>1. tail' \in 0..Capacity-1 /\ tail' = IF tail + 1 = Capacity THEN 0 ELSE tail + 1
    BY NextSlotWraps, Zenon DEF PushTail, TypeOK
  <1>2. slots' \in [0..Capacity-1 -> Messages \cup {None}] /\ head' \in 0..Capacity-1
        /\ len' \in 0..Capacity
    BY DEF PushTail, TypeOK
  <1>3. sends' \in 0..CounterMax /\ receives' \in 0..CounterMax /\ high_water' \in 0..Capacity
    BY SaturatingAddType DEF PushTail, TypeOK
  <1>4. head' + len' = tail' \/ head' + len' = tail' + Capacity
    BY <1>1 DEF PushTail, TypeOK, RingConsistent
  <1>5. \A i \in 0..Capacity-1 : InRing(i)' <=> slots'[i] # None
    BY <1>1 DEF PushTail, TypeOK, RingConsistent, InRing
  <1>6. DiagnosticsAgree'
    BY DEF PushTail, SaturatingAdd, TypeOK, RingConsistent, DiagnosticsAgree
  <1> QED BY <1>1, <1>2, <1>3, <1>4, <1>5, <1>6, Zenon DEF RingConsistent

\* Taking from head keeps the ring consistent, and what is taken is a message.
LEMMA TakeHeadRing ==
    ASSUME TypeOK, RingConsistent, len > 0, TakeHead
    PROVE  /\ slots[head] \in Messages
           /\ slots' \in [0..Capacity-1 -> Messages \cup {None}]
           /\ head' \in 0..Capacity-1 /\ tail' \in 0..Capacity-1 /\ len' \in 0..Capacity
           /\ sends' \in 0..CounterMax /\ receives' \in 0..CounterMax /\ high_water' \in 0..Capacity
           /\ RingConsistent'
  <1>1. head' \in 0..Capacity-1 /\ head' = IF head + 1 = Capacity THEN 0 ELSE head + 1
    BY NextSlotWraps, Zenon DEF TakeHead, TypeOK
  <1>2. slots' \in [0..Capacity-1 -> Messages \cup {None}] /\ tail' \in 0..Capacity-1
        /\ len' \in 0..Capacity
    BY DEF TakeHead, TypeOK
  <1>3. sends' \in 0..CounterMax /\ receives' \in 0..CounterMax /\ high_water' \in 0..Capacity
    BY SaturatingAddType, Zenon DEF TakeHead, TypeOK
  <1>4. head' + len' = tail' \/ head' + len' = tail' + Capacity
    BY <1>1 DEF TakeHead, TypeOK, RingConsistent
  <1>5. slots[head] \in Messages
    BY DEF TypeOK, RingConsistent, InRing
  <1>6. \A i \in 0..Capacity-1 : InRing(i)' <=> slots'[i] # None
    BY <1>1 DEF TakeHead, TypeOK, RingConsistent, InRing
  <1>7. DiagnosticsAgree'
    BY DEF TakeHead, SaturatingAdd, TypeOK, RingConsistent, DiagnosticsAgree
  <1> QED BY <1>1, <1>2, <1>3, <1>4, <1>5, <1>6, <1>7, Zenon DEF RingConsistent

\* A step that leaves the ring alone keeps it consistent.
LEMMA RingUnchanged ==
    ASSUME RingConsistent, UNCHANGED ring
    PROVE  RingConsistent'
  BY Zenon DEF RingConsistent, DiagnosticsAgree, InRing, ring

\* Every section under the mutex, every notification and every wakeup keeps the
\* invariant.
LEMMA NextIInv == IInv /\ [Next]_vars => IInv'
  <1> SUFFICES ASSUME IInv, [Next]_vars PROVE IInv'
    BY Zenon
  <1> USE DEF IInv
  <1>1. ASSUME NEW s \in Senders, NEW m \in Messages, NEW d \in {"none", "pending", "expired"},
               CallSend(s, m, d)
        PROVE  IInv'
    BY <1>1, RingUnchanged, Zenon DEF CallSend, TypeOK, ring, Statuses, CallerOwnsMessage,
       NoLostWakeup, Ready
  <1>2. ASSUME NEW r \in Receivers, NEW d \in {"none", "pending", "expired"}, CallReceive(r, d)
        PROVE  IInv'
    BY <1>2, RingUnchanged, Zenon DEF CallReceive, TypeOK, ring, Statuses, CallerOwnsMessage,
       NoLostWakeup, Ready
  <1>3. ASSUME NEW s \in Senders, SendClosed(s)
        PROVE  IInv'
    BY <1>3, RingUnchanged, Zenon DEF SendClosed, Return, TypeOK, ring, Statuses, CallerOwnsMessage,
       NoLostWakeup, Ready
  <1>4. ASSUME NEW s \in Senders, SendStore(s)
        PROVE  IInv'
    <2>1. msg[s] \in Messages BY <1>4, Zenon DEF SendStore, CallerOwnsMessage
    <2>5. TypeOK' /\ RingConsistent' /\ CallerOwnsMessage' /\ NoLostWakeup'
      BY <1>4, <2>1, PushTailRing, Zenon DEF SendStore, ReturnNotifying, TypeOK, Statuses,
         CallerOwnsMessage, NoLostWakeup
    <2> QED BY <2>5, Zenon
  <1>5. ASSUME NEW s \in Senders, SendFull(s)
        PROVE  IInv'
    BY <1>5, RingUnchanged DEF SendFull, Block, Return, TypeOK, ring, Statuses,
       CallerOwnsMessage, NoLostWakeup, Ready
  <1>6. ASSUME NEW r \in Receivers, ReceiveTake(r)
        PROVE  IInv'
    BY <1>6, TakeHeadRing, Zenon DEF ReceiveTake, ReturnNotifying, TypeOK, Statuses,
       CallerOwnsMessage, NoLostWakeup
  <1>7. ASSUME NEW r \in Receivers, ReceiveClosed(r)
        PROVE  IInv'
    BY <1>7, RingUnchanged, Zenon DEF ReceiveClosed, Return, TypeOK, ring, Statuses,
       CallerOwnsMessage, NoLostWakeup, Ready
  <1>8. ASSUME NEW r \in Receivers, ReceiveEmpty(r)
        PROVE  IInv'
    BY <1>8, RingUnchanged DEF ReceiveEmpty, Block, Return, TypeOK, ring, Statuses,
       CallerOwnsMessage, NoLostWakeup, Ready
  <1>9. ASSUME NEW t \in Threads, NotifyAll(t)
        PROVE  IInv'
    BY <1>9, RingUnchanged, Zenon DEF NotifyAll, TypeOK, ring, call, Statuses, Waiters,
       CallerOwnsMessage, NoLostWakeup
  <1>10. ASSUME NEW t \in Threads, Expire(t) \/ Wake(t)
         PROVE  IInv'
    BY <1>10, RingUnchanged, Zenon DEF Expire, Wake, TypeOK, ring, call, Statuses,
       CallerOwnsMessage, NoLostWakeup, Ready
  <1>11. ASSUME NEW s \in Senders, DropSender(s)
         PROVE  IInv'
    <2>1. TypeOK' BY <1>11, Zenon DEF DropSender, ReturnNotifying, TypeOK, ring, Statuses
    <2>4. RingConsistent' /\ CallerOwnsMessage' /\ NoLostWakeup'
      BY <1>11, RingUnchanged, Zenon DEF DropSender, ReturnNotifying, TypeOK, CallerOwnsMessage,
         NoLostWakeup
    <2> QED BY <2>1, <2>4, Zenon
  <1>12. ASSUME NEW r \in Receivers, DropReceiver(r)
         PROVE  IInv'
    <2>1. TypeOK' BY <1>12, Zenon DEF DropReceiver, ReturnNotifying, TypeOK, ring, Statuses
    <2>4. RingConsistent' /\ CallerOwnsMessage' /\ NoLostWakeup'
      BY <1>12, RingUnchanged, Zenon DEF DropReceiver, ReturnNotifying, TypeOK, CallerOwnsMessage,
         NoLostWakeup
    <2> QED BY <2>1, <2>4, Zenon
  <1>13. CASE UNCHANGED vars
    BY <1>13, RingUnchanged, Zenon DEF vars, ring, call, TypeOK, CallerOwnsMessage, NoLostWakeup,
       Ready
  <1> QED
    BY <1>1, <1>2, <1>3, <1>4, <1>5, <1>6, <1>7, <1>8, <1>9, <1>10, <1>11, <1>12, <1>13, Zenon
       DEF Next, Step

\* The invariant holds in every reachable state.
LEMMA Invariance == Spec => []IInv
  BY InitIInv, NextIInv, PTL DEF Spec

\* The channel state keeps its type through every call, wait and drop.
THEOREM TypeCorrect == Spec => []TypeOK
  BY Invariance, PTL DEF IInv

\* try_send, send_timeout and take_head keep the ring consistent: the
\* expect("occupied channel slot") of take_head never fails, and the diagnostic
\* counters account for what the ring holds.
THEOREM RingIsConsistent == Spec => []RingConsistent
  BY Invariance, PTL DEF IInv

\* Notifying after the mutex is released loses no wakeup.
THEOREM WakeupsAreNotLost == Spec => []NoLostWakeup
  BY Invariance, PTL DEF IInv

-----------------------------------------------------------------------------
(* The refinement of BoundedFifo.                                            *)

\* A call under way has not answered yet.
CallsPending == \A t \in Threads : pc[t] \in {"lock", "wait"} => status[t] = "none"

\* Only the step that ends a call writes its status.
LEMMA PendingInvariant == Spec => []CallsPending
  <1>1. Init => CallsPending
    BY Zenon DEF Init, CallsPending
  <1>2. IInv /\ CallsPending /\ [Next]_vars => CallsPending'
    <2> SUFFICES ASSUME IInv, CallsPending, [Next]_vars PROVE CallsPending'
      BY Zenon
    <2> USE DEF IInv, TypeOK, CallsPending
    <2>1. ASSUME NEW s \in Senders, NEW m \in Messages, NEW d \in {"none", "pending", "expired"},
                 CallSend(s, m, d)
          PROVE  CallsPending'
      BY <2>1, Zenon DEF CallSend
    <2>2. ASSUME NEW r \in Receivers, NEW d \in {"none", "pending", "expired"}, CallReceive(r, d)
          PROVE  CallsPending'
      BY <2>2, Zenon DEF CallReceive
    <2>3. ASSUME NEW s \in Senders, SendClosed(s) \/ SendStore(s) \/ SendFull(s)
          PROVE  CallsPending'
      BY <2>3 DEF SendClosed, SendStore, SendFull, Block, Return, ReturnNotifying
    <2>4. ASSUME NEW r \in Receivers, ReceiveTake(r) \/ ReceiveClosed(r) \/ ReceiveEmpty(r)
          PROVE  CallsPending'
      BY <2>4 DEF ReceiveTake, ReceiveClosed, ReceiveEmpty, Block, Return, ReturnNotifying
    <2>5. ASSUME NEW t \in Threads, NotifyAll(t) \/ Expire(t) \/ Wake(t)
          PROVE  CallsPending'
      BY <2>5 DEF NotifyAll, Waiters, Expire, Wake, call
    <2>6. ASSUME NEW t \in Threads, DropSender(t) \/ DropReceiver(t)
          PROVE  CallsPending'
      BY <2>6, Zenon DEF DropSender, DropReceiver, ReturnNotifying
    <2>7. CASE UNCHANGED vars
      BY <2>7, Zenon DEF vars, call
    <2> QED BY <2>1, <2>2, <2>3, <2>4, <2>5, <2>6, <2>7 DEF Next, Step
  <1> QED BY <1>1, <1>2, Invariance, PTL DEF Spec

\* The queue is the messages of the ring, len of them.
LEMMA QueueType ==
    ASSUME TypeOK, RingConsistent
    PROVE  Queue \in Seq(Messages) /\ Len(Queue) = len
  <1>1. \A i \in 1..len : SlotOf(i) \in 0..Capacity-1 /\ InRing(SlotOf(i))
    BY DEF TypeOK, SlotOf, InRing
  <1>2. \A i \in 1..len : slots[SlotOf(i)] \in Messages
    BY <1>1, Zenon DEF TypeOK, RingConsistent
  <1>3. len \in Nat
    BY DEF TypeOK
  <1> QED BY <1>2, <1>3 DEF Queue

\* Sequences with the same elements are equal.
LEMMA SameElements ==
    ASSUME NEW S, NEW s \in Seq(S), NEW t \in Seq(S),
           Len(s) = Len(t), \A i \in 1..Len(s) : s[i] = t[i]
    PROVE  s = t
  OBVIOUS

\* Storing at tail appends to the queue.
LEMMA PushTailAppends ==
    ASSUME TypeOK, RingConsistent, len < Capacity, NEW m \in Messages, PushTail(m)
    PROVE  Queue' = Append(Queue, m)
  <1>1. len' = len + 1 /\ len \in Nat
    BY DEF PushTail, TypeOK
  <1>2. \A i \in 1..len : SlotOf(i)' = SlotOf(i) /\ SlotOf(i) \in 0..Capacity-1 /\ SlotOf(i) # tail
    BY DEF PushTail, TypeOK, RingConsistent, SlotOf
  <1>3. \A i \in Nat : i = len + 1 => SlotOf(i)' = tail
    BY DEF PushTail, TypeOK, RingConsistent, SlotOf
  <1>4. slots'[tail] = m /\ \A j \in 0..Capacity-1 : j # tail => slots'[j] = slots[j]
    BY Zenon DEF PushTail, TypeOK
  <1>5. Queue' = [i \in 1..len+1 |-> slots'[SlotOf(i)']]
    BY <1>1, Zenon DEF Queue
  <1>6. Queue' = [i \in 1..len+1 |-> IF i = len + 1 THEN m ELSE Queue[i]]
    BY <1>1, <1>2, <1>3, <1>4, <1>5 DEF Queue
  <1>7. Queue \in Seq(Messages) /\ Len(Queue) = len
    BY QueueType, Zenon
  <1>8. /\ Append(Queue, m) \in Seq(Messages) /\ Len(Append(Queue, m)) = len + 1
        /\ \A i \in 1..len : Append(Queue, m)[i] = Queue[i]
        /\ Append(Queue, m)[len + 1] = m
    BY <1>7
  <1>9. /\ Queue' \in Seq(Messages) /\ Len(Queue') = len + 1
        /\ \A i \in 1..len : Queue'[i] = Queue[i]
        /\ Queue'[len + 1] = m
    BY <1>1, <1>6, <1>7
  <1>10. \A i \in 1..Len(Queue') : Queue'[i] = Append(Queue, m)[i]
    BY <1>1, <1>8, <1>9
  <1> QED BY <1>8, <1>9, <1>10, SameElements, Zenon

\* Taking from head takes the head of the queue and leaves its tail.
LEMMA TakeHeadRemoves ==
    ASSUME TypeOK, RingConsistent, len > 0, TakeHead
    PROVE  Queue # <<>> /\ slots[head] = Head(Queue) /\ Queue' = Tail(Queue)
  <1>1. len' = len - 1 /\ len \in Nat /\ len' \in Nat
    BY DEF TakeHead, TypeOK
  <1>2. head' = IF head + 1 = Capacity THEN 0 ELSE head + 1
    BY NextSlotWraps, Zenon DEF TakeHead, TypeOK
  <1>3. \A i \in 1..len-1 : /\ SlotOf(i)' = SlotOf(i + 1)
                            /\ SlotOf(i + 1) \in 0..Capacity-1 /\ SlotOf(i + 1) # head
    BY <1>2 DEF TakeHead, TypeOK, RingConsistent, SlotOf
  <1>4. SlotOf(1) = head
    BY DEF TypeOK, SlotOf
  <1>5. \A j \in 0..Capacity-1 : j # head => slots'[j] = slots[j]
    BY Zenon DEF TakeHead, TypeOK
  <1>6. Queue \in Seq(Messages) /\ Len(Queue) = len
    BY QueueType, Zenon
  <1>7. Queue' = [i \in 1..len-1 |-> slots'[SlotOf(i)']]
    BY <1>1, Zenon DEF Queue
  <1>8. Queue' = [i \in 1..len-1 |-> Queue[i + 1]]
    BY <1>1, <1>3, <1>5, <1>7 DEF Queue
  <1>9. Queue[1] = slots[head]
    BY <1>1, <1>4 DEF Queue
  <1>10. Queue # <<>> /\ Head(Queue) = slots[head]
    BY <1>1, <1>6, <1>9
  <1>11. /\ Tail(Queue) \in Seq(Messages) /\ Len(Tail(Queue)) = len - 1
         /\ \A i \in 1..len-1 : Tail(Queue)[i] = Queue[i + 1]
    BY <1>1, <1>6, <1>10
  <1>12. /\ Queue' \in Seq(Messages) /\ Len(Queue') = len - 1
         /\ \A i \in 1..len-1 : Queue'[i] = Queue[i + 1]
    BY <1>1, <1>6, <1>8
  <1>13. \A i \in 1..Len(Queue') : Queue'[i] = Tail(Queue)[i]
    BY <1>11, <1>12, Zenon
  <1>14. Queue' = Tail(Queue)
    BY <1>11, <1>12, <1>13, SameElements, Zenon
  <1> QED BY <1>10, <1>14, Zenon

\* A step that leaves the ring alone leaves the queue alone.
LEMMA QueueUnchanged ==
    ASSUME UNCHANGED ring
    PROVE  Queue' = Queue
  BY Zenon DEF Queue, SlotOf, ring

\* Every step of the channel is a step, or a stutter, of BoundedFifo.
LEMMA NextImplements == IInv /\ CallsPending /\ [Next]_vars => [Fifo!Next]_Fifo!vars
  <1> SUFFICES ASSUME IInv, CallsPending, [Next]_vars
               PROVE  Fifo!Next \/ UNCHANGED Fifo!vars
    BY Zenon
  <1>0. Queue \in Seq(Messages) /\ Len(Queue) = len /\ (Queue = <<>> <=> len = 0)
    BY QueueType DEF IInv
  <1>1. ASSUME NEW s \in Senders, NEW m \in Messages, NEW d \in {"none", "pending", "expired"},
               CallSend(s, m, d)
        PROVE  Fifo!Next
    <2>1. Fifo!Call(s)
      BY <1>1, QueueUnchanged, Zenon DEF CallSend, Fifo!Call, Fifo!Answer
    <2> QED BY <2>1, Zenon DEF Fifo!Next, Fifo!Threads
  <1>2. ASSUME NEW r \in Receivers, NEW d \in {"none", "pending", "expired"}, CallReceive(r, d)
        PROVE  Fifo!Next
    <2>1. Fifo!Call(r)
      BY <1>2, QueueUnchanged, Zenon DEF CallReceive, Fifo!Call, Fifo!Answer
    <2> QED BY <2>1, Zenon DEF Fifo!Next, Fifo!Threads
  <1>3. ASSUME NEW s \in Senders, SendStore(s)
        PROVE  Fifo!Next
    <2>1. msg[s] \in Messages /\ msg[s] # None /\ status[s] = "none"
      BY <1>3, Zenon DEF SendStore, IInv, CallerOwnsMessage, CallsPending
    <2>2. Queue' = Append(Queue, msg[s])
      BY <1>3, <2>1, PushTailAppends, Zenon DEF SendStore, IInv
    <2>3. Len(Queue) < Capacity
      BY <1>0, <1>3, Zenon DEF SendStore
    <2>4. Fifo!Send(s)
      BY <1>3, <2>1, <2>2, <2>3, Zenon DEF SendStore, ReturnNotifying, Fifo!Send, Fifo!Answer
    <2> QED BY <2>4, Zenon DEF Fifo!Next
  <1>4. ASSUME NEW s \in Senders, SendClosed(s) \/ SendFull(s)
        PROVE  Fifo!Next \/ UNCHANGED Fifo!vars
    <2>1. msg[s] # None /\ status[s] = "none" /\ Queue' = Queue
      BY <1>4, QueueUnchanged, Zenon DEF SendClosed, SendFull, IInv, CallerOwnsMessage, CallsPending
    <2>2. CASE status' = status
      BY <1>4, <2>1, <2>2, Zenon DEF SendClosed, SendFull, Fifo!vars
    <2>3. CASE SendClosed(s)
      <3>1. Fifo!RefuseSend(s)
        BY <2>1, <2>3, Zenon DEF SendClosed, Return, Fifo!RefuseSend, Fifo!Answer
      <3> QED BY <3>1, Zenon DEF Fifo!Next
    <2>4. CASE SendFull(s) /\ status' # status
      <3>1. Len(Queue) = Capacity
        BY <1>0, <2>4 DEF SendFull, IInv, TypeOK
      <3>2. Fifo!RefuseSend(s)
        BY <2>1, <2>4, <3>1, Zenon DEF SendFull, Block, Return, Fifo!RefuseSend, Fifo!Answer
      <3> QED BY <3>2, Zenon DEF Fifo!Next
    <2> QED BY <1>4, <2>2, <2>3, <2>4, Zenon
  <1>5. ASSUME NEW r \in Receivers, ReceiveTake(r)
        PROVE  Fifo!Next
    <2>1. status[r] = "none"
      BY <1>5, Zenon DEF ReceiveTake, CallsPending
    <2>2. Queue # <<>> /\ slots[head] = Head(Queue) /\ Queue' = Tail(Queue)
      BY <1>5, TakeHeadRemoves, Zenon DEF ReceiveTake, IInv
    <2>3. Fifo!Receive(r)
      BY <1>5, <2>1, <2>2, Zenon DEF ReceiveTake, ReturnNotifying, Fifo!Receive, Fifo!Answer
    <2> QED BY <2>3, Zenon DEF Fifo!Next
  <1>6. ASSUME NEW r \in Receivers, ReceiveClosed(r) \/ ReceiveEmpty(r)
        PROVE  Fifo!Next \/ UNCHANGED Fifo!vars
    <2>1. status[r] = "none" /\ Queue' = Queue /\ Queue = <<>>
      BY <1>0, <1>6, QueueUnchanged, Zenon DEF ReceiveClosed, ReceiveEmpty, CallsPending
    <2>2. CASE status' = status
      BY <1>6, <2>1, <2>2, Zenon DEF ReceiveClosed, ReceiveEmpty, Fifo!vars
    <2>3. CASE status' # status
      <3>1. Fifo!RefuseReceive(r)
        BY <1>6, <2>1, <2>3, Zenon DEF ReceiveClosed, ReceiveEmpty, Block, Return,
           Fifo!RefuseReceive, Fifo!Answer
      <3> QED BY <3>1, Zenon DEF Fifo!Next
    <2> QED BY <2>2, <2>3, Zenon
  <1>7. ASSUME NEW t \in Threads, NotifyAll(t) \/ Expire(t) \/ Wake(t)
        PROVE  UNCHANGED Fifo!vars
    BY <1>7, QueueUnchanged, Zenon DEF NotifyAll, Expire, Wake, call, Fifo!vars
  <1>8. ASSUME NEW t \in Threads, DropSender(t) \/ DropReceiver(t)
        PROVE  Fifo!Next
    <2>1. Queue' = Queue
      BY <1>8, QueueUnchanged, Zenon DEF DropSender, DropReceiver
    <2>2. Fifo!Close
      BY <1>8, <2>1, Zenon DEF DropSender, DropReceiver, ReturnNotifying, Fifo!Close,
         Fifo!Answer, Fifo!Threads
    <2> QED BY <2>2, Zenon DEF Fifo!Next
  <1>9. CASE UNCHANGED vars
    BY <1>9, QueueUnchanged, Zenon DEF vars, call, Fifo!vars
  <1> QED BY <1>1, <1>2, <1>3, <1>4, <1>5, <1>6, <1>7, <1>8, <1>9, Zenon DEF Next, Step

\* The channel is a bounded first-in first-out queue whose calls take effect in
\* one critical section each (try_send, send_timeout, try_receive,
\* receive_timeout and the drops), whatever the capacity and the number of
\* callers.
THEOREM FifoIsImplemented == Spec => ImplementsFifo
  <1>1. Init => Fifo!Init
    BY DEF Init, Queue, Fifo!Init, Fifo!Threads
  <1> QED BY <1>1, Invariance, PendingInvariant, NextImplements, PTL DEF Spec,
     ImplementsFifo, Fifo!Spec

-----------------------------------------------------------------------------
HIDE CapacityAssumption
HIDE CounterAssumption
HIDE NoneAssumption
HIDE ThreadAssumption
HIDE DEF Threads, HasRoom

\* The assumptions of WorkerPool on its constants.
PoolOK ==
    /\ PoolCapacity \in Nat
    /\ PoolCapacity >= ConnectionPermits + OrdinaryPermits + SteeringReserve
    /\ MaxOwed \in Nat \ {0}

(* They hold of every instance of the component. *)
LEMMA PoolConstants == PoolOK
  BY PoolCapacityAssumption, MaxOwedAssumption, Zenon DEF PoolOK

\* The pool's properties are inductive together.
PoolInv ==
    /\ PoolOK /\ PoolTypeOK /\ PermitsConserved
    /\ ReserveKept /\ ArmedIsUnserved /\ RefusedIsTold

-----------------------------------------------------------------------------
(* Taking permits never makes room for a non-critical role, not even a steering
   acquisition, which lifts the reserve (noncritical_role_fits). *)
LEMMA NoRoomMade ==
    ASSUME NEW free \in Nat, NEW steering \in Nat, NEW taken \in Nat, NEW more \in Nat,
           NEW wanted \in Nat, taken <= free, more <= taken, more <= 1,
           FitsIn(free - taken, steering + more, wanted)
    PROVE  FitsIn(free, steering, wanted)
BY DEF FitsIn, SteeringReserve

(* The room an attempt's own permits need is never more than the room its
   lane waits for, so a refusal leaves a demand the pool cannot meet. *)
LEMMA RefusalUnserved ==
    ASSUME NEW free \in Nat, NEW steering \in Nat, NEW wanted \in Nat, NEW more \in Nat,
           wanted <= more, ~FitsIn(free, steering, wanted)
    PROVE  ~FitsIn(free, steering, more)
BY DEF FitsIn, SteeringReserve

\* A lane waits for a number of permits.
LEMMA ThresholdType == \A lane \in Lanes : Threshold(lane) \in Nat
BY DEF Lanes, Threshold, OrdinaryPermits, ConnectionPermits

\* A new pool, with every permit free and no demand, satisfies the invariant.
LEMMA PoolInvInit == PoolOK /\ PoolInit => PoolInv
<1> SUFFICES ASSUME PoolOK, PoolInit PROVE PoolInv
  BY Zenon
<1>1. PoolTypeOK
  BY DEF PoolOK, PoolInit, PoolTypeOK
<1>2. PermitsConserved
  BY DEF PoolOK, PoolInit, PermitsConserved, Roles
<1>3. ReserveKept /\ ArmedIsUnserved /\ RefusedIsTold
  BY DEF PoolOK, PoolInit, ReserveKept, ArmedIsUnserved, RefusedIsTold,
     SteeringReserve, ConnectionPermits, OrdinaryPermits
<1> QED  BY <1>1, <1>2, <1>3, Zenon DEF PoolInv
-----------------------------------------------------------------------------
(* An acquisition moves free permits to one role, and the steering count follows
   a steering permit: nothing is lost (record_acquisition). *)
LEMMA HoldTypes ==
    ASSUME PoolInv, NEW role \in Roles, NEW wanted \in {1, 2, 4}, wanted <= available,
           Hold(role, wanted),
           active' = active + (IF role \in Steering THEN wanted ELSE 0)
    PROVE  /\ available' \in 0..PoolCapacity
           /\ active' \in 0..PoolCapacity
           /\ held' \in [Roles -> 0..PoolCapacity]
           /\ PermitsConserved'
<1>1. /\ available \in 0..PoolCapacity /\ active \in 0..PoolCapacity
      /\ held \in [Roles -> 0..PoolCapacity]
      /\ PermitsConserved /\ PoolCapacity \in Nat
  BY Zenon DEF PoolOK, PoolInv, PoolTypeOK
<1>2. available' \in 0..PoolCapacity
  BY <1>1 DEF Hold
<1>3. /\ held' \in [Roles -> Int]
      /\ \A other \in Roles : held'[other] =
             IF other = role THEN held[other] + wanted ELSE held[other]
  BY <1>1 DEF Hold
<1>4. PermitsConserved'
  <2>1. /\ held["connection"] \in Nat /\ held["ordinary"] \in Nat
        /\ held["provisional"] \in Nat /\ held["committed"] \in Nat
    BY <1>1 DEF Roles
  <2> QED  BY <1>1, <1>3, <2>1 DEF Hold, PermitsConserved, Roles, Steering
<1>5. held' \in [Roles -> 0..PoolCapacity] /\ active' \in 0..PoolCapacity
  <2>1. \A other \in Roles : held'[other] \in Nat
    BY <1>1, <1>3
  <2>2. /\ held'["connection"] \in Nat /\ held'["ordinary"] \in Nat
        /\ held'["provisional"] \in Nat /\ held'["committed"] \in Nat
    BY <2>1, Zenon DEF Roles
  <2>3. \A other \in Roles : held'[other] \in 0..PoolCapacity
    BY <1>1, <1>2, <1>4, <2>2 DEF PermitsConserved, Roles
  <2>4. active' \in 0..PoolCapacity
    BY <1>1, <1>2, <1>4, <2>2 DEF PermitsConserved
  <2> QED  BY <1>3, <2>3, <2>4, Zenon
<1> QED  BY <1>2, <1>4, <1>5, Zenon

(* An acquisition records no demand, and the demands that stay recorded stay
   unserved. *)
LEMMA HoldDemands ==
    ASSUME PoolInv, NEW role \in Roles, NEW wanted \in {1, 2, 4}, wanted <= available,
           Hold(role, wanted),
           active' = active + (IF role \in Steering THEN wanted ELSE 0),
           role \in Steering => wanted = 1,
           armed' \subseteq armed
    PROVE  ArmedIsUnserved'
<1>1. /\ available \in Nat /\ active \in Nat /\ armed \subseteq Lanes
      /\ ArmedIsUnserved
  BY DEF PoolInv, PoolTypeOK
<1>2. available' = available - wanted
  BY Zenon DEF Hold
<1> SUFFICES ASSUME NEW lane \in armed'
             PROVE  IF lane = "steering" THEN available' = 0 ELSE ~Fits(Threshold(lane))'
  BY Zenon DEF ArmedIsUnserved
<1>3. lane \in armed /\ lane \in Lanes
  BY <1>1, Zenon
<1>4. CASE lane = "steering"
  BY <1>1, <1>3, <1>4 DEF ArmedIsUnserved
<1>5. CASE lane # "steering"
  <2>1. ~FitsIn(available, active, Threshold(lane))
    BY <1>1, <1>3, <1>5, Zenon DEF ArmedIsUnserved, Fits
  <2>2. Threshold(lane) \in Nat
    BY <1>3, ThresholdType, Zenon
  <2> DEFINE more == IF role \in Steering THEN 1 ELSE 0
  <2>3. active' = active + more /\ more \in Nat /\ more <= wanted /\ more <= 1
    OBVIOUS
  <2>4. ~FitsIn(available', active', Threshold(lane))
    <3>1. available \in Nat /\ active \in Nat /\ wanted \in Nat /\ wanted <= available
      BY <1>1
    <3> HIDE DEF more
    <3> QED BY <1>2, <2>1, <2>2, <2>3, <3>1, NoRoomMade, Zenon
  <2> QED  BY <1>5, <2>4, Zenon DEF Fits, Threshold
<1> QED  BY <1>4, <1>5, Zenon

(* A non-critical acquisition leaves the steering reserve behind. *)
LEMMA ReserveAfterHold ==
    ASSUME PoolInv, NEW wanted \in {1, 2, 4}, Fits(wanted), available' = available - wanted,
           active' = active
    PROVE  ReserveKept'
BY DEF PoolInv, PoolTypeOK, Fits, FitsIn, ReserveKept, SteeringReserve
-----------------------------------------------------------------------------
(* A successful non-critical acquisition: connections and ordinary turns.  When
   it clears a demand of its own role, that demand was not recorded, because a
   recorded demand is one that does not fit. *)
LEMMA NoncriticalHold ==
    ASSUME PoolInv, NEW role \in {"connection", "ordinary"}, NEW wanted \in {1, 2, 4},
           Fits(wanted), Hold(role, wanted), armed' \subseteq armed,
           UNCHANGED <<active, owed, pending>>, waiting' \subseteq waiting,
           \A lane \in waiting' : lane \in armed => lane \in armed'
    PROVE  PoolInv'
<1>1. wanted <= available
  BY Zenon DEF PoolInv, PoolTypeOK, Fits, FitsIn
<1>2. role \in Roles /\ role \notin Steering
  BY Zenon DEF Roles, Steering
<1>3. active' = active + (IF role \in Steering THEN wanted ELSE 0)
  BY <1>2 DEF PoolInv, PoolTypeOK
<1>4. /\ available' \in 0..PoolCapacity /\ active' \in 0..PoolCapacity
      /\ held' \in [Roles -> 0..PoolCapacity] /\ PermitsConserved'
  BY <1>1, <1>2, <1>3, HoldTypes, Zenon
<1>5. ArmedIsUnserved'
  BY <1>1, <1>2, <1>3, HoldDemands, Zenon
<1>6. ReserveKept'
  BY ReserveAfterHold, Zenon DEF Hold
<1>7. PoolTypeOK'
  BY <1>4, Zenon DEF PoolInv, PoolTypeOK
<1>8. RefusedIsTold'
  BY Zenon DEF PoolInv, RefusedIsTold, Bit
<1> QED  BY <1>4, <1>5, <1>6, <1>7, <1>8, Zenon DEF PoolInv

(* A refusal records a demand the pool cannot meet now. *)
LEMMA RefusedKeeps ==
    ASSUME PoolInv, NEW lane \in Lanes, Refused(lane),
           IF lane = "steering" THEN available = 0 ELSE ~Fits(Threshold(lane))
    PROVE  PoolInv'
<1>1. PoolTypeOK' /\ PermitsConserved' /\ ReserveKept'
  BY Zenon DEF PoolInv, PoolTypeOK, PermitsConserved, ReserveKept, Refused
<1>2. ArmedIsUnserved'
  BY Zenon DEF PoolInv, ArmedIsUnserved, Refused, Fits, Threshold
<1>3. RefusedIsTold'
  BY Zenon DEF PoolInv, RefusedIsTold, Refused, Bit
<1> QED  BY <1>1, <1>2, <1>3, Zenon DEF PoolInv

\* A connection pair taken outside preparation keeps the invariant;
LEMMA AcquirePairKeeps == PoolInv /\ AcquirePair => PoolInv'
<1> SUFFICES ASSUME PoolInv, AcquirePair PROVE PoolInv'
  BY Zenon
<1>1. Fits(2) /\ Hold("connection", 2)
  BY Zenon DEF AcquirePair, ConnectionPermits
<1> QED  BY <1>1, NoncriticalHold, Zenon DEF AcquirePair

\* so do a direct ordinary turn, which clears the demand of its lane,
LEMMA DirectOrdinaryKeeps == PoolInv /\ DirectOrdinary => PoolInv'
<1> SUFFICES ASSUME PoolInv, DirectOrdinary PROVE PoolInv'
  BY Zenon
<1>1. Fits(1) /\ Hold("ordinary", 1)
  BY Zenon DEF DirectOrdinary, OrdinaryPermits
<1>2. "ordinary" \notin armed
  BY <1>1 DEF PoolInv, ArmedIsUnserved, Threshold, OrdinaryPermits
<1> QED  BY <1>1, <1>2, NoncriticalHold, Zenon DEF DirectOrdinary

\* a scheduled ordinary turn, which arms its lane when it is refused,
LEMMA ScheduleOrdinaryKeeps == PoolInv /\ ScheduleOrdinary => PoolInv'
<1> SUFFICES ASSUME PoolInv, ScheduleOrdinary PROVE PoolInv'
  BY Zenon
<1>1. CASE Fits(OrdinaryPermits) /\ Hold("ordinary", OrdinaryPermits)
             /\ Granted("ordinary") /\ UNCHANGED active
  BY <1>1, NoncriticalHold, Zenon DEF Granted, OrdinaryPermits
<1>2. CASE ~Fits(OrdinaryPermits) /\ Refused("ordinary")
  <2>1. ~Fits(Threshold("ordinary"))
    BY <1>2 DEF Threshold, OrdinaryPermits
  <2> QED  BY <1>2, <2>1, RefusedKeeps, Zenon DEF Lanes
<1> QED  BY <1>1, <1>2, Zenon DEF ScheduleOrdinary

\* the preparation of a cold or a warm runtime,
LEMMA PrepareKeeps ==
    ASSUME NEW lane \in {"cold", "warm"}
    PROVE  PoolInv /\ Prepare(lane) => PoolInv'
<1> SUFFICES ASSUME PoolInv, Prepare(lane) PROVE PoolInv'
  BY Zenon
<1> DEFINE wanted == IF lane = "cold" THEN 2 * ConnectionPermits ELSE ConnectionPermits
<1>0. wanted \in {1, 2, 4}
  BY DEF ConnectionPermits
<1>1. CASE Fits(wanted) /\ Hold("connection", wanted) /\ Granted(lane) /\ UNCHANGED active
  BY <1>0, <1>1, NoncriticalHold, Zenon DEF Granted
<1>2. CASE ~Fits(wanted) /\ Refused(lane)
  <2>1. wanted \in Nat /\ Threshold(lane) \in Nat /\ wanted <= Threshold(lane)
    BY DEF Threshold, OrdinaryPermits, ConnectionPermits
  <2>2. available \in Nat /\ active \in Nat
    BY DEF PoolInv, PoolTypeOK
  <2>3. ~Fits(Threshold(lane))
    BY <1>2, <2>1, <2>2, RefusalUnserved, Zenon DEF Fits
  <2> QED  BY <1>2, <2>3, RefusedKeeps, Zenon DEF Lanes
<1> QED  BY <1>1, <1>2, Zenon DEF Prepare

(* A steering acquisition may take the last permit: with a steering permit out
   the reserve is no longer asked for. *)
LEMMA ScheduleSteeringKeeps == PoolInv /\ ScheduleSteering => PoolInv'
<1> SUFFICES ASSUME PoolInv, ScheduleSteering PROVE PoolInv'
  BY Zenon
<1>1. CASE available > 0 /\ Hold("provisional", 1) /\ active' = active + 1
             /\ Granted("steering")
  <2>1. 1 <= available /\ "provisional" \in Roles /\ "provisional" \in Steering
    BY <1>1 DEF PoolInv, PoolTypeOK, Roles, Steering
  <2>2. active' = active + (IF "provisional" \in Steering THEN 1 ELSE 0)
    BY <1>1, <2>1, Zenon
  <2>3. /\ available' \in 0..PoolCapacity /\ active' \in 0..PoolCapacity
        /\ held' \in [Roles -> 0..PoolCapacity] /\ PermitsConserved'
    BY <1>1, <2>1, <2>2, HoldTypes, Zenon
  <2>4. ArmedIsUnserved'
    BY <1>1, <2>1, <2>2, HoldDemands, Zenon DEF Granted
  <2>5. ReserveKept'
    BY <1>1 DEF PoolInv, PoolTypeOK, ReserveKept
  <2>6. PoolTypeOK' /\ RefusedIsTold'
    BY <1>1, <2>3, Zenon DEF PoolInv, PoolTypeOK, RefusedIsTold, Granted, Bit
  <2> QED  BY <2>3, <2>4, <2>5, <2>6, Zenon DEF PoolInv
<1>2. CASE available = 0 /\ Refused("steering")
  BY <1>2, RefusedKeeps, Zenon DEF Lanes
<1> QED  BY <1>1, <1>2, Zenon DEF ScheduleSteering

\* a steering permit that passes to a delivery worker,
LEMMA CommitKeeps == PoolInv /\ Commit => PoolInv'
<1> SUFFICES ASSUME PoolInv, Commit PROVE PoolInv'
  BY Zenon
<1>1. /\ held \in [Roles -> 0..PoolCapacity] /\ available \in 0..PoolCapacity
      /\ PermitsConserved /\ PoolCapacity \in Nat
  BY Zenon DEF PoolOK, PoolInv, PoolTypeOK
<1>2. /\ held' = [held EXCEPT !["provisional"] = @ - 1, !["committed"] = @ + 1]
      /\ held["provisional"] > 0
      /\ UNCHANGED <<available, active, armed, owed, pending, waiting>>
  BY Zenon DEF Commit
<1>3. /\ held["connection"] \in Nat /\ held["ordinary"] \in Nat
      /\ held["provisional"] \in Nat /\ held["committed"] \in Nat
  BY <1>1 DEF Roles
<1>4. /\ held'["connection"] = held["connection"] /\ held'["ordinary"] = held["ordinary"]
      /\ held'["provisional"] = held["provisional"] - 1
      /\ held'["committed"] = held["committed"] + 1
  BY <1>1, <1>2, Zenon DEF Roles
<1>5. PermitsConserved'
  BY <1>1, <1>2, <1>3, <1>4 DEF PermitsConserved
<1>6. held' \in [Roles -> 0..PoolCapacity]
  BY <1>1, <1>2, <1>3, <1>4 DEF PermitsConserved, Roles
<1>7. PoolTypeOK'
  BY <1>2, <1>6, Zenon DEF PoolInv, PoolTypeOK
<1>8. ReserveKept' /\ ArmedIsUnserved' /\ RefusedIsTold'
  BY <1>2, Zenon DEF PoolInv, ReserveKept, ArmedIsUnserved, RefusedIsTold, Fits,
     Threshold, Bit
<1> QED  BY <1>5, <1>7, <1>8, Zenon DEF PoolInv
-----------------------------------------------------------------------------
(* A release moves one permit of its role back to the pool. *)
LEMMA ReleaseCounts ==
    ASSUME PoolInv, NEW role \in Roles, Release(role)
    PROVE  /\ available' \in 0..PoolCapacity /\ active' \in 0..PoolCapacity
           /\ held' \in [Roles -> 0..PoolCapacity]
           /\ PermitsConserved' /\ ReserveKept'
<1>1. /\ held \in [Roles -> 0..PoolCapacity] /\ available \in 0..PoolCapacity
      /\ active \in 0..PoolCapacity /\ PermitsConserved /\ PoolCapacity \in Nat
  BY Zenon DEF PoolOK, PoolInv, PoolTypeOK
<1>2. /\ held[role] > 0 /\ held' = [held EXCEPT ![role] = @ - 1]
      /\ available' = available + 1
      /\ active' = IF role \in Steering THEN active - 1 ELSE active
  BY Zenon DEF Release
<1>3. /\ held["connection"] \in Nat /\ held["ordinary"] \in Nat
      /\ held["provisional"] \in Nat /\ held["committed"] \in Nat
  BY <1>1 DEF Roles
<1>4. \A other \in Roles : held'[other] = IF other = role THEN held[other] - 1 ELSE held[other]
  BY <1>1, <1>2, Zenon
<1>5. PermitsConserved'
  BY <1>1, <1>2, <1>3, <1>4 DEF PermitsConserved, Roles, Steering
<1>6. \A other \in Roles : held'[other] \in Nat
  BY <1>1, <1>2, <1>4
<1>7. /\ held'["connection"] \in Nat /\ held'["ordinary"] \in Nat
      /\ held'["provisional"] \in Nat /\ held'["committed"] \in Nat
  BY <1>6, Zenon DEF Roles
<1>8. available' \in 0..PoolCapacity /\ active' \in 0..PoolCapacity
  BY <1>1, <1>2, <1>5, <1>7 DEF PermitsConserved
<1>9. \A other \in Roles : held'[other] \in 0..PoolCapacity
  BY <1>1, <1>5, <1>7, <1>8 DEF PermitsConserved, Roles
<1>10. held' \in [Roles -> 0..PoolCapacity]
  BY <1>1, <1>2, <1>9, Zenon
<1>11. ReserveKept'
  BY <1>1, <1>2 DEF ReserveKept, SteeringReserve
<1> QED  BY <1>5, <1>8, <1>10, <1>11, Zenon

(* A release takes exactly the demands the room meets and owes each of their
   lanes a wake. *)
LEMMA ReleaseTells ==
    ASSUME PoolInv, NEW role \in Roles, Release(role)
    PROVE  ArmedIsUnserved' /\ RefusedIsTold' /\ armed' \subseteq Lanes
           /\ owed' \in [Lanes -> 0..MaxOwed] /\ UNCHANGED <<pending, waiting>>
<1> DEFINE served == Served(available', active')
           woken == served \cup IF role = "committed" THEN {"steering"} ELSE {}
<1>1. /\ armed' = armed \ served
      /\ \A lane \in woken : owed[lane] < MaxOwed
      /\ owed' = [lane \in Lanes |-> IF lane \in woken THEN owed[lane] + 1 ELSE owed[lane]]
      /\ UNCHANGED <<pending, waiting>>
  BY Zenon DEF Release
<1>2. /\ armed \subseteq Lanes /\ owed \in [Lanes -> 0..MaxOwed] /\ MaxOwed \in Nat
      /\ waiting \subseteq Lanes
  BY Zenon DEF PoolOK, PoolInv, PoolTypeOK
<1>3. \A lane \in armed' : lane # "steering" /\ ~FitsIn(available', active', Threshold(lane))
  BY <1>1, Zenon DEF Served
<1>4. ArmedIsUnserved'
  BY <1>3, Zenon DEF ArmedIsUnserved, Fits, Threshold
<1>5. \A lane \in Lanes : owed[lane] \in 0..MaxOwed
  BY <1>2, Zenon
<1>6. owed' \in [Lanes -> 0..MaxOwed]
  <2> SUFFICES ASSUME NEW lane \in Lanes
               PROVE (IF lane \in woken THEN owed[lane] + 1 ELSE owed[lane]) \in 0..MaxOwed
    BY <1>1, Zenon
  <2> QED  BY <1>1, <1>2, <1>5
<1>7. RefusedIsTold'
  <2> SUFFICES ASSUME NEW lane \in waiting
               PROVE  lane \in armed' \/ owed'[lane] > 0 \/ Bit(lane) \in pending
    BY <1>1, Zenon DEF RefusedIsTold, Bit
  <2>1. lane \in Lanes /\ owed[lane] \in 0..MaxOwed
    BY <1>2, <1>5, Zenon
  <2>2. owed'[lane] = IF lane \in woken THEN owed[lane] + 1 ELSE owed[lane]
    BY <1>1, <2>1, Zenon
  <2>3. lane \in armed \/ owed[lane] > 0 \/ Bit(lane) \in pending
    BY Zenon DEF PoolInv, RefusedIsTold
  <2>4. lane \in armed => lane \in armed' \/ lane \in woken
    BY <1>1, Zenon
  <2> QED  BY <2>1, <2>2, <2>3, <2>4, <1>2
<1> QED  BY <1>1, <1>2, <1>4, <1>6, <1>7, Zenon

\* a release, which takes up the demands that now fit,
LEMMA ReleaseKeeps ==
    ASSUME NEW role \in Roles
    PROVE  PoolInv /\ Release(role) => PoolInv'
<1> SUFFICES ASSUME PoolInv, Release(role) PROVE PoolInv'
  BY Zenon
<1>1. /\ available' \in 0..PoolCapacity /\ active' \in 0..PoolCapacity
      /\ held' \in [Roles -> 0..PoolCapacity]
      /\ PermitsConserved' /\ ReserveKept'
  BY ReleaseCounts, Zenon
<1>2. /\ ArmedIsUnserved' /\ RefusedIsTold' /\ armed' \subseteq Lanes
      /\ owed' \in [Lanes -> 0..MaxOwed] /\ UNCHANGED <<pending, waiting>>
  BY ReleaseTells, Zenon
<1>3. PoolTypeOK'
  BY <1>1, <1>2, Zenon DEF PoolInv, PoolTypeOK
<1> QED  BY <1>1, <1>2, <1>3, Zenon DEF PoolInv

(* A wake that is sent is in the signal where it was owed. *)
LEMMA PublishKeeps ==
    ASSUME NEW lane \in Lanes
    PROVE  PoolInv /\ Publish(lane) => PoolInv'
<1> SUFFICES ASSUME PoolInv, Publish(lane) PROVE PoolInv'
  BY Zenon
<1>1. /\ owed[lane] > 0 /\ owed' = [owed EXCEPT ![lane] = @ - 1]
      /\ pending' = pending \cup {Bit(lane)}
      /\ UNCHANGED <<available, active, held, armed, waiting>>
  BY Zenon DEF Publish
<1>2. owed \in [Lanes -> 0..MaxOwed] /\ waiting \subseteq Lanes /\ MaxOwed \in Nat
  BY Zenon DEF PoolOK, PoolInv, PoolTypeOK
<1>3. owed' \in [Lanes -> 0..MaxOwed]
  BY <1>1, <1>2
<1>4. PoolTypeOK'
  BY <1>1, <1>3, Zenon DEF PoolInv, PoolTypeOK, Lanes, Bit
<1>5. PermitsConserved' /\ ReserveKept' /\ ArmedIsUnserved'
  BY <1>1, Zenon DEF PoolInv, PermitsConserved, ReserveKept, ArmedIsUnserved,
     Fits, Threshold
<1>6. RefusedIsTold'
  BY <1>1, <1>2, Zenon DEF PoolInv, RefusedIsTold, Bit
<1> QED  BY <1>4, <1>5, <1>6, Zenon DEF PoolInv

\* and a scheduler that takes its wake bits.
LEMMA TakeBitsKeeps == PoolInv /\ TakeBits => PoolInv'
<1> SUFFICES ASSUME PoolInv, TakeBits PROVE PoolInv'
  BY Zenon
<1>1. PoolTypeOK' /\ PermitsConserved' /\ ReserveKept' /\ ArmedIsUnserved'
  BY Zenon DEF PoolInv, PoolTypeOK, PermitsConserved, ReserveKept, ArmedIsUnserved,
     Fits, Threshold, TakeBits
<1>2. RefusedIsTold'
  BY Zenon DEF PoolInv, RefusedIsTold, TakeBits, Bit
<1> QED  BY <1>1, <1>2, Zenon DEF PoolInv

\* Every step of the pool keeps the invariant.
LEMMA PoolInvNext == PoolInv /\ [PoolNext]_poolVars => PoolInv'
<1> SUFFICES ASSUME PoolInv, [PoolNext]_poolVars PROVE PoolInv'
  BY Zenon
<1>1. CASE UNCHANGED poolVars
  <2>1. UNCHANGED <<available, active, held, armed, owed, pending, waiting>>
    BY <1>1, Zenon DEF poolVars
  <2> QED  BY <2>1, Zenon DEF PoolInv, PoolTypeOK, PermitsConserved, ReserveKept,
     ArmedIsUnserved, Fits, Threshold, RefusedIsTold, Bit
<1>2. CASE PoolNext
  BY <1>2, AcquirePairKeeps, DirectOrdinaryKeeps, ScheduleOrdinaryKeeps,
     ScheduleSteeringKeeps, PrepareKeeps, CommitKeeps, ReleaseKeeps, PublishKeeps,
     TakeBitsKeeps, Zenon DEF PoolNext
<1> QED  BY <1>1, <1>2, Zenon

(* The pool's inductive invariant holds of every behaviour. *)
LEMMA PoolInvariance == PoolSpec => []PoolInv
BY PoolConstants, PoolInvInit, PoolInvNext, PTL DEF PoolSpec
-----------------------------------------------------------------------------
(* No permit is lost or made, and the steering count is exact, for every
   capacity the configuration accepts (record_acquisition and the admission's
   drop, service_config.rs). *)
THEOREM PoolConservesPermits == PoolSpec => [](PoolTypeOK /\ PermitsConserved)
<1>1. PoolInv => PoolTypeOK /\ PermitsConserved
  BY Zenon DEF PoolInv
<1> QED  BY <1>1, PoolInvariance, PTL

(* For every capacity, a steering pass with no delivery under way finds a permit
   (noncritical_role_fits, service_config.rs). *)
THEOREM PoolKeepsSteeringReserve == PoolSpec => []ReserveKept
<1>1. PoolInv => ReserveKept
  BY Zenon DEF PoolInv
<1> QED  BY <1>1, PoolInvariance, PTL

(* For every capacity, a recorded demand is one the pool cannot meet: no
   acquisition makes room behind a waiting lane's back (arm_release_waiter and
   the admission's drop, service_config.rs). *)
THEOREM PoolDemandsAreUnmet == PoolSpec => []ArmedIsUnserved
<1>1. PoolInv => ArmedIsUnserved
  BY Zenon DEF PoolInv
<1> QED  BY <1>1, PoolInvariance, PTL

(* For every capacity, a refused lane keeps its demand or its wake until the
   wake reaches the scheduler (the admission's drop, service_config.rs; the
   scheduler's signal). *)
THEOREM PoolTellsRefusedLanes == PoolSpec => []RefusedIsTold
<1>1. PoolInv => RefusedIsTold
  BY Zenon DEF PoolInv
<1> QED  BY <1>1, PoolInvariance, PTL

-----------------------------------------------------------------------------
\* The assumptions of LiveCommandGate on its constants.
GateOK == IsFiniteSet(Issued) /\ MaxAuthority \in Nat /\ Monitor \notin Issued

(* They hold of every instance of the component. *)
LEMMA GateConstants == GateOK
  BY CommandsAssumption, MonitorAssumption, Zenon DEF GateOK

\* The commands that hold a counted permit, and the gate without any.
Live == {c \in Issued : step[c] \in Counted}
Drained == \A c \in Issued : step[c] \in {"idle", "gone"}

\* The Boolean fields, and the threads that can wait on the condition variable.
Flags ==
    /\ local_failure \in BOOLEAN /\ home \in BOOLEAN
    /\ signal \in BOOLEAN /\ stop_requested \in BOOLEAN
    /\ asleep \subseteq {"worker", "closer"}

Sorts ==
    /\ election \in {"Open", "OrdinaryShutdown"} \cup Failures
    /\ epoch \in 1..3
    /\ step \in [Notifiers -> Counted \cup {"idle", "gone"}]
    /\ epoch_of \in [Issued -> 1..3]
    /\ home_health \in {"Healthy", "Failed"}
    /\ start \in {"Waiting", "Released", "Cancelled"}
    /\ worker \in {"start", "recv", "check", "cut", "drain", "freeze", "exited"}
    /\ phase \in {"Armed", "Cutting", "Finished", "Incomplete", "Stopped"}
    /\ closer \in {"open", "cancel", "runtime", "stop", "wake", "join", "drain", "done"}
    /\ close_result \in {"none", "Closed", "Finished", "Incomplete", "DisposalError"}
    /\ authority \in 0..MaxAuthority /\ frozen \in -1..MaxAuthority

\* The epoch moves once for a local failure and once for the election.
Epochs == epoch <= (IF local_failure THEN 2 ELSE 1) + (IF election = "Open" THEN 0 ELSE 1)

\* The worker and close act only on the election that calls for them.
Followed ==
    /\ worker = "cut" => election \in Failures
    /\ worker \in {"drain", "freeze"} => election = "PersistentFailure"
    /\ worker = "exited" => \/ phase # "Stopped" /\ election = "PersistentFailure"
                            \/ phase = "Stopped" /\ start = "Cancelled"
                            \/ phase = "Stopped" /\ election = "OrdinaryShutdown"
    /\ closer # "open" => election \in {"OrdinaryShutdown", "PersistentFailure"}
    /\ closer \in {"stop", "wake"} \/ stop_requested => election = "OrdinaryShutdown"
    /\ closer \in {"drain", "done"} => worker = "exited"

\* The phase of the cut at each step of the worker, and what close reports.
Cutting ==
    /\ worker \in {"start", "recv", "check"} => phase = "Armed"
    /\ worker \in {"cut", "drain", "freeze"} => phase = "Cutting"
    /\ worker = "exited" => phase \in {"Finished", "Incomplete", "Stopped"}
    /\ phase = "Finished" => authority = frozen
    /\ phase # "Finished" => frozen = -1
    /\ close_result # "none" => closer = "done" /\ close_result = Outcome
    /\ ~home => closer = "done"

\* A failure was observed of a service whose worker left without having started.
Unstarted ==
    /\ worker = "exited" /\ phase = "Stopped" /\ start = "Cancelled"
    /\ election \in Failures

\* Which step a permit can be at, and the moments at which there is none.
Permits ==
    /\ step[Monitor] \in {"idle", "observe", "signal"}
    /\ \A n \in Notifiers : step[n] = "signal" => election \in Failures
    /\ \A c \in Issued : /\ step[c] = "decide" => election = "OrdinaryShutdown" \/ Unstarted
                         /\ step[c] = "kept" => Unstarted
    /\ worker = "freeze" \/ (worker = "exited" /\ phase # "Stopped") \/ ~home => Drained

Shape == Sorts /\ Epochs /\ Followed /\ Cutting /\ Permits

\* The gate's counter is the number of live permits.
Exact == permits = Cardinality(Live)

\* The inductive invariant.
GateInv == GateOK /\ Flags /\ Shape /\ Exact

USE DEF GateOK, Monitor, Notifiers, Counted, Failures, Unstarted

(* The Boolean fields stay Boolean, and only the worker and close ever sleep. *)
LEMMA FlagsKept ==
    ASSUME Flags, GateNext
    PROVE  Flags'
  <1> USE DEF gate, cut, close
  <1>1. CASE SettleAuthority \/ LocalFailure \/ HomeHealthFails \/ InitialStart
             \/ SpuriousWake
    BY <1>1, Zenon DEF SettleAuthority, LocalFailure, HomeHealthFails,
       InitialStart, SpuriousWake, Open, Flags
  <1>2. CASE WorkerStep
    BY <1>2, Zenon DEF WorkerStep, WorkerStarts, WorkerReceives,
       WorkerChecks, WorkerCuts, WorkerDrains, WorkerFreezes, Flags
  <1>3. CASE CloserStep
    BY <1>3, Zenon DEF CloserStep, CloseElects, CloseCancelsStart,
       RuntimeRetires, RequestShutdown, JoinWorker, CloseDrains, Flags
  <1>4. CASE CommandStep
    BY <1>4, Zenon DEF CommandStep, PermitStep, Authorize, CommitPermit,
       DropPermit, ReleaseAfterLoss, Decide, ReleasePermit, Flags
  <1>5. CASE MonitorNotifies \/ \E n \in Notifiers : NotifyStep(n)
    BY <1>5, Zenon DEF NotifyStep, MonitorNotifies, ObserveFailure, Signal, Flags
  <1> QED BY <1>1, <1>2, <1>3, <1>4, <1>5, Zenon DEF GateNext

(* What happens around the gate: a settlement, a failure, the initial start, a
   wakeup without a cause. *)
LEMMA SurroundingsKeep ==
    ASSUME GateOK, Flags, Shape, permits = 0 => Drained,
           SettleAuthority \/ LocalFailure \/ HomeHealthFails \/ InitialStart
           \/ SpuriousWake
    PROVE  Shape'
  <1> USE DEF Shape, gate, cut, close
  <1>1. CASE SettleAuthority
    BY <1>1 DEF SettleAuthority, Open, Flags, Sorts, Epochs, Followed, Cutting,
       Outcome, Permits, Drained
  <1>2. CASE LocalFailure
    BY <1>2 DEF LocalFailure, Flags, Sorts, Epochs, Followed, Cutting, Outcome,
       Permits, Drained
  <1>3. CASE HomeHealthFails
    BY <1>3 DEF HomeHealthFails, Flags, Sorts, Epochs, Followed, Cutting, Outcome,
       Permits, Drained
  <1>4. CASE InitialStart
    BY <1>4 DEF InitialStart, Flags, Sorts, Epochs, Followed, Cutting, Outcome,
       Permits, Drained
  <1>5. CASE SpuriousWake
    BY <1>5 DEF SpuriousWake, Flags, Sorts, Epochs, Followed, Cutting, Outcome,
       Permits, Drained
  <1> HIDE DEF Shape
  <1> QED BY <1>1, <1>2, <1>3, <1>4, <1>5, Zenon

(* The steps of the worker, from its start gate to the frozen authority: it
   leaves the drain only when the count is 0. *)
LEMMA WorkerKeeps ==
    ASSUME GateOK, Flags, Shape, permits = 0 => Drained,
           WorkerStep
    PROVE  Shape'
  <1> USE DEF Shape, gate, cut, close
  <1>1. CASE WorkerStarts
    BY <1>1 DEF WorkerStarts, Flags, Sorts, Epochs, Followed, Cutting, Outcome,
       Permits, Drained
  <1>2. CASE WorkerReceives
    BY <1>2 DEF WorkerReceives, Flags, Sorts, Epochs, Followed, Cutting, Outcome,
       Permits, Drained
  <1>3. CASE WorkerChecks
    BY <1>3 DEF WorkerChecks, Flags, Sorts, Epochs, Followed, Cutting, Outcome,
       Permits, Drained
  <1>4. CASE WorkerCuts
    BY <1>4 DEF WorkerCuts, Flags, Sorts, Epochs, Followed, Cutting, Outcome,
       Permits, Drained
  <1>5. CASE WorkerDrains
    BY <1>5 DEF WorkerDrains, Flags, Sorts, Epochs, Followed, Cutting, Outcome,
       Permits, Drained
  <1>6. CASE WorkerFreezes
    BY <1>6 DEF WorkerFreezes, Flags, Sorts, Epochs, Followed, Cutting, Outcome,
       Permits, Drained
  <1> HIDE DEF Shape
  <1> QED BY <1>1, <1>2, <1>3, <1>4, <1>5, <1>6, Zenon DEF WorkerStep

(* The steps of close, from its election to the drained gate. *)
LEMMA CloserKeeps ==
    ASSUME GateOK, Flags, Shape, permits = 0 => Drained,
           CloserStep
    PROVE  Shape'
  <1> USE DEF Shape, gate, cut, close
  <1>1. CASE CloseElects
    BY <1>1 DEF CloseElects, Flags, Sorts, Epochs, Followed, Cutting, Outcome,
       Permits, Drained
  <1>2. CASE CloseCancelsStart
    BY <1>2 DEF CloseCancelsStart, Flags, Sorts, Epochs, Followed, Cutting,
       Outcome, Permits, Drained
  <1>3. CASE RuntimeRetires
    BY <1>3 DEF RuntimeRetires, Flags, Sorts, Epochs, Followed, Cutting, Outcome,
       Permits, Drained
  <1>4. CASE RequestShutdown
    BY <1>4 DEF RequestShutdown, Flags, Sorts, Epochs, Followed, Cutting, Outcome,
       Permits, Drained
  <1>5. CASE JoinWorker
    BY <1>5 DEF JoinWorker, Flags, Sorts, Epochs, Followed, Cutting, Outcome,
       Permits, Drained
  <1>6. CASE CloseDrains
    BY <1>6 DEF CloseDrains, Flags, Sorts, Epochs, Followed, Cutting, Outcome,
       Permits, Drained
  <1> HIDE DEF Shape
  <1> QED BY <1>1, <1>2, <1>3, <1>4, <1>5, <1>6, Zenon DEF CloserStep

(* The steps of a command and of its permit. *)
LEMMA CommandKeeps ==
    ASSUME GateOK, Flags, Shape, permits = 0 => Drained,
           CommandStep
    PROVE  Shape'
  <1> USE DEF Shape, gate, cut, close
  <1>1. ASSUME NEW c \in Issued, Authorize(c) PROVE Shape'
    BY <1>1 DEF Authorize, Go, Open, Flags, Sorts, Epochs, Followed, Cutting,
       Outcome, Permits, Drained
  <1>2. ASSUME NEW c \in Issued, CommitPermit(c) PROVE Shape'
    BY <1>2 DEF CommitPermit, Go, Open, Current, Flags, Sorts, Epochs,
       Followed, Cutting, Outcome, Permits, Drained
  <1>3. ASSUME NEW c \in Issued, DropPermit(c) PROVE Shape'
    BY <1>3 DEF DropPermit, Go, Flags, Sorts, Epochs, Followed, Cutting,
       Outcome, Permits, Drained
  <1>4. ASSUME NEW c \in Issued, ReleaseAfterLoss(c) PROVE Shape'
    BY <1>4 DEF ReleaseAfterLoss, Go, Flags, Sorts, Epochs, Followed, Cutting,
       Outcome, Permits, Drained
  <1>5. ASSUME NEW c \in Issued, Decide(c) PROVE Shape'
    BY <1>5 DEF Decide, Go, Flags, Sorts, Epochs, Followed, Cutting, Outcome,
       Permits, Drained
  <1>6. ASSUME NEW c \in Issued, ReleasePermit(c) PROVE Shape'
    BY <1>6 DEF ReleasePermit, Go, Flags, Sorts, Epochs, Followed, Cutting, Outcome,
       Permits, Drained
  <1> HIDE DEF Shape
  <1> QED BY <1>1, <1>2, <1>3, <1>4, <1>5, <1>6, Zenon DEF CommandStep, PermitStep

(* The steps of a notifier: the monitor, or a command that met a failure. *)
LEMMA NotifyKeeps ==
    ASSUME GateOK, Flags, Shape, permits = 0 => Drained,
           MonitorNotifies \/ \E n \in Notifiers : NotifyStep(n)
    PROVE  Shape'
  <1> USE DEF Shape, gate, cut, close
  <1>1. CASE MonitorNotifies
    BY <1>1 DEF MonitorNotifies, Go, Flags, Sorts, Epochs, Followed, Cutting,
       Outcome, Permits, Drained
  <1>2. ASSUME NEW n \in Notifiers, ObserveFailure(n) PROVE Shape'
    BY <1>2 DEF ObserveFailure, Go, After, Flags, Sorts, Epochs, Followed, Cutting,
       Outcome, Permits, Drained
  <1>3. ASSUME NEW n \in Notifiers, Signal(n) PROVE Shape'
    BY <1>3 DEF Signal, Go, After, Flags, Sorts, Epochs, Followed, Cutting,
       Outcome, Permits, Drained
  <1> HIDE DEF Shape
  <1> QED BY <1>1, <1>2, <1>3, Zenon DEF NotifyStep

(* With a count that is exact when it is 0, every step keeps the rest. *)
LEMMA ShapeKept ==
    ASSUME GateOK, Flags, Shape, permits = 0 => Drained, [GateNext]_gateVars
    PROVE  Shape' /\ Flags'
  <1>1. CASE GateNext
    BY <1>1, FlagsKept, SurroundingsKeep, WorkerKeeps, CloserKeeps, CommandKeeps, NotifyKeeps, Zenon
       DEF GateNext
  <1>2. CASE UNCHANGED gateVars
    BY <1>2 DEF gateVars, gate, cut, close, Shape, Flags, Sorts, Epochs,
       Followed, Cutting, Outcome, Permits, Drained
  <1> QED BY <1>1, <1>2, Zenon

(* Outside a command and a notifier nobody touches the permits. *)
LEMMA CountUntouched ==
    ASSUME \/ SettleAuthority \/ LocalFailure \/ HomeHealthFails \/ InitialStart
           \/ SpuriousWake \/ WorkerStep \/ CloserStep \/ UNCHANGED gateVars
    PROVE  permits' = permits /\ step' = step
BY Zenon DEF SettleAuthority, LocalFailure, HomeHealthFails, InitialStart,
   SpuriousWake, WorkerStep, WorkerStarts, WorkerReceives,
   WorkerChecks, WorkerCuts, WorkerDrains, WorkerFreezes,
   CloserStep, CloseElects, CloseCancelsStart, RuntimeRetires,
   RequestShutdown, JoinWorker, CloseDrains, gate, cut, close,
   gateVars

(* A command moves its permit between two counted steps, takes a new one or
   gives it up; a notifier moves between two counted steps, or is the monitor,
   which has no permit. *)
LEMMA CountFollows ==
    ASSUME GateOK, Sorts,
           CommandStep \/ MonitorNotifies
           \/ \E n \in Notifiers : NotifyStep(n)
    PROVE  \/ permits' = permits /\ Live' = Live
           \/ permits' = permits + 1 /\ \E c \in Issued \ Live : Live' = Live \cup {c}
           \/ permits' = permits - 1 /\ \E c \in Live : Live' = Live \ {c}
  <1> USE DEF gate, cut, close, Live, Sorts, Go
  <1>1. ASSUME NEW c \in Issued, Authorize(c)
        PROVE  permits' = permits + 1 /\ c \notin Live /\ Live' = Live \cup {c}
    BY <1>1, Zenon DEF Authorize
  <1>2. ASSUME NEW c \in Issued, ReleasePermit(c)
        PROVE  permits' = permits - 1 /\ c \in Live /\ Live' = Live \ {c}
    BY <1>2, Zenon DEF ReleasePermit
  <1>3. ASSUME NEW c \in Issued,
               CommitPermit(c) \/ DropPermit(c) \/ ReleaseAfterLoss(c) \/ Decide(c)
        PROVE  permits' = permits /\ Live' = Live
    BY <1>3, Zenon DEF CommitPermit, DropPermit, ReleaseAfterLoss, Decide
  <1>4. ASSUME NEW n \in Notifiers, MonitorNotifies \/ ObserveFailure(n) \/ Signal(n)
        PROVE  permits' = permits /\ Live' = Live
    BY <1>4 DEF MonitorNotifies, ObserveFailure, Signal, After
  <1> HIDE DEF Live, Sorts
  <1> QED BY <1>1, <1>2, <1>3, <1>4, Zenon DEF CommandStep, PermitStep, NotifyStep

(* The election is final, except that a failure becomes persistent. *)
LEMMA ElectionKept ==
    ASSUME Sorts, [GateNext]_gateVars
    PROVE  election # "Open" => \/ election' = election
                                \/ election \in Failures /\ election' = "PersistentFailure"
  <1> USE DEF gate
  <1>1. CASE \/ CommandStep \/ MonitorNotifies
             \/ SettleAuthority \/ LocalFailure
             \/ HomeHealthFails \/ InitialStart \/ SpuriousWake
    BY <1>1, Zenon DEF CommandStep, Authorize, CommitPermit, PermitStep,
       DropPermit, ReleaseAfterLoss, Decide, ReleasePermit,
       MonitorNotifies, SettleAuthority, LocalFailure, HomeHealthFails,
       InitialStart, SpuriousWake
  <1>2. CASE \E n \in Notifiers : NotifyStep(n)
    BY <1>2, Zenon DEF NotifyStep, ObserveFailure, Signal
  <1>3. CASE WorkerStep
    BY <1>3, Zenon DEF WorkerStep, WorkerStarts, WorkerReceives, WorkerChecks,
       WorkerCuts, WorkerDrains, WorkerFreezes
  <1>4. CASE CloserStep
    BY <1>4, Zenon DEF Sorts, CloserStep, CloseElects, CloseCancelsStart,
       RuntimeRetires, RequestShutdown, JoinWorker, CloseDrains
  <1>5. CASE UNCHANGED gateVars
    BY <1>5, Zenon DEF gateVars
  <1> QED BY <1>1, <1>2, <1>3, <1>4, <1>5, Zenon DEF GateNext
-----------------------------------------------------------------------------
(* Counting the live permits. *)
INSTANCE FiniteSetTheorems

(* The count is 0 exactly when no permit is live. *)
LEMMA LiveFinite ==
    ASSUME GateOK, Exact
    PROVE  /\ IsFiniteSet(Live) /\ permits \in 0..Cardinality(Issued)
           /\ permits = 0 <=> Live = {}
  <1>1. Live \in SUBSET Issued
    BY Zenon DEF Live
  <1>2. IsFiniteSet(Live) /\ Cardinality(Live) <= Cardinality(Issued)
    BY <1>1, FS_Subset, Zenon
  <1>3. Cardinality(Issued) \in Nat /\ Cardinality(Live) \in Nat
    BY <1>2, FS_CardinalityType, Zenon
  <1> QED BY <1>2, <1>3, FS_EmptySet DEF Exact

(* A new service satisfies the invariant. *)
LEMMA GateInvInit == GateOK /\ GateInit => GateInv
  <1> SUFFICES ASSUME GateOK, GateInit PROVE GateInv
    BY Zenon
  <1>1. Live = {}
    BY Zenon DEF GateInit, Live
  <1>2. Exact
    BY <1>1, FS_EmptySet, Zenon DEF GateInit, Exact
  <1>3. Flags BY Zenon DEF GateInit, Flags
  <1>4. Shape BY DEF GateInit, Shape, Sorts, Epochs, Followed, Cutting, Permits
  <1> QED BY <1>2, <1>3, <1>4, Zenon DEF GateInv

(* The invariant is inductive: the count follows the permits, so that a count of
   0 means a drained gate, and every step keeps the rest. *)
LEMMA GateInvNext == GateInv /\ [GateNext]_gateVars => GateInv'
  <1> SUFFICES ASSUME GateOK, Flags, Shape, Exact, [GateNext]_gateVars PROVE GateInv'
    BY Zenon DEF GateInv
  <1>1. Exact'
    <2>1. \/ permits' = permits /\ Live' = Live
          \/ permits' = permits + 1 /\ \E c \in Issued \ Live : Live' = Live \cup {c}
          \/ permits' = permits - 1 /\ \E c \in Live : Live' = Live \ {c}
      BY CountUntouched, CountFollows, Zenon DEF GateNext, Live, Shape
    <2>2. ASSUME NEW c \in Issued \ Live, permits' = permits + 1, Live' = Live \cup {c} PROVE Exact'
      BY <2>2, LiveFinite, FS_AddElement, Zenon DEF Exact
    <2>3. ASSUME NEW c \in Live, permits' = permits - 1, Live' = Live \ {c} PROVE Exact'
      BY <2>3, LiveFinite, FS_RemoveElement, Zenon DEF Exact
    <2> QED BY <2>1, <2>2, <2>3, Zenon DEF Exact
  <1>2. permits = 0 => Drained
    BY LiveFinite, Zenon DEF Live, Drained, Shape, Sorts
  <1>3. Shape' /\ Flags' BY <1>2, ShapeKept, Zenon
  <1> QED BY <1>1, <1>3, Zenon DEF GateInv, GateOK

(* The gate keeps its inductive invariant. *)
THEOREM GateSafe == GateSpec => []GateInv
  BY GateConstants, GateInvInit, GateInvNext, PTL DEF GateSpec

(* What the invariant says of a permit and of the cut. *)
LEMMA GateGives ==
    GateInv => /\ KeptOnlyUnstarted /\ Sorts
               /\ close_result = "Closed" => phase = "Stopped" /\ frozen = -1
               /\ close_result = "DisposalError" => start = "Cancelled"
               /\ worker = "freeze" => \A c \in Issued : step[c] \in {"idle", "gone"}
               /\ phase = "Finished" => authority = frozen
  <1> SUFFICES ASSUME GateInv
               PROVE  /\ KeptOnlyUnstarted /\ Sorts
                      /\ close_result = "Closed" => phase = "Stopped" /\ frozen = -1
                      /\ close_result = "DisposalError" => start = "Cancelled"
                      /\ worker = "freeze" => \A c \in Issued : step[c] \in {"idle", "gone"}
                      /\ phase = "Finished" => authority = frozen
    BY Zenon
  <1> USE DEF GateInv, Shape
  <1>1. GateTypeOK
    <2>1. permits \in 0..Cardinality(Issued) BY LiveFinite, Zenon
    <2> QED BY <2>1, Zenon DEF Flags, Sorts, GateTypeOK
  <1>2. KeptOnlyUnstarted
    <2>1. /\ \A c \in Issued : step[c] = "kept" => Unstarted
          /\ ~home => Drained
      BY Zenon DEF Permits
    <2> QED BY <1>1, <2>1, Zenon DEF Exact, Live, Drained, KeptOnlyUnstarted
  <1>3. /\ close_result = "Closed" => phase = "Stopped" /\ frozen = -1
        /\ close_result = "DisposalError" => start = "Cancelled"
    BY Zenon DEF Sorts, Followed, Cutting, Outcome
  <1> QED BY <1>2, <1>3, Zenon DEF Cutting, Permits, Drained

(* The count of live commands is exact, a permit keeps its count only in a service
   whose start was cancelled and whose failure was observed, and a service whose
   home was given back has no permit (Drop of LiveCommandPermit,
   MasterCommandGate::wait_until_drained). *)
THEOREM OnlyUnstartedKeeps == GateSpec => []KeptOnlyUnstarted
  BY GateSafe, GateGives, PTL

(* The cut of a persistent failure and an ordinary shutdown exclude each other:
   the election is final, close reports what the worker did, and the authority
   frozen with no permit left is the one the report carries. *)
THEOREM CutExcludesShutdown == GateSpec => OutcomeMatchesCut
  <1>1. GateInv /\ [GateNext]_gateVars
        => [election # "Open" => \/ election' = election
                                 \/ /\ election \in Failures
                                    /\ election' = "PersistentFailure"]_gateVars
    BY ElectionKept, GateGives, Zenon
  <1> QED BY <1>1, GateSafe, GateGives, PTL DEF GateSpec, OutcomeMatchesCut
=============================================================================
