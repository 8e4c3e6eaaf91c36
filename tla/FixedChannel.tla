---------------------------- MODULE FixedChannel ----------------------------
(* crates/beryl-stream/src/channel.rs: the fixed-capacity channel.  A ring   *)
(* of `Capacity` slots behind one mutex, and one condition variable          *)
(* `changed` shared by both sides.  The two halves are not Clone, but their  *)
(* methods take &self, so several threads may call them at once; dropping a  *)
(* half needs it exclusively.  Every section executed under the mutex is one *)
(* step.  notify_all is called after the mutex is released and is a step of  *)
(* its own.                                                                  *)
EXTENDS Integers, FiniteSets

CONSTANTS
    Senders,      \* threads that may hold a reference to FixedChannelSender
    Receivers,    \* threads that may hold a reference to FixedChannelReceiver
    Messages,
    None,         \* an empty slot, or no message
    Capacity,
    CounterMax    \* u64::MAX, where the diagnostic counters saturate

Threads == Senders \cup Receivers

ASSUME CapacityAssumption == Capacity \in Nat \ {0}
ASSUME CounterAssumption == CounterMax \in Nat \ {0}
ASSUME NoneAssumption == None \notin Messages
ASSUME ThreadAssumption == Senders \cap Receivers = {}

VARIABLES
    slots, head, tail, len, sender_open, receiver_open,
    sends, receives, high_water,
    pc,        \* idle | lock | wait (on `changed`) | notify (notify_all is due)
    deadline,  \* none (a try_ call) | pending | expired
    msg,       \* the message a send call still owns
    status,    \* what the last call of the thread returned
    got        \* the message the last receive call returned

ring == <<slots, head, tail, len, sends, receives, high_water>>
call == <<deadline, msg, status, got>>
vars == <<ring, sender_open, receiver_open, pc, call>>

Statuses == {"none", "Ok", "Full", "Timeout", "Closed", "Empty"}

\* One type invariant: the shape of ChannelState and of the calls in progress.
TypeOK ==
    /\ slots \in [0..Capacity-1 -> Messages \cup {None}]
    /\ head \in 0..Capacity-1 /\ tail \in 0..Capacity-1 /\ len \in 0..Capacity
    /\ sender_open \in BOOLEAN /\ receiver_open \in BOOLEAN
    /\ sends \in 0..CounterMax /\ receives \in 0..CounterMax
    /\ high_water \in 0..Capacity
    /\ pc \in [Threads -> {"idle", "lock", "wait", "notify"}]
    /\ deadline \in [Threads -> {"none", "pending", "expired"}]
    /\ msg \in [Threads -> Messages \cup {None}]
    /\ status \in [Threads -> Statuses]
    /\ got \in [Threads -> Messages \cup {None}]

Init ==
    /\ slots = [i \in 0..Capacity-1 |-> None]
    /\ head = 0 /\ tail = 0 /\ len = 0
    /\ sender_open = TRUE /\ receiver_open = TRUE
    /\ sends = 0 /\ receives = 0 /\ high_water = 0
    /\ pc = [t \in Threads |-> "idle"]
    /\ deadline = [t \in Threads |-> "none"]
    /\ msg = [t \in Threads |-> None]
    /\ status = [t \in Threads |-> "none"]
    /\ got = [t \in Threads |-> None]

-----------------------------------------------------------------------------
\* u64 saturating_add of the diagnostic counters.
SaturatingAdd(n) == IF n < CounterMax THEN n + 1 ELSE n

\* Mutant: the index stays at the last slot.
StuckSlot(i) == IF i + 1 < Capacity THEN i + 1 ELSE i

\* The slot after i, around the ring.
NextSlot(i) == (i + 1) % Capacity

\* `state.len < self.inner.capacity`.
HasRoom == len < Capacity

PushTail(m) ==
    /\ slots' = [slots EXCEPT ![tail] = m]
    /\ tail' = NextSlot(tail)
    /\ len' = len + 1
    /\ high_water' = IF len + 1 > high_water THEN len + 1 ELSE high_water
    /\ sends' = SaturatingAdd(sends)
    /\ UNCHANGED <<head, receives>>

TakeHead ==
    /\ slots' = [slots EXCEPT ![head] = None]
    /\ head' = NextSlot(head)
    /\ len' = len - 1
    /\ receives' = SaturatingAdd(receives)
    /\ UNCHANGED <<tail, sends, high_water>>

\* The thread leaves its call with the status `st`.
Return(t, st) ==
    /\ pc' = [pc EXCEPT ![t] = "idle"]
    /\ status' = [status EXCEPT ![t] = st]

\* The thread changed the state under the mutex; it still has to notify.
ReturnNotifying(t, st) ==
    /\ pc' = [pc EXCEPT ![t] = "notify"]
    /\ status' = [status EXCEPT ![t] = st]

\* Mutant: notify_one.
OneWaiter == LET w == {u \in Threads : pc[u] = "wait"} IN IF w = {} THEN {} ELSE {CHOOSE u \in w : TRUE}

\* The threads one notification wakes: all that wait on `changed`.
Waiters == {u \in Threads : pc[u] = "wait"}

\* Mutant: the deadline is never looked at.
NeverExpired(t) == deadline[t] = "never"

\* now >= deadline, or a deadline that checked_add could not represent.
Expired(t) == deadline[t] = "expired"

\* The call cannot proceed: a try_ call reports it, a timed one reports the
\* expiry of its deadline or waits.
Block(t, st) ==
    \/ deadline[t] = "none" /\ Return(t, st)
    \/ Expired(t) /\ Return(t, "Timeout")
    \/ deadline[t] # "none" /\ ~Expired(t) /\ pc' = [pc EXCEPT ![t] = "wait"] /\ UNCHANGED status

-----------------------------------------------------------------------------
\* A send call enters, try_send with no deadline and send_timeout with one.
\* checked_add may fail to represent the deadline: such a call never waits,
\* which is the deadline having expired from the start.
CallSend(s, m, d) ==
    /\ pc[s] = "idle" /\ sender_open
    /\ pc' = [pc EXCEPT ![s] = "lock"]
    /\ deadline' = [deadline EXCEPT ![s] = d]
    /\ msg' = [msg EXCEPT ![s] = m]
    /\ status' = [status EXCEPT ![s] = "none"]
    /\ UNCHANGED <<ring, sender_open, receiver_open, got>>

CallReceive(r, d) ==
    /\ pc[r] = "idle" /\ receiver_open
    /\ pc' = [pc EXCEPT ![r] = "lock"]
    /\ deadline' = [deadline EXCEPT ![r] = d]
    /\ got' = [got EXCEPT ![r] = None]
    /\ status' = [status EXCEPT ![r] = "none"]
    /\ UNCHANGED <<ring, sender_open, receiver_open, msg>>

\* One pass of the send loop under the mutex.
SendClosed(s) ==
    /\ pc[s] = "lock" /\ ~receiver_open
    /\ Return(s, "Closed")
    /\ UNCHANGED <<ring, sender_open, receiver_open, deadline, msg, got>>

SendStore(s) ==
    /\ pc[s] = "lock" /\ receiver_open /\ HasRoom
    /\ PushTail(msg[s])
    /\ msg' = [msg EXCEPT ![s] = None]
    /\ ReturnNotifying(s, "Ok")
    /\ UNCHANGED <<sender_open, receiver_open, deadline, got>>

SendFull(s) ==
    /\ pc[s] = "lock" /\ receiver_open /\ ~HasRoom
    /\ Block(s, "Full")
    /\ UNCHANGED <<ring, sender_open, receiver_open, deadline, msg, got>>

\* One pass of the receive loop under the mutex.
ReceiveTake(r) ==
    /\ pc[r] = "lock" /\ len > 0
    /\ got' = [got EXCEPT ![r] = slots[head]]
    /\ TakeHead
    /\ ReturnNotifying(r, "Ok")
    /\ UNCHANGED <<sender_open, receiver_open, deadline, msg>>

\* Mutant: a closed sender hides the messages still in the ring.
ReceiveClosedEarly(r) ==
    /\ pc[r] = "lock" /\ ~sender_open
    /\ Return(r, "Closed")
    /\ UNCHANGED <<ring, sender_open, receiver_open, deadline, msg, got>>

ReceiveClosed(r) ==
    /\ pc[r] = "lock" /\ len = 0 /\ ~sender_open
    /\ Return(r, "Closed")
    /\ UNCHANGED <<ring, sender_open, receiver_open, deadline, msg, got>>

ReceiveEmpty(r) ==
    /\ pc[r] = "lock" /\ len = 0 /\ sender_open
    /\ Block(r, "Empty")
    /\ UNCHANGED <<ring, sender_open, receiver_open, deadline, msg, got>>

\* changed.notify_all(), after the mutex was released.
NotifyAll(t) ==
    /\ pc[t] = "notify"
    /\ pc' = [u \in Threads |-> IF u = t THEN "idle" ELSE IF u \in Waiters THEN "lock" ELSE pc[u]]
    /\ UNCHANGED <<ring, sender_open, receiver_open, call>>

\* The clock passes the deadline of a call in progress.
Expire(t) ==
    /\ pc[t] \in {"lock", "wait"} /\ deadline[t] = "pending"
    /\ deadline' = [deadline EXCEPT ![t] = "expired"]
    /\ UNCHANGED <<ring, sender_open, receiver_open, pc, msg, status, got>>

\* wait_timeout returns on its own: at the deadline, or spuriously.
Wake(t) ==
    /\ pc[t] = "wait"
    /\ pc' = [pc EXCEPT ![t] = "lock"]
    /\ UNCHANGED <<ring, sender_open, receiver_open, call>>

\* Dropping a half.  Rust gives the dropping thread exclusive access, so no
\* call on that half is in progress.
DropSender(s) ==
    /\ sender_open /\ \A u \in Senders : pc[u] = "idle"
    /\ sender_open' = FALSE
    /\ ReturnNotifying(s, "none")
    /\ UNCHANGED <<ring, receiver_open, deadline, msg, got>>

DropReceiver(r) ==
    /\ receiver_open /\ \A u \in Receivers : pc[u] = "idle"
    /\ receiver_open' = FALSE
    /\ ReturnNotifying(r, "none")
    /\ UNCHANGED <<ring, sender_open, deadline, msg, got>>

Step(t) ==
    \/ t \in Senders /\ (SendClosed(t) \/ SendStore(t) \/ SendFull(t))
    \/ t \in Receivers /\ (ReceiveTake(t) \/ ReceiveClosed(t) \/ ReceiveEmpty(t))
    \/ NotifyAll(t)

Next ==
    \/ \E s \in Senders, m \in Messages, d \in {"none", "pending", "expired"} : CallSend(s, m, d)
    \/ \E r \in Receivers, d \in {"none", "pending", "expired"} : CallReceive(r, d)
    \/ \E s \in Senders : DropSender(s)
    \/ \E r \in Receivers : DropReceiver(r)
    \/ \E t \in Threads : Step(t) \/ Expire(t) \/ Wake(t)

Spec == Init /\ [][Next]_vars

\* The scheduler runs every runnable thread, and the clock advances: a pending
\* deadline passes, and an expired wait returns.
FairSpec ==
    /\ Spec
    /\ \A t \in Threads : WF_vars(Step(t)) /\ WF_vars(Expire(t)) /\ WF_vars(deadline[t] = "expired" /\ Wake(t))

-----------------------------------------------------------------------------
\* The slots the ring holds messages in: len of them, from head on.
InRing(i) == IF i >= head THEN i - head < len ELSE i + Capacity - head < len

\* Until a counter saturates, the messages sent and not yet received are those
\* in the ring, and the high water mark bounds them.
DiagnosticsAgree ==
    /\ sends < CounterMax => sends = receives + len
    /\ len <= high_water

\* Ring consistency (try_send, send_timeout, take_head): tail is len slots
\* after head and a slot is occupied exactly when it is in the ring, so
\* take_head's expect("occupied channel slot") cannot fail and no send
\* overwrites a message that was not received; and the diagnostic counters
\* account for what the ring holds.
RingConsistent ==
    /\ head + len = tail \/ head + len = tail + Capacity
    /\ \A i \in 0..Capacity-1 : InRing(i) <=> slots[i] # None
    /\ DiagnosticsAgree

\* The state a waiting thread waits for.
Ready(t) ==
    \/ t \in Senders /\ (len < Capacity \/ ~receiver_open)
    \/ t \in Receivers /\ (len > 0 \/ ~sender_open)

\* The ring read from head to tail, the abstract queue.
SlotOf(i) == IF head + i <= Capacity THEN head + i - 1 ELSE head + i - 1 - Capacity
Queue == [i \in 1..len |-> slots[SlotOf(i)]]
Fifo == INSTANCE BoundedFifo WITH queue <- Queue

\* The channel implements the linearizable bounded FIFO.
ImplementsFifo == Fifo!Spec

\* No lost wakeup: although notify_all runs outside the mutex and one
\* condition variable serves both sides, a thread still waiting on `changed`
\* while what it waits for is there has a notification under way.
NoLostWakeup ==
    \A t \in Threads : pc[t] = "wait" /\ Ready(t) => \E u \in Threads : pc[u] = "notify"

\* Every call returns: send_timeout and receive_timeout once their deadline
\* has passed, the try_ calls at once.
CallsReturn == \A t \in Threads : pc[t] # "idle" ~> pc[t] = "idle"
=============================================================================
