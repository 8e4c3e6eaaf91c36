----------------------------- MODULE BoundedFifo -----------------------------
(* What the fixed channel of beryl-stream promises its callers: a bounded    *)
(* first-in first-out queue whose operations take effect at one instant.  A  *)
(* send is refused only when the queue is full or the receiver is gone, a    *)
(* receive only when the queue is empty, and end-of-stream is reported only  *)
(* when the sender is gone and every message was received.                   *)
EXTENDS Integers, Sequences

CONSTANTS Senders, Receivers, Messages, None, Capacity

VARIABLES queue, sender_open, receiver_open, msg, status, got

vars == <<queue, sender_open, receiver_open, msg, status, got>>

Threads == Senders \cup Receivers

Init ==
    /\ queue = <<>>
    /\ sender_open = TRUE /\ receiver_open = TRUE
    /\ msg = [t \in Threads |-> None]
    /\ status = [t \in Threads |-> "none"]
    /\ got = [t \in Threads |-> None]

Answer(t, st) == status' = [status EXCEPT ![t] = st]

Call(t) ==
    /\ Answer(t, "none")
    /\ \/ t \in Senders /\ \E m \in Messages : msg' = [msg EXCEPT ![t] = m] /\ UNCHANGED got
       \/ t \in Receivers /\ got' = [got EXCEPT ![t] = None] /\ UNCHANGED msg
    /\ UNCHANGED <<queue, sender_open, receiver_open>>

Send(s) ==
    /\ status[s] = "none" /\ msg[s] # None
    /\ receiver_open /\ Len(queue) < Capacity
    /\ queue' = Append(queue, msg[s])
    /\ msg' = [msg EXCEPT ![s] = None]
    /\ Answer(s, "Ok")
    /\ UNCHANGED <<sender_open, receiver_open, got>>

\* An unsuccessful send leaves the queue alone and gives the message back.
RefuseSend(s) ==
    /\ status[s] = "none" /\ msg[s] # None
    /\ \/ ~receiver_open /\ Answer(s, "Closed")
       \/ receiver_open /\ Len(queue) = Capacity /\ (Answer(s, "Full") \/ Answer(s, "Timeout"))
    /\ UNCHANGED <<queue, sender_open, receiver_open, msg, got>>

Receive(r) ==
    /\ status[r] = "none" /\ queue # <<>>
    /\ got' = [got EXCEPT ![r] = Head(queue)]
    /\ queue' = Tail(queue)
    /\ Answer(r, "Ok")
    /\ UNCHANGED <<sender_open, receiver_open, msg>>

RefuseReceive(r) ==
    /\ status[r] = "none" /\ queue = <<>>
    /\ \/ ~sender_open /\ Answer(r, "Closed")
       \/ sender_open /\ (Answer(r, "Empty") \/ Answer(r, "Timeout"))
    /\ UNCHANGED <<queue, sender_open, receiver_open, msg, got>>

Close ==
    /\ \/ sender_open /\ sender_open' = FALSE /\ UNCHANGED receiver_open
       \/ receiver_open /\ receiver_open' = FALSE /\ UNCHANGED sender_open
    /\ \E t \in Threads : Answer(t, "none")
    /\ UNCHANGED <<queue, msg, got>>

Next ==
    \/ \E t \in Threads : Call(t)
    \/ \E s \in Senders : Send(s) \/ RefuseSend(s)
    \/ \E r \in Receivers : Receive(r) \/ RefuseReceive(r)
    \/ Close

Spec == Init /\ [][Next]_vars
=============================================================================
