-------------------------- MODULE HomeAvailability --------------------------
(* What the health gate promises the users of a Beryl home: one generation   *)
(* at most is live, a generation that stopped being live never is again, a   *)
(* completed result is confirmed only while the generation it was computed   *)
(* from is live, and the store is reopened, and a new generation made live,  *)
(* only when nobody is using an old one.                                     *)
EXTENDS Integers

CONSTANTS Threads, MaxGeneration

VARIABLES
    live,       \* the generation open for use, 0 when there is none
    last,       \* the newest generation that was ever live
    user,       \* the generation a thread is using, 0 when it uses none
    status,     \* the outcome of the thread's last operation
    exclusive   \* the owner has the store to itself

vars == <<live, last, user, status, exclusive>>

Idle == \A t \in Threads : user[t] = 0

Init ==
    /\ live = 0 /\ last = 0 /\ exclusive = FALSE
    /\ user = [t \in Threads |-> 0]
    /\ status = [t \in Threads |-> "none"]

Call(t) ==
    /\ user[t] = 0
    /\ status' = [status EXCEPT ![t] = "none"]
    /\ UNCHANGED <<live, last, user, exclusive>>

Enter(t) ==
    /\ user[t] = 0 /\ live # 0 /\ ~exclusive
    /\ user' = [user EXCEPT ![t] = live]
    /\ status' = [status EXCEPT ![t] = "none"]
    /\ UNCHANGED <<live, last, exclusive>>

Confirm(t) ==
    /\ user[t] # 0 /\ user[t] = live
    /\ status' = [status EXCEPT ![t] = "Ok"]
    /\ UNCHANGED <<live, last, user, exclusive>>

Refuse(t) ==
    /\ status' = [status EXCEPT ![t] = "Err"]
    /\ UNCHANGED <<live, last, user, exclusive>>

\* Leaving keeps the outcome; a call admitted to the wrong generation fails.
Leave(t) ==
    /\ user[t] # 0
    /\ user' = [user EXCEPT ![t] = 0]
    /\ \/ UNCHANGED status
       \/ status' = [status EXCEPT ![t] = "Err"]
    /\ UNCHANGED <<live, last, exclusive>>

Fail ==
    /\ live' = 0
    /\ UNCHANGED <<last, user, status, exclusive>>

Seize ==
    /\ live = 0 /\ Idle
    /\ exclusive' = TRUE
    /\ UNCHANGED <<live, last, user, status>>

Yield ==
    /\ exclusive' = FALSE
    /\ UNCHANGED <<live, last, user, status>>

Publish(g) ==
    /\ live = 0 /\ Idle /\ ~exclusive
    /\ g > last
    /\ live' = g /\ last' = g
    /\ UNCHANGED <<user, status, exclusive>>

Next ==
    \/ \E t \in Threads : Call(t) \/ Enter(t) \/ Confirm(t) \/ Refuse(t) \/ Leave(t)
    \/ Fail \/ Seize \/ Yield
    \/ \E g \in 1..MaxGeneration : Publish(g)

Spec == Init /\ [][Next]_vars
=============================================================================
