--------------------------- MODULE MCSteeringLane ---------------------------
(* Small instances of the steering lane. *)
EXTENDS SteeringLane

\* Two threads on connections of their own.
Apart == [t \in {1, 2} |-> t]

\* One thread on the only connection.
Alone == [t \in {1} |-> 1]

\* Two threads that share a connection.
Together == [t \in {1, 2} |-> 1]
=============================================================================
