---------------------------- MODULE MCHomeWriter ----------------------------
(* Two domains: a command changes one of them, or changes one and rewrites   *)
(* the other unchanged, or changes both.  Threads are interchangeable.       *)
EXTENDS HomeWriter, TLC

CONSTANTS a, b

TwoDomains == {a, b}
Mixed ==
    {[domains |-> {a}, changes |-> {a}],
     [domains |-> {a, b}, changes |-> {b}],
     [domains |-> {a, b}, changes |-> {a, b}]}

Symmetry == Permutations(Threads)
=============================================================================
