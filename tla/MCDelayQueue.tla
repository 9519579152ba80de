---------------------------- MODULE MCDelayQueue ----------------------------
(***************************************************************************)
(* DelayQueue for TLC: a few tasks with past, immediate and future due     *)
(* times, and few enough consumers for a push to find all of them blocked. *)
(***************************************************************************)
EXTENDS DelayQueue, TLC

MCDelays == {-1, 0, 1, 2}

\* Consumers differ in nothing but their names. Tasks too: their order is by
\* due time and sequence id.
Symmetry == Permutations(Consumers) \cup Permutations(Tasks)
=============================================================================
