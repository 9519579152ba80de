---------------------------- MODULE MCThreadPool ----------------------------
(***************************************************************************)
(* ThreadPool for TLC: as few threads, clients and tasks as let a stop     *)
(* meet an add, a delayed task, a task that adds a task, and a restart.    *)
(***************************************************************************)
EXTENDS ThreadPool, TLC

MCDelays == {1}

Symmetry == Permutations(Consumers) \cup Permutations(Tasks)
=============================================================================
