-------------------------- MODULE MCTaskDispatcher --------------------------
(***************************************************************************)
(* TaskDispatcher for TLC: two pools, so that one is drained while tasks   *)
(* of the other run.                                                       *)
(***************************************************************************)
EXTENDS TaskDispatcher, TLC

MCPoolOrder == <<"background", "client">>
MCWorkers == {"b1", "c1"}
MCPoolOf == "b1" :> "background" @@ "c1" :> "client"
=============================================================================
