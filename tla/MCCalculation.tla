---------------------------- MODULE MCCalculation ----------------------------
(* Two requests of one component, one or two threads, one round each.      *)
EXTENDS Calculation
=============================================================================
