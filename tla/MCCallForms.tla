------------------------------ MODULE MCCallForms ------------------------------
(* Every form of call there is: the module has no constants.               *)
EXTENDS CallForms
=============================================================================
