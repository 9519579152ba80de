------------------------------ MODULE MCFifoQueue ------------------------------
(* Fewer elements than would keep three consumers busy.                    *)
EXTENDS FifoQueue
=============================================================================
