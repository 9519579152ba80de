----------------------------- MODULE MCPollEngine -----------------------------
(* Two workers, the owner, and starts enough for two chains to meet.       *)
EXTENDS PollEngine
=============================================================================
