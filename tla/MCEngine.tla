------------------------------ MODULE MCEngine ------------------------------
(* Small instances of the engine for TLC. *)
EXTENDS Engine

MCPriorities == {[i \in Shards |-> i]}
=============================================================================
