------------------------------ MODULE MCSession ------------------------------
(* Two peers and two or three shards, under two tie-break orders. *)
EXTENDS Session

MCPriorities == {[i \in Shards |-> i], [i \in Shards |-> NumShards - i]}

(* Bound: a second fault only for relays that can decode; their multiplier   *)
(* is what a second refund may break.                                        *)
FaultBound == session.planner.mode = "origin" \/ ~session.decodable => faults <= 1
=============================================================================
