------------------------------- MODULE Session -------------------------------
(***************************************************************************)
(* One broadcast session and its caller.  The caller owns the session, so  *)
(* calls do not overlap; it may make any call at any time, and it owes     *)
(* every dispatch that poll returned exactly one chunk_sent, made in any   *)
(* order and also after the peer was detached (Strategy::poll_chunks).     *)
(*                                                                         *)
(* poll_chunks serves the attached peers one after the other, in           *)
(* increasing order; each iteration is a step, and no other call is made   *)
(* until the last one is done.                                             *)
(***************************************************************************)
EXTENDS RsStrategy

CONSTANTS Modes,      \* the kinds of session considered
          Updates,    \* the routing bitmaps peers may report
          MaxFaults   \* bound: failed sends and detachments considered

ASSUME ModesAssumption == Modes \subseteq PlannerMode
ASSUME UpdatesAssumption == Updates \subseteq SUBSET Shards
ASSUME MaxFaultsAssumption == MaxFaults \in Nat

VARIABLES session,  \* the Session<RsStrategy>
          polling,  \* peers poll_chunks has still to serve in this call
          owed,     \* dispatches returned by poll and not yet acknowledged
          faults    \* failed sends and detachments so far

vars == <<session, polling, owed, faults>>

Init ==
  /\ \E fib \in Priorities, attached \in SUBSET Peers :
       \/ "origin" \in Modes /\ session = NewOrigin(fib, attached)
       \/ /\ "relay" \in Modes
          /\ \E decodable \in BOOLEAN : session = NewRelay(fib, decodable, attached)
  /\ polling = {}
  /\ owed = {}
  /\ faults = 0

-----------------------------------------------------------------------------
Attach(peer) ==
  /\ polling = {}
  /\ session' = AttachPeer(session, peer)
  /\ UNCHANGED <<polling, owed, faults>>

Detach(peer) ==
  /\ polling = {} /\ faults < MaxFaults
  /\ session' = DetachPeer(session, peer)
  /\ faults' = faults + 1
  /\ UNCHANGED <<polling, owed>>

(* An index one past the last shard stands for every index out of range. *)
Take(idx, valid) ==
  /\ polling = {}
  /\ session' = TakeChunk(session, idx, valid)
  /\ UNCHANGED <<polling, owed, faults>>

Decode ==
  /\ polling = {}
  /\ session' = DecodeAndFinish(session)
  /\ UNCHANGED <<polling, owed, faults>>

Learn(peer, update) ==
  /\ polling = {}
  /\ session' = RoutingUpdate(session, peer, update)
  /\ UNCHANGED <<polling, owed, faults>>

(* Session::poll: poll_routing, then poll_chunks. *)
Poll ==
  /\ polling = {}
  /\ session' = PollRouting(session)
  /\ polling' = session.attached_peers
  /\ UNCHANGED <<owed, faults>>

PollChunks(peer) ==
  /\ peer \in polling /\ \A q \in polling : peer <= q
  /\ session' = PollPeer(session, peer)
  /\ owed' = owed \cup PolledDispatches(session, peer)
  /\ polling' = polling \ {peer}
  /\ UNCHANGED faults

Acknowledge(d) ==
  /\ polling = {} /\ d \in owed
  /\ session' = ChunkSent(session, d.peer, d.handle, TRUE)
  /\ owed' = owed \ {d}
  /\ UNCHANGED <<polling, faults>>

Refuse(d) ==
  /\ polling = {} /\ d \in owed /\ faults < MaxFaults
  /\ session' = ChunkSent(session, d.peer, d.handle, FALSE)
  /\ owed' = owed \ {d}
  /\ faults' = faults + 1
  /\ UNCHANGED polling

Next ==
  \/ \E peer \in Peers : Attach(peer) \/ Detach(peer) \/ PollChunks(peer)
  \/ \E idx \in 0 .. NumShards, valid \in BOOLEAN : Take(idx, valid)
  \/ Decode
  \/ \E peer \in Peers, update \in Updates : Learn(peer, update)
  \/ Poll
  \/ \E d \in owed : Acknowledge(d) \/ Refuse(d)

Spec == Init /\ [][Next]_vars

-----------------------------------------------------------------------------
(* Type invariant of the session and its caller. *)
TypeOK ==
  /\ SessionOK(session)
  /\ polling \subseteq session.attached_peers
  /\ owed \subseteq ChunkDispatch
  /\ faults \in 0 .. MaxFaults

(* Lazy invalidation never loses a shard: whatever entries refunds and         *)
(* reallocations leave behind, the heap holds a live entry for every shard, so *)
(* allocate still considers it (planner.rs, heap and allocate).                *)
EveryShardLive == HeapComplete(session.planner)

(* The strategy's handles and the planner's marks are two records of the same  *)
(* sends.  They agree: a shard is marked in flight to a peer exactly when one  *)
(* handle stands for it, so no mark outlives the callback that would clear it. *)
MarksMatchDispatches == MarksMatch(session)

(* Every unresolved handle belongs to an attached peer and is one the caller   *)
(* still owes a callback, and no two dispatches the caller holds share a       *)
(* handle: detach_peer drops the handles of the departed peer, and a late      *)
(* callback for one of them cannot resolve a newer send.                       *)
HandlesResolvable ==
  /\ session.in_flight \subseteq owed
  /\ \A d \in session.in_flight : d.peer \in session.attached_peers
  /\ \A d \in owed : d.handle < session.next_handle
  /\ \A d, e \in owed : d.handle = e.handle => d = e

(* Each unresolved and each confirmed send of a shard holds a unit of its      *)
(* allocation, so a refund always finds a unit to give back, and a relay never *)
(* allocates past its multiplier.                                              *)
AllocationCoversSends ==
  AllocationCovers(session.planner) /\ CapRespected(session.planner)

(* RsConfig::forward_multiplier: "Maximum successful sends per shard for       *)
(* relays".  Sends still in flight are within the limit too, so it holds       *)
(* whatever their outcome, across failures, departures and re-attachments.     *)
RelayBudget ==
  session.planner.mode = "relay" =>
    \A i \in Shards :
      session.planner.sent_count[i] + Cardinality(InFlightTo(session.planner, i))
        <= ForwardMultiplier

(* A relay leaves Consuming on the very shard that makes it complete, and      *)
(* collects none after it; an origin holds all shards throughout.              *)
CompletesAtNumData ==
  CASE session.state = "Origin"    -> session.chunks = Shards
    [] session.state = "Consuming" -> session.chunks = {} \/ AcceptedCount(session) < NumData
    [] OTHER -> AcceptedCount(session) = NumData \/ (NumData = 0 /\ AcceptedCount(session) = 1)

(* Only refunds make the heap grow, and each by one entry: a detachment        *)
(* refunds at most every shard once, a failed send one shard.                  *)
HeapGrowsByRefunds ==
  BagCardinality(session.planner.heap) <= NumShards + faults * NumShards

Budget == INSTANCE ShardBudget WITH
  capped     <- session.planner.mode = "relay",
  fib        <- session.planner.fib,
  allocation <- session.planner.allocation,
  sent_count <- session.planner.sent_count,
  offered    <- {o \in Peers \X Shards : o[2] \in session.planner.in_flight[o[1]]},
  has        <- {h \in Peers \X Shards : h[2] \in session.planner.havelist[h[1]]}

(* The planner over its lazily invalidated heap implements the budget without  *)
(* a heap: allocate offers the least allocated shard the peer may be offered.  *)
ImplementsBudget == Budget!Spec

(* The comment of poll_chunks: "for relays, planner would not allocate a shard *)
(* we don't have".                                                             *)
AllocatesOnlyHeldShards ==
  \A i \in Shards \ session.chunks : session.planner.allocation[i] = 0
=============================================================================
