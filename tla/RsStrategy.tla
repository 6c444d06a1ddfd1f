------------------------------ MODULE RsStrategy ------------------------------
(***************************************************************************)
(* The state machine of one broadcast session: Session                     *)
(* (ethp2p-broadcast/src/session.rs) over RsStrategy                       *)
(* (strategy/rs/state.rs) over the emit planner.  A session is a record    *)
(* and each method an operator on it.                                      *)
(*                                                                         *)
(*   state           SessionState                                          *)
(*   decodable       whether the preamble describes one codeword, so that  *)
(*                   any num_data verified shards decode to its hash       *)
(*   chunks          the shard indices held; a held shard passed           *)
(*                   verify_chunk, so its bytes are the preamble's         *)
(*   attached_peers  peers the session serves                              *)
(*   in_flight       dispatches issued and not yet resolved                *)
(*   next_handle     the next dispatch handle (u64; never wraps here)      *)
(*   last_routing_emitted_count, planner   as in the code                  *)
(***************************************************************************)
EXTENDS EmitPlanner

CONSTANTS NumData,          \* num_data of the preamble
          BitmapThreshold,  \* RsConfig::bitmap_threshold, a percentage
          DisableBitmap,    \* RsConfig::disable_bitmap
          Priorities        \* the fib functions of the seeds considered

ASSUME NumDataAssumption == NumData \in 0 .. NumShards
ASSUME BitmapThresholdAssumption == BitmapThreshold \in 0 .. 100
ASSUME DisableBitmapAssumption == DisableBitmap \in BOOLEAN
ASSUME PrioritiesAssumption == Priorities \subseteq [Shards -> Nat]

SessionState == {"Origin", "Consuming", "Decoding", "Reconstructed", "Failed"}
ChunkDispatch == [peer : Peers, chunk_id : Shards, handle : Nat]

(* RsStrategy::with: the fields every constructor starts from. *)
NewSession(state, mode, fib, chunks, decodable, attached) ==
  [state          |-> state,
   decodable      |-> decodable,
   chunks         |-> chunks,
   attached_peers |-> attached,
   in_flight      |-> {},
   next_handle    |-> 0,
   last_routing_emitted_count |-> 0,
   planner        |-> NewPlanner(mode, fib)]

NewOrigin(fib, attached) ==
  NewSession("Origin", "origin", fib, Shards, TRUE, attached)
NewRelay(fib, decodable, attached) ==
  NewSession("Consuming", "relay", fib, {}, decodable, attached)

-----------------------------------------------------------------------------
AcceptedCount(s) == Cardinality(s.chunks)

(* Mutant: completeness is off by one. *)
CanReconstructLate(s) == AcceptedCount(s) > NumData

CanReconstruct(s) == AcceptedCount(s) >= NumData

(* Mutant: the range of the index is not checked. *)
AcceptsAnyIndex(s, idx, valid) == s.state = "Consuming" /\ idx \notin s.chunks /\ valid

(* RsStrategy::take_chunk stores a new, in-range shard whose bytes verify. *)
Accepts(s, idx, valid) ==
  s.state = "Consuming" /\ idx \in Shards /\ idx \notin s.chunks /\ valid

(* Session::take_chunk: the session it leaves.  Outside Consuming, out of    *)
(* range, on a duplicate and on bytes that fail verification nothing changes. *)
TakeChunk(s, idx, valid) ==
  LET stored == [s EXCEPT !.chunks = @ \cup {idx}] IN
  IF ~Accepts(s, idx, valid) THEN s
  ELSE IF CanReconstruct(stored) THEN [stored EXCEPT !.state = "Decoding"]
  ELSE stored

(* Session::take_chunk: TakeOutcome::complete, FALSE for the error returns. *)
TakeComplete(s, idx, valid) ==
  /\ s.state = "Consuming" /\ idx \in Shards
  /\ idx \in s.chunks \/ valid
  /\ Cardinality(s.chunks \cup {idx}) >= NumData

(* Session::decode_and_finish: an error and no change outside Decoding. *)
DecodeAndFinish(s) ==
  IF s.state # "Decoding" THEN s
  ELSE [s EXCEPT !.state = IF s.decodable THEN "Reconstructed" ELSE "Failed"]

AttachPeer(s, peer) == [s EXCEPT !.attached_peers = @ \cup {peer}]

(* Mutant: the handles of the departed peer stay in flight. *)
DetachKeepsHandles(s, peer) ==
  [s EXCEPT !.attached_peers = @ \ {peer}, !.planner = RemovePeer(s.planner, peer)]

DetachPeer(s, peer) ==
  [s EXCEPT !.attached_peers = @ \ {peer},
            !.in_flight = {d \in @ : d.peer # peer},
            !.planner = RemovePeer(s.planner, peer)]

(* routing_update, for a bitmap of the session's size: or_merge into the *)
(* peer's havelist.                                                      *)
RoutingUpdate(s, peer, update) ==
  [s EXCEPT !.planner = SetPeerHavelist(s.planner, peer,
                                        s.planner.havelist[peer] \cup update)]

-----------------------------------------------------------------------------
(* poll_chunks, the iteration for one attached peer.  A shard that was        *)
(* allocated but is not held is cancelled, and its allocation is not refunded. *)
PolledDispatches(s, peer) ==
  {[peer |-> peer, chunk_id |-> i, handle |-> s.next_handle] :
     i \in AllocatedShards(s.planner, peer) \cap s.chunks}

(* Mutant: the handle is not advanced. *)
PollPeerReusesHandle(s, peer) ==
  [s EXCEPT
    !.planner = CancelInFlight(Allocate(s.planner, peer), peer,
                               AllocatedShards(s.planner, peer) \ s.chunks),
    !.in_flight = @ \cup PolledDispatches(s, peer)]

PollPeer(s, peer) ==
  LET missing == AllocatedShards(s.planner, peer) \ s.chunks
      issued  == PolledDispatches(s, peer)
  IN [s EXCEPT
       !.planner = CancelInFlight(Allocate(s.planner, peer), peer, missing),
       !.in_flight = @ \cup issued,
       !.next_handle = IF issued = {} THEN @ ELSE @ + 1]

(* poll_routing(false): whether it returns the local havelist, and the        *)
(* session it leaves.                                                         *)
BitmapThresholdReached(count) ==
  NumShards = 0 \/ (count * 100) \div NumShards >= BitmapThreshold

RoutingDue(s) ==
  /\ ~DisableBitmap
  /\ BitmapThresholdReached(AcceptedCount(s))
  /\ AcceptedCount(s) # s.last_routing_emitted_count

PollRouting(s) ==
  IF RoutingDue(s)
  THEN [s EXCEPT !.last_routing_emitted_count = AcceptedCount(s)]
  ELSE s

(* Mutant: a resolved handle stays in flight. *)
ChunkSentKeepsHandle(s, peer, handle, ok) ==
  LET resolved == {d \in s.in_flight : d.handle = handle}
      idx      == (CHOOSE d \in resolved : TRUE).chunk_id
  IN IF resolved = {} \/ ~ok THEN s
     ELSE [s EXCEPT !.planner = RecordSent(s.planner, peer, idx)]

(* chunk_sent: a handle that is no longer in flight is ignored. *)
ChunkSent(s, peer, handle, ok) ==
  LET resolved == {d \in s.in_flight : d.handle = handle}
      idx      == (CHOOSE d \in resolved : TRUE).chunk_id
  IN IF resolved = {} THEN s
     ELSE [s EXCEPT
            !.in_flight = @ \ resolved,
            !.planner = IF ok THEN RecordSent(s.planner, peer, idx)
                        ELSE RefundAllocations(CancelInFlight(s.planner, peer, {idx}), {idx})]

-----------------------------------------------------------------------------
(* The parts of the session's invariant, for a session s. *)
SessionShape(s) ==
  s = [state |-> s.state, decodable |-> s.decodable, chunks |-> s.chunks,
       attached_peers |-> s.attached_peers, in_flight |-> s.in_flight,
       next_handle |-> s.next_handle,
       last_routing_emitted_count |-> s.last_routing_emitted_count,
       planner |-> s.planner]

SessionOK(s) ==
  /\ SessionShape(s)
  /\ s.state \in SessionState
  /\ s.decodable \in BOOLEAN
  /\ s.chunks \subseteq Shards
  /\ s.attached_peers \subseteq Peers
  /\ s.in_flight \subseteq ChunkDispatch
  /\ s.next_handle \in Nat
  /\ s.last_routing_emitted_count \in 0 .. NumShards
  /\ PlannerOK(s.planner)

(* A shard is marked in flight to a peer exactly when one dispatch stands for it. *)
MarksMatch(s) ==
  /\ \A q \in Peers, i \in Shards :
       i \in s.planner.in_flight[q]
         <=> \E d \in s.in_flight : d.peer = q /\ d.chunk_id = i
  /\ \A d, e \in s.in_flight :
       d.peer = e.peer /\ d.chunk_id = e.chunk_id => d = e

(* Handles in flight were issued, are told apart, and serve attached peers. *)
HandlesOK(s) ==
  /\ \A d \in s.in_flight : d.handle < s.next_handle /\ d.peer \in s.attached_peers
  /\ \A d, e \in s.in_flight : d.handle = e.handle => d = e

SessionInv(s) ==
  SessionOK(s) /\ PlannerInv(s.planner) /\ MarksMatch(s) /\ HandlesOK(s)
=============================================================================
