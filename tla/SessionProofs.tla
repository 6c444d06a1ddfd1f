---------------------------- MODULE SessionProofs ----------------------------
(***************************************************************************)
(* The safety of a session for every number of peers and shards, every     *)
(* multiplier and every sequence of calls.                                 *)
(***************************************************************************)
EXTENDS Session, RsStrategyProofs

(* The inductive invariant.  The planner's counters alone are not inductive: a   *)
(* refund is sound only because marks and handles match, and a callback resolves *)
(* the right send only because of what the caller still owes.                    *)
Inv == TypeOK /\ SessionInv(session) /\ HandlesResolvable

(* What each call does to the handles in flight, to the next handle and to the *)
(* attached peers.                                                             *)
LEMMA HandleFrames ==
  ASSUME NEW s, SessionShape(s), NEW peer, NEW idx, NEW valid, NEW update,
         NEW handle, NEW ok
  PROVE  /\ AttachPeer(s, peer).in_flight = s.in_flight
         /\ AttachPeer(s, peer).next_handle = s.next_handle
         /\ DetachPeer(s, peer).in_flight = {d \in s.in_flight : d.peer # peer}
         /\ DetachPeer(s, peer).next_handle = s.next_handle
         /\ TakeChunk(s, idx, valid).in_flight = s.in_flight
         /\ TakeChunk(s, idx, valid).next_handle = s.next_handle
         /\ DecodeAndFinish(s).in_flight = s.in_flight
         /\ DecodeAndFinish(s).next_handle = s.next_handle
         /\ RoutingUpdate(s, peer, update).in_flight = s.in_flight
         /\ RoutingUpdate(s, peer, update).next_handle = s.next_handle
         /\ PollRouting(s).in_flight = s.in_flight
         /\ PollRouting(s).next_handle = s.next_handle
         /\ PollRouting(s).attached_peers = s.attached_peers
<1>1. /\ AttachPeer(s, peer).in_flight = s.in_flight
      /\ AttachPeer(s, peer).next_handle = s.next_handle
  BY DEF AttachPeer, SessionShape
<1>2. /\ DetachPeer(s, peer).in_flight = {d \in s.in_flight : d.peer # peer}
      /\ DetachPeer(s, peer).next_handle = s.next_handle
  BY DEF DetachPeer, SessionShape
<1>3. /\ TakeChunk(s, idx, valid).in_flight = s.in_flight
      /\ TakeChunk(s, idx, valid).next_handle = s.next_handle
  BY DEF TakeChunk, SessionShape
<1>4. /\ DecodeAndFinish(s).in_flight = s.in_flight
      /\ DecodeAndFinish(s).next_handle = s.next_handle
  BY DEF DecodeAndFinish, SessionShape
<1>5. /\ RoutingUpdate(s, peer, update).in_flight = s.in_flight
      /\ RoutingUpdate(s, peer, update).next_handle = s.next_handle
  BY DEF RoutingUpdate, SessionShape
<1>6. /\ PollRouting(s).in_flight = s.in_flight
      /\ PollRouting(s).next_handle = s.next_handle
      /\ PollRouting(s).attached_peers = s.attached_peers
  BY DEF PollRouting, SessionShape
<1> QED BY <1>1, <1>2, <1>3, <1>4, <1>5, <1>6

(* The iteration of poll_chunks for a peer adds its dispatch and takes a handle. *)
LEMMA PollPeerFrame ==
  ASSUME NEW s, SessionShape(s), NEW peer
  PROVE  /\ PollPeer(s, peer).in_flight = s.in_flight \cup PolledDispatches(s, peer)
         /\ PollPeer(s, peer).next_handle
              = IF PolledDispatches(s, peer) = {} THEN s.next_handle ELSE s.next_handle + 1
         /\ PollPeer(s, peer).attached_peers = s.attached_peers
BY DEF PollPeer, SessionShape

(* poll_chunks issues at most one dispatch per peer and call, under the next handle. *)
LEMMA PolledUnique ==
  ASSUME NEW s, SessionOK(s), NEW peer \in Peers
  PROVE  /\ PolledDispatches(s, peer) \subseteq ChunkDispatch
         /\ \A x \in PolledDispatches(s, peer) : x.handle = s.next_handle
         /\ \A x, y \in PolledDispatches(s, peer) : x = y
<1>1. PlannerOK(s.planner) /\ s.next_handle \in Nat /\ s.chunks \subseteq Shards
  BY DEF SessionOK
<1>2. \A i, j \in AllocatedShards(s.planner, peer) : i = j
  BY <1>1, ChosenUnique DEF AllocatedShards
<1> QED BY <1>1, <1>2 DEF PolledDispatches, ChunkDispatch

(* chunk_sent removes the dispatches of its handle and no other. *)
LEMMA ChunkSentFrame ==
  ASSUME NEW s, SessionShape(s), NEW peer, NEW handle, NEW ok
  PROVE  /\ ChunkSent(s, peer, handle, ok).in_flight
              = {d \in s.in_flight : d.handle # handle}
         /\ ChunkSent(s, peer, handle, ok).next_handle = s.next_handle
         /\ ChunkSent(s, peer, handle, ok).attached_peers = s.attached_peers
<1> DEFINE resolved == {d \in s.in_flight : d.handle = handle}
           idx == (CHOOSE d \in resolved : TRUE).chunk_id
           pl == IF ok THEN RecordSent(s.planner, peer, idx)
                 ELSE RefundAllocations(CancelInFlight(s.planner, peer, {idx}), {idx})
           t == ChunkSent(s, peer, handle, ok)
<1>1. t = IF resolved = {} THEN s
          ELSE [s EXCEPT !.in_flight = @ \ resolved, !.planner = pl]
  BY DEF ChunkSent
<1> HIDE DEF pl, t
<1>2. /\ t.in_flight = {d \in s.in_flight : d.handle # handle}
      /\ t.next_handle = s.next_handle /\ t.attached_peers = s.attached_peers
  BY <1>1 DEF SessionShape
<1> QED BY <1>2 DEF t

-----------------------------------------------------------------------------
(* The constructors establish the invariant. *)
LEMMA InitInv == Init => Inv
<1> SUFFICES ASSUME Init PROVE Inv
  OBVIOUS
<1>1. PICK fib \in Priorities, attached \in SUBSET Peers :
        \/ session = NewOrigin(fib, attached)
        \/ \E decodable \in BOOLEAN : session = NewRelay(fib, decodable, attached)
  BY DEF Init
<1>2. fib \in [Shards -> Nat]
  BY PrioritiesAssumption
<1>3. SessionInv(session)
  BY <1>1, <1>2, NewSessionInv DEF NewOrigin, NewRelay, SessionState, PlannerMode
<1>4. session.in_flight = {}
  BY <1>1 DEF NewOrigin, NewRelay, NewSession
<1> QED BY <1>3, <1>4, MaxFaultsAssumption
        DEF Init, Inv, TypeOK, SessionInv, HandlesResolvable

(* A call that adds no handle in flight and issues none keeps what the caller *)
(* owes: attach, detach, take, decode, learn and the routing half of poll.    *)
LEMMA OwedKept ==
  ASSUME Inv, SessionInv(session'), owed' = owed,
         session'.in_flight \subseteq session.in_flight,
         session'.next_handle = session.next_handle,
         polling' \subseteq session'.attached_peers, faults' \in 0 .. MaxFaults
  PROVE  Inv'
BY DEF Inv, TypeOK, HandlesResolvable, SessionInv, HandlesOK

(* chunk_sent for a dispatch the caller owes keeps the invariant, whether the *)
(* send succeeded or not.                                                     *)
LEMMA CallbackInv ==
  ASSUME Inv, NEW d \in owed, NEW ok \in BOOLEAN, polling = {}, polling' = {},
         session' = ChunkSent(session, d.peer, d.handle, ok),
         owed' = owed \ {d}, faults' \in 0 .. MaxFaults
  PROVE  Inv'
<1>1. /\ d.peer \in Peers /\ SessionShape(session)
      /\ \A e \in session.in_flight : e.handle = d.handle => e = d
  BY DEF Inv, TypeOK, HandlesResolvable, ChunkDispatch, SessionOK
<1>2. SessionInv(session')
  BY <1>1, ChunkSentInv DEF Inv
<1>3. /\ session'.in_flight = {e \in session.in_flight : e.handle # d.handle}
      /\ session'.next_handle = session.next_handle
      /\ session'.attached_peers = session.attached_peers
  BY <1>1, ChunkSentFrame
<1> QED BY <1>1, <1>2, <1>3 DEF Inv, TypeOK, HandlesResolvable, SessionInv, HandlesOK

(* Every call keeps the invariant. *)
LEMMA NextInv == Inv /\ [Next]_vars => Inv'
<1> SUFFICES ASSUME Inv, [Next]_vars PROVE Inv'
  OBVIOUS
<1>0. /\ SessionInv(session) /\ SessionShape(session) /\ TypeOK /\ HandlesResolvable
      /\ polling \subseteq Peers /\ faults \in 0 .. MaxFaults
  BY DEF Inv, TypeOK, SessionOK
<1>1. CASE \E peer \in Peers : Attach(peer)
  <2>1. PICK peer \in Peers : Attach(peer)
    BY <1>1
  <2>2. SessionInv(session') /\ session'.in_flight = session.in_flight
        /\ session'.next_handle = session.next_handle
    BY <1>0, <2>1, AttachPeerInv, HandleFrames DEF Attach
  <2> QED BY <1>0, <2>1, <2>2, OwedKept DEF Attach
<1>2. CASE \E peer \in Peers : Detach(peer)
  <2>1. PICK peer \in Peers : Detach(peer)
    BY <1>2
  <2>2. SessionInv(session') /\ session'.in_flight \subseteq session.in_flight
        /\ session'.next_handle = session.next_handle
    BY <1>0, <2>1, DetachPeerInv, HandleFrames DEF Detach
  <2> QED BY <1>0, <2>1, <2>2, OwedKept, MaxFaultsAssumption DEF Detach
<1>3. CASE \E idx \in 0 .. NumShards, valid \in BOOLEAN : Take(idx, valid)
  BY <1>0, <1>3, TakeChunkInv, HandleFrames, OwedKept DEF Take
<1>4. CASE Decode
  BY <1>0, <1>4, DecodeInv, HandleFrames, OwedKept DEF Decode
<1>5. CASE \E peer \in Peers, update \in Updates : Learn(peer, update)
  BY <1>0, <1>5, UpdatesAssumption, RoutingUpdateInv, HandleFrames, OwedKept DEF Learn
<1>6. CASE Poll
  BY <1>0, <1>6, PollRoutingInv, HandleFrames, OwedKept DEF Poll
<1>7. CASE \E peer \in Peers : PollChunks(peer)
  <2>1. PICK peer \in Peers : PollChunks(peer)
    BY <1>7
  <2> DEFINE issued == PolledDispatches(session, peer)
  <2>2. SessionInv(session')
    BY <1>0, <2>1, PollPeerInv DEF PollChunks, TypeOK
  <2>3. /\ session'.in_flight = session.in_flight \cup issued
        /\ session'.next_handle = IF issued = {} THEN session.next_handle
                                                 ELSE session.next_handle + 1
        /\ session'.attached_peers = session.attached_peers
    BY <1>0, <2>1, PollPeerFrame DEF PollChunks
  <2>4. /\ issued \subseteq ChunkDispatch
        /\ \A x \in issued : x.handle = session.next_handle
        /\ \A x, y \in issued : x = y
    BY <1>0, PolledUnique DEF SessionInv
  <2>5. owed' \subseteq ChunkDispatch
    BY <1>0, <2>1, <2>4 DEF PollChunks, TypeOK
  <2>6. session.next_handle \in Nat
    BY <1>0 DEF TypeOK, SessionOK
  <2> HIDE DEF issued
  <2>7. owed' = owed \cup issued /\ polling' = polling \ {peer} /\ faults' = faults
    BY <2>1 DEF PollChunks, issued
  <2>8. HandlesResolvable'
    <3>1. \A x \in owed : x.handle \in Nat /\ x.handle < session.next_handle
      BY <1>0 DEF TypeOK, HandlesResolvable, ChunkDispatch
    <3>2. \A x, y \in owed : x.handle = y.handle => x = y
      BY <1>0 DEF HandlesResolvable
    <3>3. \A x \in owed' : x.handle < session'.next_handle
      BY <2>3, <2>4, <2>6, <2>7, <3>1
    <3>4. \A x, y \in owed' : x.handle = y.handle => x = y
      BY <2>4, <2>6, <2>7, <3>1, <3>2
    <3>5. session'.in_flight \subseteq owed'
      BY <1>0, <2>3, <2>7 DEF HandlesResolvable
    <3> QED BY <2>2, <3>3, <3>4, <3>5 DEF HandlesResolvable, SessionInv, HandlesOK
  <2> QED BY <1>0, <2>2, <2>3, <2>5, <2>7, <2>8 DEF Inv, TypeOK, SessionInv
<1>8. CASE \E d \in owed : Acknowledge(d)
  BY <1>0, <1>8, CallbackInv DEF Acknowledge
<1>9. CASE \E d \in owed : Refuse(d)
  <2>1. PICK d \in owed : Refuse(d)
    BY <1>9
  <2>2. faults' \in 0 .. MaxFaults
    BY <1>0, <2>1, MaxFaultsAssumption DEF Refuse
  <2> QED BY <2>1, <2>2, CallbackInv DEF Refuse
<1>10. CASE UNCHANGED vars
  BY <1>10 DEF vars, Inv, TypeOK, HandlesResolvable
<1> QED BY <1>1, <1>2, <1>3, <1>4, <1>5, <1>6, <1>7, <1>8, <1>9, <1>10 DEF Next

-----------------------------------------------------------------------------
(* The inductive invariant holds throughout. *)
THEOREM InvAlways == Spec => []Inv
BY InitInv, NextInv, PTL DEF Spec

(* Type correctness of the session and of its caller. *)
THEOREM TypeCorrect == Spec => []TypeOK
<1>1. Inv => TypeOK
  BY DEF Inv
<1> QED BY <1>1, InvAlways, PTL

(* The lazily invalidated heap keeps a live entry for every shard. *)
THEOREM HeapNeverLosesAShard == Spec => []EveryShardLive
<1>1. Inv => EveryShardLive
  BY DEF Inv, SessionInv, PlannerInv, EveryShardLive
<1> QED BY <1>1, InvAlways, PTL

(* The planner's in-flight marks and the strategy's handles agree. *)
THEOREM MarksAndHandlesAgree == Spec => []MarksMatchDispatches
<1>1. Inv => MarksMatchDispatches
  BY DEF Inv, SessionInv, MarksMatchDispatches
<1> QED BY <1>1, InvAlways, PTL

(* Every handle in flight is one the caller still owes, under one name. *)
THEOREM HandlesAreResolvable == Spec => []HandlesResolvable
<1>1. Inv => HandlesResolvable
  BY DEF Inv
<1> QED BY <1>1, InvAlways, PTL

(* Every unresolved and every confirmed send is covered by its allocation. *)
THEOREM SendsAreAllocated == Spec => []AllocationCoversSends
<1>1. Inv => AllocationCoversSends
  BY DEF Inv, SessionInv, PlannerInv, AllocationCoversSends
<1> QED BY <1>1, InvAlways, PTL

(* A relay never sends a shard more often than forward_multiplier allows, *)
(* sends in flight included.                                              *)
THEOREM RelayNeverOverspends == Spec => []RelayBudget
<1>1. Inv => RelayBudget
  <2> SUFFICES ASSUME Inv, session.planner.mode = "relay", NEW i \in Shards
               PROVE  session.planner.sent_count[i]
                        + Cardinality(InFlightTo(session.planner, i)) <= ForwardMultiplier
    BY DEF RelayBudget
  <2>1. PlannerInv(session.planner)
    BY DEF Inv, SessionInv
  <2>2. Cardinality(InFlightTo(session.planner, i)) \in Nat
    BY InFlightCount
  <2>3. session.planner.sent_count[i] \in Nat /\ session.planner.allocation[i] \in Nat
    BY <2>1 DEF PlannerInv, PlannerOK
  <2> QED BY <2>1, <2>2, <2>3, ForwardMultiplierAssumption
          DEF PlannerInv, AllocationCovers, CapRespected
<1> QED BY <1>1, InvAlways, PTL

-----------------------------------------------------------------------------
(* What each call leaves of the lifecycle state and the held shards. *)
LEMMA LifecycleFrames ==
  ASSUME NEW s, SessionShape(s), NEW peer, NEW update, NEW handle, NEW ok
  PROVE  /\ AttachPeer(s, peer).state = s.state /\ AttachPeer(s, peer).chunks = s.chunks
         /\ DetachPeer(s, peer).state = s.state /\ DetachPeer(s, peer).chunks = s.chunks
         /\ PollRouting(s).state = s.state /\ PollRouting(s).chunks = s.chunks
         /\ RoutingUpdate(s, peer, update).state = s.state
         /\ RoutingUpdate(s, peer, update).chunks = s.chunks
         /\ PollPeer(s, peer).state = s.state /\ PollPeer(s, peer).chunks = s.chunks
         /\ ChunkSent(s, peer, handle, ok).state = s.state
         /\ ChunkSent(s, peer, handle, ok).chunks = s.chunks
<1>1. /\ AttachPeer(s, peer).state = s.state /\ AttachPeer(s, peer).chunks = s.chunks
      /\ DetachPeer(s, peer).state = s.state /\ DetachPeer(s, peer).chunks = s.chunks
  BY DEF AttachPeer, DetachPeer, SessionShape
<1>2. /\ PollRouting(s).state = s.state /\ PollRouting(s).chunks = s.chunks
      /\ RoutingUpdate(s, peer, update).state = s.state
      /\ RoutingUpdate(s, peer, update).chunks = s.chunks
  BY DEF PollRouting, RoutingUpdate, SessionShape
<1>3. PollPeer(s, peer).state = s.state /\ PollPeer(s, peer).chunks = s.chunks
  BY DEF PollPeer, SessionShape
<1>4. /\ ChunkSent(s, peer, handle, ok).state = s.state
      /\ ChunkSent(s, peer, handle, ok).chunks = s.chunks
  <2> DEFINE resolved == {d \in s.in_flight : d.handle = handle}
             idx == (CHOOSE d \in resolved : TRUE).chunk_id
             pl == IF ok THEN RecordSent(s.planner, peer, idx)
                   ELSE RefundAllocations(CancelInFlight(s.planner, peer, {idx}), {idx})
  <2>1. ChunkSent(s, peer, handle, ok)
          = IF resolved = {} THEN s ELSE [s EXCEPT !.in_flight = @ \ resolved, !.planner = pl]
    BY DEF ChunkSent
  <2> HIDE DEF pl, resolved
  <2> QED BY <2>1 DEF SessionShape
<1> QED BY <1>1, <1>2, <1>3, <1>4

(* Session::take_chunk counts: one more shard, and Decoding exactly at num_data. *)
LEMMA TakeCompletes ==
  ASSUME Inv, CompletesAtNumData, NEW idx, NEW valid,
         session' = TakeChunk(session, idx, valid)
  PROVE  CompletesAtNumData'
<1>1. CASE ~Accepts(session, idx, valid)
  BY <1>1 DEF TakeChunk, CompletesAtNumData, AcceptedCount
<1>2. CASE Accepts(session, idx, valid)
  <2>1. session.state = "Consuming" /\ idx \in Shards /\ idx \notin session.chunks
    BY <1>2 DEF Accepts
  <2>2. SessionShape(session) /\ session.chunks \subseteq Shards
    BY DEF Inv, TypeOK, SessionOK
  <2> DEFINE n == Cardinality(session.chunks)
  <2>3. IsFiniteSet(session.chunks)
    <3>1. IsFiniteSet(Shards)
      BY NumShardsAssumption, FS_Interval DEF Shards
    <3> QED BY <2>2, <3>1, FS_Subset
  <2>4. n \in Nat /\ Cardinality(session.chunks \cup {idx}) = n + 1
    BY <2>1, <2>3, FS_CardinalityType, FS_AddElement
  <2>5. n = 0 \/ n < NumData
    BY <2>1, <2>3, FS_EmptySet DEF CompletesAtNumData, AcceptedCount
  <2>6. /\ session'.chunks = session.chunks \cup {idx}
        /\ session'.state = IF n + 1 >= NumData THEN "Decoding" ELSE "Consuming"
    BY <1>2, <2>1, <2>2, <2>4
       DEF TakeChunk, CanReconstruct, AcceptedCount, SessionShape
  <2>7. AcceptedCount(session)' = n + 1
    BY <2>4, <2>6 DEF AcceptedCount
  <2>8. NumData \in Nat
    BY NumDataAssumption, NumShardsAssumption
  <2> HIDE DEF n
  <2>9. CASE n + 1 >= NumData
    <3>1. n + 1 = NumData \/ (NumData = 0 /\ n + 1 = 1)
      BY <2>4, <2>5, <2>8, <2>9 DEF n
    <3>2. session'.state = "Decoding"
      BY <2>6, <2>9
    <3> QED BY <2>7, <3>1, <3>2 DEF CompletesAtNumData
  <2>10. CASE ~(n + 1 >= NumData)
    <3>1. n + 1 < NumData
      BY <2>4, <2>8, <2>10 DEF n
    <3>2. session'.state = "Consuming"
      BY <2>6, <2>10
    <3> QED BY <2>7, <3>1, <3>2 DEF CompletesAtNumData
  <2> QED BY <2>9, <2>10
<1> QED BY <1>1, <1>2

(* A relay leaves Consuming on the shard that makes it complete and collects *)
(* none after it.                                                            *)
THEOREM RelayCompletesOnTime == Spec => []CompletesAtNumData
<1>1. Init => CompletesAtNumData
  <2> SUFFICES ASSUME Init PROVE CompletesAtNumData
    OBVIOUS
  <2>1. \/ session.state = "Origin" /\ session.chunks = Shards
        \/ session.state = "Consuming" /\ session.chunks = {}
    BY DEF Init, NewOrigin, NewRelay, NewSession
  <2> QED BY <2>1 DEF CompletesAtNumData
<1>2. Inv /\ CompletesAtNumData /\ [Next]_vars => CompletesAtNumData'
  <2> SUFFICES ASSUME Inv, CompletesAtNumData, [Next]_vars PROVE CompletesAtNumData'
    OBVIOUS
  <2>1. SessionShape(session)
    BY DEF Inv, TypeOK, SessionOK
  <2>2. ASSUME session'.state = session.state, session'.chunks = session.chunks
        PROVE  CompletesAtNumData'
    BY <2>2 DEF CompletesAtNumData, AcceptedCount
  <2>3. CASE \E idx \in 0 .. NumShards, valid \in BOOLEAN : Take(idx, valid)
    BY <2>3, TakeCompletes DEF Take
  <2>4. CASE Decode
    <3>1. CASE session.state # "Decoding"
      BY <2>2, <2>4, <3>1 DEF Decode, DecodeAndFinish
    <3>2. CASE session.state = "Decoding"
      <4>1. session'.chunks = session.chunks /\ session'.state \in {"Reconstructed", "Failed"}
        BY <2>1, <2>4, <3>2 DEF Decode, DecodeAndFinish, SessionShape
      <4> QED BY <3>2, <4>1 DEF CompletesAtNumData, AcceptedCount
    <3> QED BY <3>1, <3>2
  <2>5. CASE \E peer \in Peers : Attach(peer) \/ Detach(peer) \/ PollChunks(peer)
    BY <2>1, <2>2, <2>5, LifecycleFrames DEF Attach, Detach, PollChunks
  <2>6. CASE \E peer \in Peers, update \in Updates : Learn(peer, update)
    BY <2>1, <2>2, <2>6, LifecycleFrames DEF Learn
  <2>7. CASE Poll
    BY <2>1, <2>2, <2>7, LifecycleFrames DEF Poll
  <2>8. CASE \E d \in owed : Acknowledge(d) \/ Refuse(d)
    <3>1. PICK d \in owed : Acknowledge(d) \/ Refuse(d)
      BY <2>8
    <3>2. \A ok \in BOOLEAN :
            /\ ChunkSent(session, d.peer, d.handle, ok).state = session.state
            /\ ChunkSent(session, d.peer, d.handle, ok).chunks = session.chunks
      BY <2>1, LifecycleFrames
    <3>3. session' = ChunkSent(session, d.peer, d.handle, TRUE)
            \/ session' = ChunkSent(session, d.peer, d.handle, FALSE)
      BY <3>1 DEF Acknowledge, Refuse
    <3>4. session'.state = session.state /\ session'.chunks = session.chunks
      BY <3>2, <3>3
    <3> QED BY <2>2, <3>4
  <2>9. CASE UNCHANGED vars
    BY <2>2, <2>9 DEF vars
  <2> QED BY <2>3, <2>4, <2>5, <2>6, <2>7, <2>8, <2>9 DEF Next
<1> QED BY <1>1, <1>2, InvAlways, PTL DEF Spec
=============================================================================
