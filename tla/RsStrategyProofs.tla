--------------------------- MODULE RsStrategyProofs ---------------------------
(***************************************************************************)
(* Every call on a session keeps the session's invariant: its record of    *)
(* handles and the planner's record of marks describe the same sends.      *)
(***************************************************************************)
EXTENDS RsStrategy, EmitPlannerProofs

(* A session starts out with its invariant. *)
LEMMA NewSessionInv ==
  ASSUME NEW state \in SessionState, NEW mode \in PlannerMode, NEW fib \in Priorities,
         NEW chunks \in SUBSET Shards, NEW decodable \in BOOLEAN,
         NEW attached \in SUBSET Peers
  PROVE  SessionInv(NewSession(state, mode, fib, chunks, decodable, attached))
<1> DEFINE p == NewPlanner(mode, fib)
           s == NewSession(state, mode, fib, chunks, decodable, attached)
<1>1. PlannerInv(p)
  BY PrioritiesAssumption, NewPlannerInv
<1>2. p.in_flight = [q \in Peers |-> {}]
  BY DEF NewPlanner
<1> HIDE DEF p
<1>3. s = [state |-> state, decodable |-> decodable, chunks |-> chunks,
           attached_peers |-> attached, in_flight |-> {}, next_handle |-> 0,
           last_routing_emitted_count |-> 0, planner |-> p]
  BY DEF NewSession, p
<1> HIDE DEF s
<1>4. SessionOK(s)
  BY <1>1, <1>3, NumShardsAssumption DEF SessionOK, SessionShape, PlannerInv
<1>5. MarksMatch(s) /\ HandlesOK(s)
  BY <1>2, <1>3 DEF MarksMatch, HandlesOK
<1> QED BY <1>1, <1>3, <1>4, <1>5 DEF SessionInv, s

(* Calls that leave the planner, the handles and the attached peers alone keep *)
(* the invariant: take_chunk, decode_and_finish and poll_routing.              *)
LEMMA BookkeepingUntouched ==
  ASSUME NEW s, SessionInv(s), NEW t, SessionOK(t),
         t.planner = s.planner, t.in_flight = s.in_flight,
         t.next_handle = s.next_handle, s.attached_peers \subseteq t.attached_peers
  PROVE  SessionInv(t)
BY DEF SessionInv, MarksMatch, HandlesOK

(* accepted_count is between 0 and the number of shards. *)
LEMMA HeldCount ==
  ASSUME NEW chunks \in SUBSET Shards
  PROVE  Cardinality(chunks) \in 0 .. NumShards
<1>1. IsFiniteSet(Shards) /\ Cardinality(Shards) = NumShards
  BY NumShardsAssumption, FS_Interval DEF Shards
<1>2. IsFiniteSet(chunks) /\ Cardinality(chunks) <= Cardinality(Shards)
  BY <1>1, FS_Subset
<1> QED BY <1>1, <1>2, FS_CardinalityType, NumShardsAssumption

(* Session::take_chunk keeps the invariant. *)
LEMMA TakeChunkInv ==
  ASSUME NEW s, SessionInv(s), NEW idx, NEW valid \in BOOLEAN
  PROVE  SessionInv(TakeChunk(s, idx, valid))
<1> DEFINE t == TakeChunk(s, idx, valid)
<1>0. SessionOK(s)
  BY DEF SessionInv
<1>1. CASE ~Accepts(s, idx, valid)
  BY <1>1 DEF TakeChunk
<1>2. CASE Accepts(s, idx, valid)
  <2>1. idx \in Shards
    BY <1>2 DEF Accepts
  <2>2. \E st \in {s.state, "Decoding"} :
          t = [state |-> st, decodable |-> s.decodable, chunks |-> s.chunks \cup {idx},
               attached_peers |-> s.attached_peers, in_flight |-> s.in_flight,
               next_handle |-> s.next_handle,
               last_routing_emitted_count |-> s.last_routing_emitted_count,
               planner |-> s.planner]
    BY <1>0, <1>2 DEF TakeChunk, SessionOK, SessionShape
  <2> HIDE DEF t
  <2>3. SessionOK(t)
    BY <1>0, <2>1, <2>2 DEF SessionOK, SessionShape, SessionState
  <2>4. /\ t.planner = s.planner /\ t.in_flight = s.in_flight
        /\ t.next_handle = s.next_handle /\ t.attached_peers = s.attached_peers
    BY <2>2
  <2>5. SessionInv(t)
    BY <2>3, <2>4, BookkeepingUntouched
  <2> QED BY <2>5 DEF t
<1> QED BY <1>1, <1>2

(* Session::decode_and_finish keeps the invariant. *)
LEMMA DecodeInv ==
  ASSUME NEW s, SessionInv(s)
  PROVE  SessionInv(DecodeAndFinish(s))
<1> DEFINE t == DecodeAndFinish(s)
<1>0. SessionOK(s)
  BY DEF SessionInv
<1>1. \E st \in SessionState :
        t = [state |-> st, decodable |-> s.decodable, chunks |-> s.chunks,
             attached_peers |-> s.attached_peers, in_flight |-> s.in_flight,
             next_handle |-> s.next_handle,
             last_routing_emitted_count |-> s.last_routing_emitted_count,
             planner |-> s.planner]
  BY <1>0 DEF DecodeAndFinish, SessionOK, SessionShape, SessionState
<1> HIDE DEF t
<1>2. SessionOK(t)
  BY <1>0, <1>1 DEF SessionOK, SessionShape
<1>3. /\ t.planner = s.planner /\ t.in_flight = s.in_flight
      /\ t.next_handle = s.next_handle /\ t.attached_peers = s.attached_peers
  BY <1>1
<1>4. SessionInv(t)
  BY <1>2, <1>3, BookkeepingUntouched
<1> QED BY <1>4 DEF t

(* poll_routing keeps the invariant. *)
LEMMA PollRoutingInv ==
  ASSUME NEW s, SessionInv(s)
  PROVE  SessionInv(PollRouting(s))
<1> DEFINE t == PollRouting(s)
<1>0. SessionOK(s) /\ AcceptedCount(s) \in 0 .. NumShards
  BY HeldCount DEF SessionInv, SessionOK, AcceptedCount
<1>1. \E n \in 0 .. NumShards :
        t = [state |-> s.state, decodable |-> s.decodable, chunks |-> s.chunks,
             attached_peers |-> s.attached_peers, in_flight |-> s.in_flight,
             next_handle |-> s.next_handle,
             last_routing_emitted_count |-> n, planner |-> s.planner]
  BY <1>0 DEF PollRouting, SessionOK, SessionShape
<1> HIDE DEF t
<1>2. SessionOK(t)
  BY <1>0, <1>1 DEF SessionOK, SessionShape
<1>3. /\ t.planner = s.planner /\ t.in_flight = s.in_flight
      /\ t.next_handle = s.next_handle /\ t.attached_peers = s.attached_peers
  BY <1>1
<1>4. SessionInv(t)
  BY <1>2, <1>3, BookkeepingUntouched
<1> QED BY <1>4 DEF t

-----------------------------------------------------------------------------
(* refund_allocation leaves the in-flight marks alone. *)
LEMMA RefundMarks ==
  ASSUME NEW p, PlannerShape(p), NEW idxs
  PROVE  RefundAllocations(p, idxs).in_flight = p.in_flight
<1> DEFINE refunded == {i \in idxs : p.allocation[i] > 0}
           al == [i \in Shards |-> IF i \in refunded THEN p.allocation[i] - 1
                                                     ELSE p.allocation[i]]
           heap == p.heap (+) SetToBag({Entry(p.allocation[i] - 1, i) : i \in refunded})
           c == RefundAllocations(p, idxs)
<1>1. c = [p EXCEPT !.allocation = al, !.heap = heap]
  BY DEF RefundAllocations
<1> HIDE DEF al, heap, c
<1>2. c.in_flight = p.in_flight
  BY <1>1 DEF PlannerShape
<1> QED BY <1>2 DEF c

(* remove_peer clears the marks of that peer and of no other. *)
LEMMA RemovePeerMarks ==
  ASSUME NEW p, PlannerShape(p), NEW peer
  PROVE  RemovePeer(p, peer).in_flight = [p.in_flight EXCEPT ![peer] = {}]
<1> DEFINE fl == [p.in_flight EXCEPT ![peer] = {}]
           hv == [p.havelist EXCEPT ![peer] = {}]
           q == [p EXCEPT !.in_flight = fl, !.havelist = hv]
<1>1. RemovePeer(p, peer) = RefundAllocations(q, p.in_flight[peer])
  BY DEF RemovePeer
<1>2. PlannerShape(q) /\ q.in_flight = fl
  <2>1. q = [p EXCEPT !.in_flight = fl, !.havelist = hv]
    OBVIOUS
  <2> HIDE DEF fl, hv, q
  <2> QED BY <2>1 DEF PlannerShape
<1> HIDE DEF q
<1> QED BY <1>1, <1>2, RefundMarks
(* allocate marks exactly the shard it returns. *)
LEMMA AllocateMarks ==
  ASSUME NEW p, PlannerShape(p), NEW peer
  PROVE  /\ Allocate(p, peer).in_flight
              = [p.in_flight EXCEPT ![peer] = @ \cup AllocatedShards(p, peer)]
         /\ PlannerShape(Allocate(p, peer))
<1> DEFINE fl == [p.in_flight EXCEPT ![peer] = @ \cup AllocatedShards(p, peer)]
           al == [i \in Shards |-> IF i \in AllocatedShards(p, peer)
                                   THEN p.allocation[i] + 1 ELSE p.allocation[i]]
           heap == (WithoutPoppedStale(p, peer) (-) SetToBag(Chosen(p, peer)))
                     (+) SetToBag({Entry(e.allocation + 1, e.idx) : e \in Chosen(p, peer)})
           c == Allocate(p, peer)
<1>1. c = [p EXCEPT !.heap = heap, !.allocation = al, !.in_flight = fl]
  BY DEF Allocate
<1> HIDE DEF fl, al, heap, c
<1>2. c.in_flight = fl /\ PlannerShape(c)
  BY <1>1 DEF PlannerShape
<1> QED BY <1>2 DEF fl, c

-----------------------------------------------------------------------------
(* attach_peer keeps the invariant. *)
LEMMA AttachPeerInv ==
  ASSUME NEW s, SessionInv(s), NEW peer \in Peers
  PROVE  SessionInv(AttachPeer(s, peer))
<1> DEFINE t == AttachPeer(s, peer)
<1>0. SessionOK(s)
  BY DEF SessionInv
<1>1. t = [state |-> s.state, decodable |-> s.decodable, chunks |-> s.chunks,
           attached_peers |-> s.attached_peers \cup {peer}, in_flight |-> s.in_flight,
           next_handle |-> s.next_handle,
           last_routing_emitted_count |-> s.last_routing_emitted_count,
           planner |-> s.planner]
  BY <1>0 DEF AttachPeer, SessionOK, SessionShape
<1> HIDE DEF t
<1>2. SessionOK(t)
  BY <1>0, <1>1 DEF SessionOK, SessionShape
<1>3. /\ t.planner = s.planner /\ t.in_flight = s.in_flight
      /\ t.next_handle = s.next_handle /\ s.attached_peers \subseteq t.attached_peers
  BY <1>1
<1>4. SessionInv(t)
  BY <1>2, <1>3, BookkeepingUntouched
<1> QED BY <1>4 DEF t

(* detach_peer keeps the invariant: marks and handles of the peer go together. *)
LEMMA DetachPeerInv ==
  ASSUME NEW s, SessionInv(s), NEW peer \in Peers
  PROVE  SessionInv(DetachPeer(s, peer))
<1> DEFINE t == DetachPeer(s, peer)
           p == RemovePeer(s.planner, peer)
<1>0. SessionOK(s) /\ PlannerInv(s.planner) /\ MarksMatch(s) /\ HandlesOK(s)
  BY DEF SessionInv
<1>1. PlannerInv(p)
  BY <1>0, RemovePeerInv
<1>2. p.in_flight = [s.planner.in_flight EXCEPT ![peer] = {}]
  BY <1>0, RemovePeerMarks DEF PlannerInv, PlannerOK
<1> HIDE DEF p
<1>3. t = [state |-> s.state, decodable |-> s.decodable, chunks |-> s.chunks,
           attached_peers |-> s.attached_peers \ {peer},
           in_flight |-> {d \in s.in_flight : d.peer # peer},
           next_handle |-> s.next_handle,
           last_routing_emitted_count |-> s.last_routing_emitted_count,
           planner |-> p]
  <2> DEFINE attached == s.attached_peers \ {peer}
             kept == {d \in s.in_flight : d.peer # peer}
  <2>1. t = [s EXCEPT !.attached_peers = attached, !.in_flight = kept, !.planner = p]
    BY DEF DetachPeer, p
  <2>2. SessionShape(s)
    BY <1>0 DEF SessionOK
  <2> HIDE DEF t, attached, kept
  <2>3. t = [state |-> s.state, decodable |-> s.decodable, chunks |-> s.chunks,
             attached_peers |-> attached, in_flight |-> kept,
             next_handle |-> s.next_handle,
             last_routing_emitted_count |-> s.last_routing_emitted_count,
             planner |-> p]
    BY <2>1, <2>2 DEF SessionShape
  <2> QED BY <2>3 DEF attached, kept
<1> HIDE DEF t
<1>4. SessionOK(t)
  BY <1>0, <1>1, <1>3 DEF SessionOK, SessionShape, PlannerInv
<1>5. MarksMatch(t)
  <2>1. s.planner.in_flight \in [Peers -> SUBSET Shards]
    BY <1>0 DEF PlannerInv, PlannerOK
  <2>2. t.planner.in_flight = [s.planner.in_flight EXCEPT ![peer] = {}]
        /\ t.in_flight = {d \in s.in_flight : d.peer # peer}
    BY <1>2, <1>3
  <2> QED BY <1>0, <2>1, <2>2 DEF MarksMatch
<1>6. HandlesOK(t)
  BY <1>0, <1>3 DEF HandlesOK
<1>7. SessionInv(t)
  BY <1>1, <1>3, <1>4, <1>5, <1>6 DEF SessionInv
<1> QED BY <1>7 DEF t

(* routing_update keeps the invariant. *)
LEMMA RoutingUpdateInv ==
  ASSUME NEW s, SessionInv(s), NEW peer \in Peers, NEW update \in SUBSET Shards
  PROVE  SessionInv(RoutingUpdate(s, peer, update))
<1> DEFINE merged == s.planner.havelist[peer] \cup update
           p == SetPeerHavelist(s.planner, peer, merged)
           t == RoutingUpdate(s, peer, update)
<1>0. SessionOK(s) /\ PlannerInv(s.planner) /\ MarksMatch(s) /\ HandlesOK(s)
  BY DEF SessionInv
<1>1. merged \in SUBSET Shards
  BY <1>0 DEF PlannerInv, PlannerOK
<1>2. PlannerInv(p)
  BY <1>0, <1>1, SetPeerHavelistInv
<1>3. p.in_flight = s.planner.in_flight
  <2> DEFINE hv == [s.planner.havelist EXCEPT ![peer] = merged]
  <2>1. p = [s.planner EXCEPT !.havelist = hv]
    BY DEF SetPeerHavelist
  <2>2. PlannerShape(s.planner)
    BY <1>0 DEF PlannerInv, PlannerOK
  <2> HIDE DEF p, hv
  <2> QED BY <2>1, <2>2 DEF PlannerShape
<1>4. t = [s EXCEPT !.planner = p]
  BY DEF RoutingUpdate
<1>5. SessionShape(s)
  BY <1>0 DEF SessionOK
<1> HIDE DEF p, t
<1>6. t = [state |-> s.state, decodable |-> s.decodable, chunks |-> s.chunks,
           attached_peers |-> s.attached_peers, in_flight |-> s.in_flight,
           next_handle |-> s.next_handle,
           last_routing_emitted_count |-> s.last_routing_emitted_count,
           planner |-> p]
  BY <1>4, <1>5 DEF SessionShape
<1>7. SessionOK(t)
  BY <1>0, <1>2, <1>6 DEF SessionOK, SessionShape, PlannerInv
<1>8. MarksMatch(t) /\ HandlesOK(t)
  BY <1>0, <1>3, <1>6 DEF MarksMatch, HandlesOK
<1>9. SessionInv(t)
  BY <1>2, <1>6, <1>7, <1>8 DEF SessionInv
<1> QED BY <1>9 DEF t

(* One iteration of poll_chunks keeps the invariant: a shard that is held gets a *)
(* mark and a fresh handle, one that is not held gets neither.                   *)
LEMMA PollPeerInv ==
  ASSUME NEW s, SessionInv(s), NEW peer \in s.attached_peers
  PROVE  SessionInv(PollPeer(s, peer))
<1> DEFINE allocated == AllocatedShards(s.planner, peer)
           missing == allocated \ s.chunks
           issued == PolledDispatches(s, peer)
           p == CancelInFlight(Allocate(s.planner, peer), peer, missing)
           t == PollPeer(s, peer)
           next == IF issued = {} THEN s.next_handle ELSE s.next_handle + 1
           fl == s.in_flight \cup issued
<1>0. /\ SessionOK(s) /\ PlannerInv(s.planner) /\ MarksMatch(s) /\ HandlesOK(s)
      /\ PlannerOK(s.planner) /\ PlannerShape(s.planner) /\ SessionShape(s)
      /\ peer \in Peers
  BY DEF SessionInv, SessionOK, PlannerOK
<1>1. PlannerInv(p)
  BY <1>0, AllocateInv, CancelInFlightInv
<1>2. p.in_flight = [s.planner.in_flight EXCEPT ![peer] = (@ \cup allocated) \ missing]
  <2>1. Allocate(s.planner, peer).in_flight
          = [s.planner.in_flight EXCEPT ![peer] = @ \cup allocated]
        /\ PlannerShape(Allocate(s.planner, peer))
    BY <1>0, AllocateMarks
  <2> DEFINE a == Allocate(s.planner, peer)
  <2>2. CancelInFlight(a, peer, missing).in_flight
          = [a.in_flight EXCEPT ![peer] = @ \ missing]
    <3>1. PlannerShape(a)
      BY <2>1
    <3> DEFINE marks == [a.in_flight EXCEPT ![peer] = @ \ missing]
    <3>2. CancelInFlight(a, peer, missing) = [a EXCEPT !.in_flight = marks]
      BY DEF CancelInFlight
    <3> HIDE DEF a, missing, marks
    <3>3. CancelInFlight(a, peer, missing).in_flight = marks
      BY <3>1, <3>2 DEF PlannerShape
    <3> QED BY <3>3 DEF marks
  <2> HIDE DEF a
  <2>3. s.planner.in_flight \in [Peers -> SUBSET Shards]
    BY <1>0 DEF PlannerOK
  <2>4. p = CancelInFlight(a, peer, missing)
    BY DEF a
  <2>5. a.in_flight = [s.planner.in_flight EXCEPT ![peer] = @ \cup allocated]
    BY <2>1 DEF a
  <2> HIDE DEF p, missing, allocated
  <2> QED BY <1>0, <2>2, <2>3, <2>4, <2>5
<1>3. t = [s EXCEPT !.planner = p, !.in_flight = fl, !.next_handle = next]
  BY DEF PollPeer
<1>4. issued = {[peer |-> peer, chunk_id |-> i, handle |-> s.next_handle] :
                  i \in allocated \cap s.chunks}
  BY DEF PolledDispatches
<1>5. /\ allocated \subseteq Shards
      /\ allocated \cap s.planner.in_flight[peer] = {}
      /\ \A i, j \in allocated : i = j
  BY <1>0, ChosenCases
<1> HIDE DEF p, t, fl, next, issued, missing, allocated
<1>6. t = [state |-> s.state, decodable |-> s.decodable, chunks |-> s.chunks,
           attached_peers |-> s.attached_peers, in_flight |-> fl,
           next_handle |-> next,
           last_routing_emitted_count |-> s.last_routing_emitted_count,
           planner |-> p]
  BY <1>0, <1>3 DEF SessionShape
<1>7. issued \subseteq ChunkDispatch /\ next \in Nat
  BY <1>0, <1>4, <1>5 DEF SessionOK, ChunkDispatch, next
<1>8. SessionOK(t)
  BY <1>0, <1>1, <1>6, <1>7 DEF SessionOK, SessionShape, PlannerInv, fl
<1>9. MarksMatch(t)
  <2>1. s.planner.in_flight \in [Peers -> SUBSET Shards]
    BY <1>0 DEF PlannerOK
  <2>2. ASSUME NEW q \in Peers, NEW i \in Shards
        PROVE  i \in p.in_flight[q] <=> \E d \in fl : d.peer = q /\ d.chunk_id = i
    <3>1. i \in s.planner.in_flight[q] <=> \E d \in s.in_flight : d.peer = q /\ d.chunk_id = i
      BY <1>0 DEF MarksMatch
    <3>2. (\E d \in issued : d.peer = q /\ d.chunk_id = i)
            <=> q = peer /\ i \in allocated \cap s.chunks
      <4> DEFINE new == [peer |-> peer, chunk_id |-> i, handle |-> s.next_handle]
      <4>1. i \in allocated \cap s.chunks => new \in issued
        BY <1>4
      <4>2. new.peer = peer /\ new.chunk_id = i
        OBVIOUS
      <4>3. \A d \in issued : d.peer = peer /\ d.chunk_id \in allocated \cap s.chunks
        BY <1>4
      <4> QED BY <4>1, <4>2, <4>3
    <3>3. i \in p.in_flight[q]
            <=> \/ i \in s.planner.in_flight[q]
                \/ q = peer /\ i \in allocated \cap s.chunks
      BY <1>0, <1>2, <1>5, <2>1 DEF missing
    <3> QED BY <3>1, <3>2, <3>3 DEF fl
  <2>3. ASSUME NEW d \in fl, NEW e \in fl, d.peer = e.peer, d.chunk_id = e.chunk_id
        PROVE  d = e
    <3>1. ASSUME NEW x \in s.in_flight, NEW y \in issued
          PROVE  ~(x.peer = y.peer /\ x.chunk_id = y.chunk_id)
      BY <1>0, <1>4, <1>5 DEF MarksMatch
    <3>2. ASSUME NEW x \in issued, NEW y \in issued PROVE x = y
      BY <1>4, <1>5
    <3> QED BY <1>0, <2>3, <3>1, <3>2 DEF MarksMatch, fl
  <2>4. t.planner = p /\ t.in_flight = fl
    BY <1>6
  <2> QED BY <2>2, <2>3, <2>4 DEF MarksMatch
<1>10. HandlesOK(t)
  <2>1. ASSUME NEW d \in issued
        PROVE  /\ d.handle = s.next_handle /\ d.peer = peer /\ next = s.next_handle + 1
               /\ \A e \in issued : d = e
    BY <1>4, <1>5 DEF next
  <2>2. ASSUME NEW d \in s.in_flight
        PROVE  d.handle < s.next_handle /\ d.peer \in s.attached_peers /\ d.handle \in Nat
    BY <1>0 DEF HandlesOK, SessionOK, ChunkDispatch
  <2>3. t.in_flight = fl /\ t.next_handle = next /\ t.attached_peers = s.attached_peers
    BY <1>6
  <2>4. next >= s.next_handle /\ s.next_handle \in Nat
    BY <1>0 DEF next, SessionOK
  <2>5. ASSUME NEW d \in fl
        PROVE  d.handle < next /\ d.peer \in s.attached_peers
    BY <1>7, <2>1, <2>2, <2>4 DEF fl
  <2>6. ASSUME NEW d \in fl, NEW e \in fl, d.handle = e.handle
        PROVE  d = e
    BY <1>0, <2>1, <2>2, <2>4, <2>6 DEF fl, HandlesOK
  <2> QED BY <2>3, <2>5, <2>6 DEF HandlesOK
<1>11. SessionInv(t)
  BY <1>1, <1>6, <1>8, <1>9, <1>10 DEF SessionInv
<1> QED BY <1>11 DEF t

(* chunk_sent keeps the invariant when it names the peer the dispatch was for   *)
(* (the debug assertion of chunk_sent); a handle not in flight changes nothing. *)
LEMMA ChunkSentInv ==
  ASSUME NEW s, SessionInv(s), NEW peer \in Peers, NEW handle, NEW ok \in BOOLEAN,
         \A d \in s.in_flight : d.handle = handle => d.peer = peer
  PROVE  SessionInv(ChunkSent(s, peer, handle, ok))
<1> DEFINE resolved == {d \in s.in_flight : d.handle = handle}
           idx == (CHOOSE d \in resolved : TRUE).chunk_id
           t == ChunkSent(s, peer, handle, ok)
           p == IF ok THEN RecordSent(s.planner, peer, idx)
                ELSE RefundAllocations(CancelInFlight(s.planner, peer, {idx}), {idx})
           rest == s.in_flight \ resolved
<1>0. /\ SessionOK(s) /\ PlannerInv(s.planner) /\ MarksMatch(s) /\ HandlesOK(s)
      /\ PlannerOK(s.planner) /\ PlannerShape(s.planner) /\ SessionShape(s)
  BY DEF SessionInv, SessionOK, PlannerOK
<1>1. CASE resolved = {}
  BY <1>1 DEF ChunkSent
<1>2. CASE resolved # {}
  <2>1. PICK d \in resolved : d = CHOOSE x \in resolved : TRUE
    BY <1>2
  <2>2. /\ resolved = {d} /\ idx = d.chunk_id /\ d.peer = peer
        /\ d \in s.in_flight /\ idx \in Shards
    BY <1>0, <2>1 DEF HandlesOK, SessionOK, ChunkDispatch
  <2>3. idx \in s.planner.in_flight[peer]
    BY <1>0, <2>2 DEF MarksMatch
  <2>4. t = [s EXCEPT !.in_flight = rest, !.planner = p]
    BY <1>2 DEF ChunkSent
  <2> HIDE DEF idx
  <2>5. PlannerInv(p)
    BY <1>0, <2>3, RecordSentInv, FailedSendInv
  <2>6. p.in_flight = [s.planner.in_flight EXCEPT ![peer] = @ \ {idx}]
    <3> DEFINE marks == [s.planner.in_flight EXCEPT ![peer] = @ \ {idx}]
               c == CancelInFlight(s.planner, peer, {idx})
    <3>1. c = [s.planner EXCEPT !.in_flight = marks]
      BY DEF CancelInFlight
    <3>2. PlannerShape(c) /\ c.in_flight = marks
      <4> HIDE DEF marks, c
      <4> QED BY <1>0, <3>1 DEF PlannerShape
    <3>3. RecordSent(s.planner, peer, idx).in_flight = marks
      <4> DEFINE r == RecordSent(s.planner, peer, idx)
                 hv == [s.planner.havelist EXCEPT ![peer] = @ \cup {idx}]
                 sc == [s.planner.sent_count EXCEPT ![idx] = @ + 1]
      <4>1. r = [s.planner EXCEPT !.in_flight = marks, !.havelist = hv, !.sent_count = sc]
        BY DEF RecordSent
      <4> HIDE DEF r, hv, sc, marks
      <4>2. r.in_flight = marks
        BY <1>0, <4>1 DEF PlannerShape
      <4> QED BY <4>2 DEF r
    <3>4. RefundAllocations(c, {idx}).in_flight = marks
      <4> HIDE DEF c, marks
      <4> QED BY <3>2, RefundMarks
    <3> HIDE DEF marks
    <3>5. p.in_flight = marks
      BY <3>3, <3>4
    <3> QED BY <3>5 DEF marks
  <2> HIDE DEF p, t, rest, resolved
  <2>7. t = [state |-> s.state, decodable |-> s.decodable, chunks |-> s.chunks,
             attached_peers |-> s.attached_peers, in_flight |-> rest,
             next_handle |-> s.next_handle,
             last_routing_emitted_count |-> s.last_routing_emitted_count,
             planner |-> p]
    BY <1>0, <2>4 DEF SessionShape
  <2>8. rest = s.in_flight \ {d}
    BY <2>2 DEF rest
  <2>9. SessionOK(t)
    BY <1>0, <2>5, <2>7, <2>8 DEF SessionOK, SessionShape, PlannerInv
  <2>10. MarksMatch(t)
    <3>1. s.planner.in_flight \in [Peers -> SUBSET Shards]
      BY <1>0 DEF PlannerOK
    <3>2. ASSUME NEW q \in Peers, NEW i \in Shards
          PROVE  i \in p.in_flight[q] <=> \E e \in rest : e.peer = q /\ e.chunk_id = i
      <4>1. i \in p.in_flight[q] <=> i \in s.planner.in_flight[q] /\ ~(q = peer /\ i = idx)
        BY <2>6, <3>1
      <4>2. i \in s.planner.in_flight[q]
              <=> \E e \in s.in_flight : e.peer = q /\ e.chunk_id = i
        BY <1>0 DEF MarksMatch
      <4>3. \A e \in s.in_flight : e = d <=> e.peer = peer /\ e.chunk_id = idx
        BY <1>0, <2>2 DEF MarksMatch
      <4> QED BY <2>8, <4>1, <4>2, <4>3
    <3>3. \A x, y \in rest : x.peer = y.peer /\ x.chunk_id = y.chunk_id => x = y
      BY <1>0, <2>8 DEF MarksMatch
    <3>4. t.planner = p /\ t.in_flight = rest
      BY <2>7
    <3> QED BY <3>2, <3>3, <3>4 DEF MarksMatch
  <2>11. HandlesOK(t)
    BY <1>0, <2>7, <2>8 DEF HandlesOK
  <2>12. SessionInv(t)
    BY <2>5, <2>7, <2>9, <2>10, <2>11 DEF SessionInv
  <2> QED BY <2>12 DEF t
<1> QED BY <1>1, <1>2
=============================================================================
