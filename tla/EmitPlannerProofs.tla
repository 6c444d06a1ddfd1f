-------------------------- MODULE EmitPlannerProofs --------------------------
(***************************************************************************)
(* What each operation of the emit planner preserves, for every set of     *)
(* peers, number of shards, multiplier and tie-break.                      *)
(***************************************************************************)
EXTENDS EmitPlanner, FiniteSetTheorems, TLAPS

(* Adding one copy of each element of a set to a bag (BinaryHeap::push). *)
LEMMA PushAll ==
  ASSUME NEW B, IsABag(B), NEW S
  PROVE  /\ IsABag(B (+) SetToBag(S))
         /\ BagToSet(B (+) SetToBag(S)) = BagToSet(B) \cup S
<1> DEFINE R == B (+) SetToBag(S)
<1>1. DOMAIN R = DOMAIN B \cup S
  BY DEF (+), SetToBag
<1>2. ASSUME NEW e \in DOMAIN R PROVE R[e] \in Nat /\ R[e] > 0
  BY <1>1, <1>2 DEF (+), SetToBag, IsABag
<1>3. R = [e \in DOMAIN R |-> R[e]]
  BY DEF (+)
<1> QED BY <1>1, <1>2, <1>3 DEF IsABag, BagToSet

(* Taking one copy of each element of a set out of a bag (BinaryHeap::pop): *)
(* nothing else leaves the bag.                                             *)
LEMMA PopAll ==
  ASSUME NEW B, IsABag(B), NEW S
  PROVE  /\ IsABag(B (-) SetToBag(S))
         /\ BagToSet(B (-) SetToBag(S)) \subseteq BagToSet(B)
         /\ BagToSet(B) \ S \subseteq BagToSet(B (-) SetToBag(S))
<1> DEFINE C == [e \in DOMAIN B |-> IF e \in DOMAIN SetToBag(S)
                                    THEN B[e] - SetToBag(S)[e] ELSE B[e]]
           R == [e \in {d \in DOMAIN C : C[d] > 0} |-> C[e]]
<1>1. B (-) SetToBag(S) = R
  BY DEF (-)
<1>2. ASSUME NEW e \in DOMAIN B PROVE C[e] \in Int /\ (e \notin S => C[e] = B[e] /\ B[e] > 0)
  BY <1>2 DEF SetToBag, IsABag
<1>3. IsABag(R)
  BY <1>2 DEF IsABag
<1>4. DOMAIN R \subseteq DOMAIN B
  OBVIOUS
<1>5. DOMAIN B \ S \subseteq DOMAIN R
  BY <1>2
<1> QED BY <1>1, <1>3, <1>4, <1>5 DEF BagToSet

(* The pop loop of allocate stops at one entry at most: EmitEntry::cmp is a *)
(* strict order.                                                            *)
LEMMA ChosenUnique ==
  ASSUME NEW p, PlannerOK(p), NEW peer \in Peers,
         NEW e \in Chosen(p, peer), NEW f \in Chosen(p, peer)
  PROVE  e = f
<1>1. e \in EmitEntry /\ f \in EmitEntry
  BY DEF Chosen, Candidates, PlannerOK
<1>2. p.fib[e.idx] \in Nat /\ p.fib[f.idx] \in Nat
  BY <1>1 DEF PlannerOK, EmitEntry
<1>3. e = f \/ (Precedes(p, e, f) /\ Precedes(p, f, e))
  BY DEF Chosen
<1>4. ~(Precedes(p, e, f) /\ Precedes(p, f, e))
  BY <1>1, <1>2 DEF Precedes, EmitEntry, Shards
<1> QED BY <1>3, <1>4

(* allocate returns nothing, or one shard whose live entry passed every test. *)
LEMMA ChosenCases ==
  ASSUME NEW p, PlannerOK(p), NEW peer \in Peers
  PROVE  \/ Chosen(p, peer) = {} /\ AllocatedShards(p, peer) = {}
         \/ \E i \in Shards :
              /\ Chosen(p, peer) = {Entry(p.allocation[i], i)}
              /\ AllocatedShards(p, peer) = {i}
              /\ UnderCap(p, p.allocation[i])
              /\ i \notin p.havelist[peer] /\ i \notin p.in_flight[peer]
<1>1. CASE Chosen(p, peer) = {}
  BY <1>1 DEF AllocatedShards
<1>2. CASE Chosen(p, peer) # {}
  <2>1. PICK e \in Chosen(p, peer) : TRUE
    BY <1>2
  <2>2. Chosen(p, peer) = {e}
    BY <2>1, ChosenUnique
  <2>3. e \in EmitEntry /\ Live(p, e) /\ UnderCap(p, e.allocation)
        /\ e.idx \notin p.havelist[peer] /\ e.idx \notin p.in_flight[peer]
    BY <2>1 DEF Chosen, Candidates, PlannerOK
  <2>4. e.idx \in Shards /\ e = Entry(p.allocation[e.idx], e.idx)
    BY <2>3 DEF EmitEntry, Entry, Live
  <2>5. AllocatedShards(p, peer) = {e.idx}
    BY <2>2 DEF AllocatedShards
  <2> QED BY <2>2, <2>3, <2>4, <2>5 DEF Live
<1> QED BY <1>1, <1>2

(* allocate's heap after the pops: a bag, of entries it had before, without *)
(* stale entries only.                                                      *)
LEMMA PoppedHeap ==
  ASSUME NEW p, PlannerOK(p), NEW peer \in Peers
  PROVE  /\ IsABag(WithoutPoppedStale(p, peer))
         /\ BagToSet(WithoutPoppedStale(p, peer)) \subseteq BagToSet(p.heap)
         /\ \A e \in BagToSet(p.heap) :
              Live(p, e) => e \in BagToSet(WithoutPoppedStale(p, peer))
<1> DEFINE D == {x \in BagToSet(p.heap) : Live(p, x) \/ x \notin Popped(p, peer)}
<1>1. WithoutPoppedStale(p, peer) = [e \in D |-> p.heap[e]]
  BY DEF WithoutPoppedStale
<1>2. \A e \in D : p.heap[e] \in {n \in Nat : n > 0}
  BY DEF PlannerOK, IsABag, BagToSet
<1> QED BY <1>1, <1>2 DEF IsABag, BagToSet

-----------------------------------------------------------------------------
(* Peers are finite, so sends in flight can be counted. *)
LEMMA InFlightCount ==
  ASSUME NEW p, NEW i
  PROVE  /\ IsFiniteSet(InFlightTo(p, i))
         /\ Cardinality(InFlightTo(p, i)) \in Nat
<1>1. InFlightTo(p, i) \in SUBSET Peers
  BY DEF InFlightTo
<1>2. IsFiniteSet(InFlightTo(p, i))
  BY <1>1, PeersAssumption, FS_Subset
<1> QED BY <1>2, FS_CardinalityType

(* A planner starts out with its invariant. *)
LEMMA NewPlannerInv ==
  ASSUME NEW mode \in PlannerMode, NEW fib \in [Shards -> Nat]
  PROVE  PlannerInv(NewPlanner(mode, fib))
<1> DEFINE p == NewPlanner(mode, fib)
<1>1. PlannerOK(p)
  BY DEF PlannerOK, PlannerShape, NewPlanner, SetToBag, IsABag, BagToSet, EmitEntry, Entry
<1>2. HeapComplete(p)
  BY DEF HeapComplete, NewPlanner, SetToBag, BagToSet, Entry
<1>3. ASSUME NEW i \in Shards
      PROVE  p.sent_count[i] + Cardinality(InFlightTo(p, i)) <= p.allocation[i]
  <2>1. InFlightTo(p, i) = {}
    BY DEF InFlightTo, NewPlanner
  <2>2. p.sent_count[i] = 0 /\ p.allocation[i] = 0
    BY DEF NewPlanner
  <2> QED BY <2>1, <2>2, FS_EmptySet
<1>4. CapRespected(p)
  BY ForwardMultiplierAssumption DEF CapRespected, NewPlanner
<1> QED BY <1>1, <1>2, <1>3, <1>4 DEF PlannerInv, AllocationCovers

(* allocate keeps the planner's invariant. *)
LEMMA AllocateInv ==
  ASSUME NEW p, PlannerInv(p), NEW peer \in Peers
  PROVE  PlannerInv(Allocate(p, peer))
<1> DEFINE a == Allocate(p, peer)
           chosen == Chosen(p, peer)
           kept == WithoutPoppedStale(p, peer) (-) SetToBag(chosen)
           pushed == {Entry(e.allocation + 1, e.idx) : e \in chosen}
<1>0. PlannerOK(p) /\ HeapComplete(p) /\ AllocationCovers(p) /\ CapRespected(p)
  BY DEF PlannerInv
<1>1. /\ a.mode = p.mode /\ a.fib = p.fib /\ a.sent_count = p.sent_count
      /\ a.havelist = p.havelist
      /\ a.heap = kept (+) SetToBag(pushed)
      /\ a.allocation = [i \in Shards |-> IF i \in AllocatedShards(p, peer)
                                          THEN p.allocation[i] + 1 ELSE p.allocation[i]]
      /\ a.in_flight = [p.in_flight EXCEPT ![peer] = @ \cup AllocatedShards(p, peer)]
      /\ PlannerShape(a)
  <2> DEFINE heap == kept (+) SetToBag(pushed)
             allocation == [i \in Shards |-> IF i \in AllocatedShards(p, peer)
                                             THEN p.allocation[i] + 1
                                             ELSE p.allocation[i]]
             in_flight == [p.in_flight EXCEPT ![peer] = @ \cup AllocatedShards(p, peer)]
  <2>1. a = [p EXCEPT !.heap = heap, !.allocation = allocation, !.in_flight = in_flight]
    BY DEF Allocate
  <2>2. PlannerShape(p)
    BY <1>0 DEF PlannerOK
  <2> HIDE DEF heap, allocation, in_flight, a
  <2>3. a = [mode |-> p.mode, fib |-> p.fib, heap |-> heap,
             allocation |-> allocation, sent_count |-> p.sent_count,
             in_flight |-> in_flight, havelist |-> p.havelist]
    BY <2>1, <2>2 DEF PlannerShape
  <2> QED BY <2>3 DEF heap, allocation, in_flight, PlannerShape
<1>2. AllocatedShards(p, peer) \subseteq Shards /\ chosen \subseteq EmitEntry
  BY <1>0, ChosenCases DEF PlannerOK, EmitEntry, Entry
<1>3. /\ IsABag(kept) /\ BagToSet(kept) \subseteq BagToSet(p.heap)
      /\ \A e \in BagToSet(p.heap) \ chosen : Live(p, e) => e \in BagToSet(kept)
  BY <1>0, PoppedHeap, PopAll
<1>4. IsABag(a.heap) /\ BagToSet(a.heap) = BagToSet(kept) \cup pushed
  BY <1>1, <1>3, PushAll
<1>5. PlannerOK(a)
  <2>1. pushed \subseteq EmitEntry
    BY <1>2 DEF EmitEntry, Entry
  <2>2. BagToSet(a.heap) \subseteq EmitEntry
    BY <2>1, <1>0, <1>3, <1>4 DEF PlannerOK
  <2>3. a.allocation \in [Shards -> Nat]
    BY <1>0, <1>1 DEF PlannerOK
  <2>4. a.in_flight \in [Peers -> SUBSET Shards]
    BY <1>0, <1>1, <1>2 DEF PlannerOK
  <2> QED BY <1>0, <1>1, <1>4, <2>2, <2>3, <2>4 DEF PlannerOK
<1>6. HeapComplete(a)
  <2> SUFFICES ASSUME NEW i \in Shards
               PROVE  Entry(a.allocation[i], i) \in BagToSet(a.heap)
    BY DEF HeapComplete
  <2>1. CASE i \in AllocatedShards(p, peer)
    <3>1. PICK e \in chosen : e.idx = i
      BY <2>1 DEF AllocatedShards
    <3>2. e.allocation = p.allocation[i]
      BY <3>1 DEF Chosen, Candidates, Live
    <3> QED BY <1>1, <1>4, <2>1, <3>1, <3>2
  <2>2. CASE i \notin AllocatedShards(p, peer)
    <3> DEFINE live == Entry(p.allocation[i], i)
    <3>1. live \in BagToSet(p.heap) /\ Live(p, live) /\ live.idx = i
      BY <1>0 DEF HeapComplete, Live, Entry
    <3>2. live \notin chosen
      BY <2>2, <3>1 DEF AllocatedShards
    <3>3. a.allocation[i] = p.allocation[i]
      BY <1>1, <2>2
    <3> QED BY <1>3, <1>4, <3>1, <3>2, <3>3
  <2> QED BY <2>1, <2>2
<1>7. AllocationCovers(a)
  <2> SUFFICES ASSUME NEW i \in Shards
               PROVE  a.sent_count[i] + Cardinality(InFlightTo(a, i)) <= a.allocation[i]
    BY DEF AllocationCovers
  <2>1. p.sent_count[i] + Cardinality(InFlightTo(p, i)) <= p.allocation[i]
        /\ p.sent_count[i] \in Nat /\ p.allocation[i] \in Nat
    BY <1>0 DEF AllocationCovers, PlannerOK
  <2>2. CASE i \in AllocatedShards(p, peer)
    <3>1. InFlightTo(a, i) = InFlightTo(p, i) \cup {peer}
      BY <1>0, <1>1, <2>2 DEF InFlightTo, PlannerOK
    <3>2. Cardinality(InFlightTo(a, i)) <= Cardinality(InFlightTo(p, i)) + 1
      BY <3>1, InFlightCount, FS_AddElement
    <3>3. a.allocation[i] = p.allocation[i] + 1 /\ a.sent_count[i] = p.sent_count[i]
      BY <1>1, <2>2
    <3> QED BY <2>1, <3>2, <3>3, InFlightCount
  <2>3. CASE i \notin AllocatedShards(p, peer)
    <3>1. InFlightTo(a, i) = InFlightTo(p, i)
      BY <1>0, <1>1, <2>3 DEF InFlightTo, PlannerOK
    <3>2. a.allocation[i] = p.allocation[i] /\ a.sent_count[i] = p.sent_count[i]
      BY <1>1, <2>3
    <3> QED BY <2>1, <3>1, <3>2
  <2> QED BY <2>2, <2>3
<1>8. CapRespected(a)
  <2> SUFFICES ASSUME p.mode = "relay", NEW i \in Shards
               PROVE  a.allocation[i] <= ForwardMultiplier
    BY <1>1 DEF CapRespected
  <2>1. p.allocation[i] \in Nat /\ p.allocation[i] <= ForwardMultiplier
    BY <1>0 DEF CapRespected, PlannerOK
  <2>2. i \in AllocatedShards(p, peer) => p.allocation[i] < ForwardMultiplier
    BY <1>0, ChosenCases DEF UnderCap
  <2> QED BY <1>1, <2>1, <2>2, ForwardMultiplierAssumption
<1> QED BY <1>5, <1>6, <1>7, <1>8 DEF PlannerInv

(* Dropping in-flight marks keeps the invariant: the allocation they held is *)
(* spent (cancel_in_flight in poll_chunks).                                  *)
LEMMA CancelInFlightInv ==
  ASSUME NEW p, PlannerInv(p), NEW peer \in Peers, NEW idxs
  PROVE  PlannerInv(CancelInFlight(p, peer, idxs))
<1> DEFINE c == CancelInFlight(p, peer, idxs)
<1>0. PlannerOK(p) /\ HeapComplete(p) /\ AllocationCovers(p) /\ CapRespected(p)
  BY DEF PlannerInv
<1>1. c = [mode |-> p.mode, fib |-> p.fib, heap |-> p.heap,
           allocation |-> p.allocation, sent_count |-> p.sent_count,
           in_flight |-> [p.in_flight EXCEPT ![peer] = @ \ idxs],
           havelist |-> p.havelist]
  <2>1. PlannerShape(p)
    BY <1>0 DEF PlannerOK
  <2> QED BY <2>1 DEF CancelInFlight, PlannerShape
<1>2. PlannerOK(c)
  BY <1>0, <1>1 DEF PlannerOK, PlannerShape
<1>3. HeapComplete(c) /\ CapRespected(c)
  BY <1>0, <1>1 DEF HeapComplete, CapRespected
<1>4. ASSUME NEW i \in Shards
      PROVE  c.sent_count[i] + Cardinality(InFlightTo(c, i)) <= c.allocation[i]
  <2>1. InFlightTo(c, i) \in SUBSET InFlightTo(p, i)
    BY <1>0, <1>1 DEF InFlightTo, PlannerOK
  <2>2. Cardinality(InFlightTo(c, i)) <= Cardinality(InFlightTo(p, i))
    BY <2>1, InFlightCount, FS_Subset
  <2>3. /\ p.sent_count[i] + Cardinality(InFlightTo(p, i)) <= p.allocation[i]
        /\ p.sent_count[i] \in Nat /\ p.allocation[i] \in Nat
    BY <1>0 DEF AllocationCovers, PlannerOK
  <2>4. c.sent_count[i] = p.sent_count[i] /\ c.allocation[i] = p.allocation[i]
    BY <1>1
  <2> QED BY <2>2, <2>3, <2>4, InFlightCount
<1> QED BY <1>2, <1>3, <1>4 DEF PlannerInv, AllocationCovers

(* record_sent keeps the invariant when the shard was in flight to the peer. *)
LEMMA RecordSentInv ==
  ASSUME NEW p, PlannerInv(p), NEW peer \in Peers, NEW idx \in p.in_flight[peer]
  PROVE  PlannerInv(RecordSent(p, peer, idx))
<1> DEFINE c == RecordSent(p, peer, idx)
<1>0. PlannerOK(p) /\ HeapComplete(p) /\ AllocationCovers(p) /\ CapRespected(p)
  BY DEF PlannerInv
<1>1. c = [mode |-> p.mode, fib |-> p.fib, heap |-> p.heap,
           allocation |-> p.allocation,
           sent_count |-> [p.sent_count EXCEPT ![idx] = @ + 1],
           in_flight |-> [p.in_flight EXCEPT ![peer] = @ \ {idx}],
           havelist |-> [p.havelist EXCEPT ![peer] = @ \cup {idx}]]
  <2>1. PlannerShape(p)
    BY <1>0 DEF PlannerOK
  <2> DEFINE sent_count == [p.sent_count EXCEPT ![idx] = @ + 1]
             in_flight == [p.in_flight EXCEPT ![peer] = @ \ {idx}]
             havelist == [p.havelist EXCEPT ![peer] = @ \cup {idx}]
  <2>2. c = [p EXCEPT !.in_flight = in_flight, !.havelist = havelist,
                      !.sent_count = sent_count]
    BY DEF RecordSent
  <2> HIDE DEF sent_count, in_flight, havelist, c
  <2>3. c = [mode |-> p.mode, fib |-> p.fib, heap |-> p.heap,
             allocation |-> p.allocation, sent_count |-> sent_count,
             in_flight |-> in_flight, havelist |-> havelist]
    BY <2>1, <2>2 DEF PlannerShape
  <2> QED BY <2>3 DEF sent_count, in_flight, havelist
<1>2. idx \in Shards
  BY <1>0 DEF PlannerOK
<1>3. PlannerOK(c)
  BY <1>0, <1>1, <1>2 DEF PlannerOK, PlannerShape
<1>4. HeapComplete(c) /\ CapRespected(c)
  BY <1>0, <1>1 DEF HeapComplete, CapRespected
<1>5. ASSUME NEW i \in Shards
      PROVE  c.sent_count[i] + Cardinality(InFlightTo(c, i)) <= c.allocation[i]
  <2>1. /\ p.sent_count[i] + Cardinality(InFlightTo(p, i)) <= p.allocation[i]
        /\ p.sent_count[i] \in Nat /\ p.allocation[i] \in Nat
        /\ c.allocation[i] = p.allocation[i]
    BY <1>0, <1>1 DEF AllocationCovers, PlannerOK
  <2>2. CASE i = idx
    <3>1. InFlightTo(c, i) = InFlightTo(p, i) \ {peer} /\ peer \in InFlightTo(p, i)
      BY <1>0, <1>1, <2>2 DEF InFlightTo, PlannerOK
    <3>2. Cardinality(InFlightTo(c, i)) = Cardinality(InFlightTo(p, i)) - 1
      BY <3>1, InFlightCount, FS_RemoveElement
    <3>3. c.sent_count[i] = p.sent_count[i] + 1
      BY <1>0, <1>1, <2>2 DEF PlannerOK
    <3> QED BY <2>1, <3>2, <3>3, InFlightCount
  <2>3. CASE i # idx
    <3>1. InFlightTo(c, i) = InFlightTo(p, i)
      BY <1>0, <1>1, <2>3 DEF InFlightTo, PlannerOK
    <3>2. c.sent_count[i] = p.sent_count[i]
      BY <1>0, <1>1, <2>3 DEF PlannerOK
    <3> QED BY <2>1, <3>1, <3>2
  <2> QED BY <2>2, <2>3
<1> QED BY <1>3, <1>4, <1>5 DEF PlannerInv, AllocationCovers

(* Changing what a peer is believed to hold keeps the invariant. *)
LEMMA SetPeerHavelistInv ==
  ASSUME NEW p, PlannerInv(p), NEW peer \in Peers, NEW b \in SUBSET Shards
  PROVE  PlannerInv(SetPeerHavelist(p, peer, b))
<1> DEFINE c == SetPeerHavelist(p, peer, b)
<1>0. PlannerOK(p) /\ HeapComplete(p) /\ AllocationCovers(p) /\ CapRespected(p)
  BY DEF PlannerInv
<1>1. c = [mode |-> p.mode, fib |-> p.fib, heap |-> p.heap,
           allocation |-> p.allocation, sent_count |-> p.sent_count,
           in_flight |-> p.in_flight,
           havelist |-> [p.havelist EXCEPT ![peer] = b]]
  <2>1. PlannerShape(p)
    BY <1>0 DEF PlannerOK
  <2> QED BY <2>1 DEF SetPeerHavelist, PlannerShape
<1>2. PlannerOK(c)
  BY <1>0, <1>1 DEF PlannerOK, PlannerShape
<1>3. HeapComplete(c) /\ CapRespected(c)
  BY <1>0, <1>1 DEF HeapComplete, CapRespected
<1>4. ASSUME NEW i \in Shards PROVE InFlightTo(c, i) = InFlightTo(p, i)
  BY <1>1 DEF InFlightTo
<1>5. AllocationCovers(c)
  BY <1>0, <1>1, <1>4 DEF AllocationCovers
<1> QED BY <1>2, <1>3, <1>5 DEF PlannerInv

(* Giving back a set of sends in flight to a peer keeps the invariant: q is the  *)
(* planner with their marks cleared, and refund_allocation runs on each shard.   *)
(* This is a failed send (one shard) and a departure (all the peer's shards).    *)
LEMMA ReleaseInv ==
  ASSUME NEW p, PlannerInv(p), NEW peer \in Peers, NEW S \in SUBSET p.in_flight[peer],
         NEW q, PlannerOK(q),
         q.mode = p.mode, q.heap = p.heap, q.allocation = p.allocation,
         q.sent_count = p.sent_count,
         q.in_flight = [p.in_flight EXCEPT ![peer] = @ \ S]
  PROVE  /\ PlannerInv(RefundAllocations(q, S))
         /\ \A i \in S : p.allocation[i] > 0
<1> DEFINE c == RefundAllocations(q, S)
           refunded == {i \in S : q.allocation[i] > 0}
           pushed == {Entry(q.allocation[i] - 1, i) : i \in refunded}
<1>0. PlannerOK(p) /\ HeapComplete(p) /\ AllocationCovers(p) /\ CapRespected(p)
  BY DEF PlannerInv
<1>1. S \subseteq Shards
  BY <1>0 DEF PlannerOK
<1>2. ASSUME NEW i \in Shards
      PROVE  /\ p.sent_count[i] + Cardinality(InFlightTo(p, i)) <= p.allocation[i]
             /\ p.sent_count[i] \in Nat /\ p.allocation[i] \in Nat
  BY <1>0 DEF AllocationCovers, PlannerOK
<1>3. ASSUME NEW i \in S
      PROVE  /\ Cardinality(InFlightTo(p, i)) >= 1
             /\ Cardinality(InFlightTo(q, i)) = Cardinality(InFlightTo(p, i)) - 1
  <2>1. InFlightTo(q, i) = InFlightTo(p, i) \ {peer} /\ peer \in InFlightTo(p, i)
    BY <1>0 DEF InFlightTo, PlannerOK
  <2>2. Cardinality(InFlightTo(q, i)) = Cardinality(InFlightTo(p, i)) - 1
    BY <2>1, InFlightCount, FS_RemoveElement
  <2> QED BY <2>2, InFlightCount
<1>4. \A i \in S : p.allocation[i] > 0
  BY <1>1, <1>2, <1>3, InFlightCount
<1>5. refunded = S
  BY <1>4
<1>6. c = [mode |-> q.mode, fib |-> q.fib, heap |-> q.heap (+) SetToBag(pushed),
           allocation |-> [i \in Shards |-> IF i \in S THEN p.allocation[i] - 1
                                                       ELSE p.allocation[i]],
           sent_count |-> p.sent_count, in_flight |-> q.in_flight,
           havelist |-> q.havelist]
  <2> DEFINE heap == q.heap (+) SetToBag(pushed)
             allocation == [i \in Shards |-> IF i \in refunded THEN q.allocation[i] - 1
                                                               ELSE q.allocation[i]]
  <2>1. c = [q EXCEPT !.allocation = allocation, !.heap = heap]
    BY DEF RefundAllocations
  <2>2. PlannerShape(q)
    BY DEF PlannerOK
  <2>3. allocation = [i \in Shards |-> IF i \in S THEN p.allocation[i] - 1
                                                  ELSE p.allocation[i]]
    BY <1>5
  <2> HIDE DEF heap, allocation, c
  <2>4. c = [mode |-> q.mode, fib |-> q.fib, heap |-> heap, allocation |-> allocation,
             sent_count |-> q.sent_count, in_flight |-> q.in_flight,
             havelist |-> q.havelist]
    BY <2>1, <2>2 DEF PlannerShape
  <2> QED BY <2>3, <2>4 DEF heap
<1>7. /\ IsABag(c.heap) /\ BagToSet(c.heap) = BagToSet(p.heap) \cup pushed
  BY <1>0, <1>6, PushAll DEF PlannerOK
<1>8. PlannerOK(c)
  <2>1. pushed \subseteq EmitEntry
    BY <1>1, <1>2 DEF EmitEntry, Entry
  <2>2. c.allocation \in [Shards -> Nat]
    BY <1>2, <1>4, <1>6
  <2> HIDE DEF pushed
  <2> QED BY <1>0, <1>6, <1>7, <2>1, <2>2 DEF PlannerOK, PlannerShape
<1>9. HeapComplete(c)
  <2> SUFFICES ASSUME NEW i \in Shards
               PROVE  Entry(c.allocation[i], i) \in BagToSet(c.heap)
    BY DEF HeapComplete
  <2>1. CASE i \in S
    BY <1>5, <1>6, <1>7, <2>1
  <2>2. CASE i \notin S
    BY <1>0, <1>6, <1>7, <2>2 DEF HeapComplete
  <2> QED BY <2>1, <2>2
<1>10. AllocationCovers(c)
  <2> SUFFICES ASSUME NEW i \in Shards
               PROVE  c.sent_count[i] + Cardinality(InFlightTo(c, i)) <= c.allocation[i]
    BY DEF AllocationCovers
  <2>1. InFlightTo(c, i) = InFlightTo(q, i) /\ c.sent_count[i] = p.sent_count[i]
    BY <1>6 DEF InFlightTo
  <2>2. CASE i \in S
    BY <1>2, <1>3, <1>6, <2>1, <2>2, InFlightCount
  <2>3. CASE i \notin S
    <3>1. InFlightTo(q, i) = InFlightTo(p, i)
      BY <1>0, <2>3 DEF InFlightTo, PlannerOK
    <3> QED BY <1>2, <1>6, <2>1, <2>3, <3>1
  <2> QED BY <2>2, <2>3
<1>11. CapRespected(c)
  <2>1. c.mode = p.mode
    BY <1>6
  <2>2. \A i \in Shards : c.allocation[i] <= p.allocation[i] /\ c.allocation[i] \in Nat
    BY <1>2, <1>6, <1>8 DEF PlannerOK
  <2> QED BY <1>0, <1>2, <2>1, <2>2, ForwardMultiplierAssumption DEF CapRespected
<1> QED BY <1>4, <1>8, <1>9, <1>10, <1>11 DEF PlannerInv

(* chunk_sent(false): the mark is cleared and the allocation given back. *)
LEMMA FailedSendInv ==
  ASSUME NEW p, PlannerInv(p), NEW peer \in Peers, NEW idx \in p.in_flight[peer]
  PROVE  PlannerInv(RefundAllocations(CancelInFlight(p, peer, {idx}), {idx}))
<1> DEFINE q == CancelInFlight(p, peer, {idx})
<1>1. PlannerOK(q)
  BY CancelInFlightInv DEF PlannerInv
<1>2. /\ q.mode = p.mode /\ q.heap = p.heap /\ q.allocation = p.allocation
      /\ q.sent_count = p.sent_count
      /\ q.in_flight = [p.in_flight EXCEPT ![peer] = @ \ {idx}]
  BY DEF CancelInFlight, PlannerInv, PlannerOK, PlannerShape
<1> SUFFICES PlannerInv(RefundAllocations(q, {idx}))
  OBVIOUS
<1> HIDE DEF q
<1>3. {idx} \in SUBSET p.in_flight[peer]
  OBVIOUS
<1> QED BY <1>1, <1>2, <1>3, ReleaseInv

(* remove_peer keeps the invariant. *)
LEMMA RemovePeerInv ==
  ASSUME NEW p, PlannerInv(p), NEW peer \in Peers
  PROVE  PlannerInv(RemovePeer(p, peer))
<1> DEFINE q == [p EXCEPT !.in_flight = [p.in_flight EXCEPT ![peer] = {}],
                          !.havelist  = [p.havelist EXCEPT ![peer] = {}]]
<1>0. PlannerOK(p)
  BY DEF PlannerInv
<1>1. q = [mode |-> p.mode, fib |-> p.fib, heap |-> p.heap,
           allocation |-> p.allocation, sent_count |-> p.sent_count,
           in_flight |-> [p.in_flight EXCEPT ![peer] = {}],
           havelist |-> [p.havelist EXCEPT ![peer] = {}]]
  <2> DEFINE in_flight == [p.in_flight EXCEPT ![peer] = {}]
             havelist == [p.havelist EXCEPT ![peer] = {}]
  <2>1. PlannerShape(p)
    BY <1>0 DEF PlannerOK
  <2>2. q = [p EXCEPT !.in_flight = in_flight, !.havelist = havelist]
    OBVIOUS
  <2> HIDE DEF in_flight, havelist, q
  <2>3. q = [mode |-> p.mode, fib |-> p.fib, heap |-> p.heap,
             allocation |-> p.allocation, sent_count |-> p.sent_count,
             in_flight |-> in_flight, havelist |-> havelist]
    BY <2>1, <2>2 DEF PlannerShape
  <2> QED BY <2>3 DEF in_flight, havelist
<1>2. PlannerOK(q)
  <2> HIDE DEF q
  <2> QED BY <1>0, <1>1 DEF PlannerOK, PlannerShape
<1>3. q.in_flight = [p.in_flight EXCEPT ![peer] = @ \ p.in_flight[peer]]
  BY <1>0, <1>1 DEF PlannerOK
<1>4. /\ q.mode = p.mode /\ q.heap = p.heap /\ q.allocation = p.allocation
      /\ q.sent_count = p.sent_count
  BY <1>1
<1>5. RemovePeer(p, peer) = RefundAllocations(q, p.in_flight[peer])
  BY DEF RemovePeer
<1> HIDE DEF q
<1> QED BY <1>2, <1>3, <1>4, <1>5, ReleaseInv
=============================================================================
