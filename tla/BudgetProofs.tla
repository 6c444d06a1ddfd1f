---------------------------- MODULE BudgetProofs ----------------------------
(***************************************************************************)
(* A session's planner, with its lazily invalidated heap, implements       *)
(* ShardBudget, which has no heap.                                         *)
(***************************************************************************)
EXTENDS SessionProofs

(* Marks per peer, as the pairs ShardBudget keeps. *)
Pairs(f) == {o \in Peers \X Shards : o[2] \in f[o[1]]}

-----------------------------------------------------------------------------
(* One more mark is one more pair. *)
LEMMA PairsAdd ==
  ASSUME NEW f, NEW g, NEW peer \in Peers, NEW i \in Shards,
         g[peer] = f[peer] \cup {i}, \A x \in Peers \ {peer} : g[x] = f[x]
  PROVE  Pairs(g) = Pairs(f) \cup {<<peer, i>>}
BY DEF Pairs

(* A pair is present when the shard is marked. *)
LEMMA PairIff ==
  ASSUME NEW f \in [Peers -> SUBSET Shards], NEW peer \in Peers, NEW i \in Shards
  PROVE  <<peer, i>> \in Pairs(f) <=> i \in f[peer]
BY DEF Pairs

(* A shard in flight holds a unit of its allocation (AllocationCovers). *)
LEMMA MarkedIsAllocated ==
  ASSUME NEW p, PlannerInv(p), NEW peer \in Peers, NEW i \in p.in_flight[peer]
  PROVE  i \in Shards /\ p.allocation[i] \in Nat /\ p.allocation[i] > 0
<1>1. /\ i \in Shards /\ p.allocation[i] \in Nat /\ p.sent_count[i] \in Nat
  BY DEF PlannerInv, PlannerOK
<1>2. peer \in InFlightTo(p, i)
  BY DEF InFlightTo
<1>3. Cardinality(InFlightTo(p, i)) \in Nat /\ Cardinality(InFlightTo(p, i)) # 0
  BY <1>2, InFlightCount, FS_EmptySet
<1>4. p.sent_count[i] + Cardinality(InFlightTo(p, i)) <= p.allocation[i]
  BY <1>1 DEF PlannerInv, AllocationCovers
<1> QED BY <1>1, <1>3, <1>4

-----------------------------------------------------------------------------
(* Every field but the heap after each method of the planner. *)
LEMMA AllocateFields ==
  ASSUME NEW p, PlannerShape(p), NEW peer, NEW idxs
  PROVE  LET a == CancelInFlight(Allocate(p, peer), peer, idxs) IN
         /\ a.mode = p.mode /\ a.fib = p.fib /\ a.sent_count = p.sent_count
         /\ a.havelist = p.havelist
         /\ a.allocation = [i \in Shards |-> IF i \in AllocatedShards(p, peer)
                                             THEN p.allocation[i] + 1 ELSE p.allocation[i]]
<1> DEFINE fl == [p.in_flight EXCEPT ![peer] = @ \cup AllocatedShards(p, peer)]
           al == [i \in Shards |-> IF i \in AllocatedShards(p, peer)
                                   THEN p.allocation[i] + 1 ELSE p.allocation[i]]
           heap == (WithoutPoppedStale(p, peer) (-) SetToBag(Chosen(p, peer)))
                     (+) SetToBag({Entry(e.allocation + 1, e.idx) : e \in Chosen(p, peer)})
           a == Allocate(p, peer)
           marks == [a.in_flight EXCEPT ![peer] = @ \ idxs]
           c == CancelInFlight(a, peer, idxs)
<1>1. a = [p EXCEPT !.heap = heap, !.allocation = al, !.in_flight = fl]
  BY DEF Allocate
<1>2. c = [a EXCEPT !.in_flight = marks]
  BY DEF CancelInFlight
<1> HIDE DEF heap, al, fl, marks, a, c
<1>3. /\ a = [mode |-> p.mode, fib |-> p.fib, heap |-> heap, allocation |-> al,
              sent_count |-> p.sent_count, in_flight |-> fl, havelist |-> p.havelist]
  BY <1>1 DEF PlannerShape
<1>4. /\ c.mode = p.mode /\ c.fib = p.fib /\ c.sent_count = p.sent_count
      /\ c.havelist = p.havelist /\ c.allocation = al
  BY <1>2, <1>3
<1> QED BY <1>4 DEF al, a, c

(* The marks after one iteration of poll_chunks. *)
LEMMA PollMarks ==
  ASSUME NEW p, PlannerOK(p), NEW peer \in Peers, NEW idxs
  PROVE  CancelInFlight(Allocate(p, peer), peer, idxs).in_flight
           = [p.in_flight EXCEPT ![peer] = (@ \cup AllocatedShards(p, peer)) \ idxs]
<1> DEFINE a == Allocate(p, peer)
           marks == [a.in_flight EXCEPT ![peer] = @ \ idxs]
           c == CancelInFlight(a, peer, idxs)
<1>1. /\ a.in_flight = [p.in_flight EXCEPT ![peer] = @ \cup AllocatedShards(p, peer)]
      /\ PlannerShape(a)
  BY AllocateMarks DEF PlannerOK
<1>2. c = [a EXCEPT !.in_flight = marks]
  BY DEF CancelInFlight
<1> HIDE DEF a, marks, c
<1>3. c.in_flight = marks
  BY <1>1, <1>2 DEF PlannerShape
<1>4. p.in_flight \in [Peers -> SUBSET Shards]
  BY DEF PlannerOK
<1>5. c.in_flight = [p.in_flight EXCEPT ![peer] = (@ \cup AllocatedShards(p, peer)) \ idxs]
  BY <1>1, <1>3, <1>4 DEF marks
<1> QED BY <1>5 DEF c, a

(* refund_allocation of shards that hold a unit. *)
LEMMA RefundFields ==
  ASSUME NEW p, PlannerShape(p), NEW idxs, \A i \in idxs : p.allocation[i] > 0
  PROVE  LET r == RefundAllocations(p, idxs) IN
         /\ r.mode = p.mode /\ r.fib = p.fib /\ r.sent_count = p.sent_count
         /\ r.in_flight = p.in_flight /\ r.havelist = p.havelist
         /\ r.allocation = [i \in Shards |-> IF i \in idxs THEN p.allocation[i] - 1
                                                           ELSE p.allocation[i]]
<1> DEFINE refunded == {i \in idxs : p.allocation[i] > 0}
           al == [i \in Shards |-> IF i \in refunded THEN p.allocation[i] - 1
                                                     ELSE p.allocation[i]]
           heap == p.heap (+) SetToBag({Entry(p.allocation[i] - 1, i) : i \in refunded})
           r == RefundAllocations(p, idxs)
<1>1. r = [p EXCEPT !.allocation = al, !.heap = heap]
  BY DEF RefundAllocations
<1>2. al = [i \in Shards |-> IF i \in idxs THEN p.allocation[i] - 1 ELSE p.allocation[i]]
  OBVIOUS
<1> HIDE DEF al, heap, r
<1>3. /\ r.mode = p.mode /\ r.fib = p.fib /\ r.sent_count = p.sent_count
      /\ r.in_flight = p.in_flight /\ r.havelist = p.havelist /\ r.allocation = al
  BY <1>1 DEF PlannerShape
<1> QED BY <1>2, <1>3 DEF r

(* set_peer_havelist, and remove_peer for a planner whose marks are covered. *)
LEMMA HavelistFields ==
  ASSUME NEW p, PlannerShape(p), NEW peer, NEW b
  PROVE  LET r == SetPeerHavelist(p, peer, b) IN
         /\ r.mode = p.mode /\ r.fib = p.fib /\ r.sent_count = p.sent_count
         /\ r.in_flight = p.in_flight /\ r.allocation = p.allocation
         /\ r.havelist = [p.havelist EXCEPT ![peer] = b]
<1> DEFINE hv == [p.havelist EXCEPT ![peer] = b]
           r == SetPeerHavelist(p, peer, b)
<1>1. r = [p EXCEPT !.havelist = hv]
  BY DEF SetPeerHavelist
<1> HIDE DEF hv, r
<1>2. /\ r.mode = p.mode /\ r.fib = p.fib /\ r.sent_count = p.sent_count
      /\ r.in_flight = p.in_flight /\ r.allocation = p.allocation /\ r.havelist = hv
  BY <1>1 DEF PlannerShape
<1> QED BY <1>2 DEF hv, r

(* remove_peer: the units of the shards in flight to the peer come back. *)
LEMMA RemovePeerFields ==
  ASSUME NEW p, PlannerInv(p), NEW peer \in Peers
  PROVE  LET r == RemovePeer(p, peer) IN
         /\ r.mode = p.mode /\ r.fib = p.fib /\ r.sent_count = p.sent_count
         /\ r.in_flight = [p.in_flight EXCEPT ![peer] = {}]
         /\ r.havelist = [p.havelist EXCEPT ![peer] = {}]
         /\ r.allocation = [i \in Shards |-> IF i \in p.in_flight[peer]
                                             THEN p.allocation[i] - 1 ELSE p.allocation[i]]
<1> DEFINE fl == [p.in_flight EXCEPT ![peer] = {}]
           hv == [p.havelist EXCEPT ![peer] = {}]
           q == [p EXCEPT !.in_flight = fl, !.havelist = hv]
<1>1. RemovePeer(p, peer) = RefundAllocations(q, p.in_flight[peer])
  BY DEF RemovePeer
<1>2. PlannerShape(p)
  BY DEF PlannerInv, PlannerOK
<1> HIDE DEF fl, hv
<1>3. /\ PlannerShape(q) /\ q.mode = p.mode /\ q.fib = p.fib /\ q.sent_count = p.sent_count
      /\ q.in_flight = fl /\ q.havelist = hv /\ q.allocation = p.allocation
  <2>1. q = [mode |-> p.mode, fib |-> p.fib, heap |-> p.heap, allocation |-> p.allocation,
             sent_count |-> p.sent_count, in_flight |-> fl, havelist |-> hv]
    <3>1. q = [p EXCEPT !.in_flight = fl, !.havelist = hv]
      OBVIOUS
    <3> HIDE DEF q
    <3> QED BY <1>2, <3>1 DEF PlannerShape
  <2> HIDE DEF q
  <2> QED BY <2>1 DEF PlannerShape
<1>4. \A i \in p.in_flight[peer] : p.allocation[i] > 0
  BY MarkedIsAllocated
<1> DEFINE r == RefundAllocations(q, p.in_flight[peer])
<1> HIDE DEF q
<1>5. \A i \in p.in_flight[peer] : q.allocation[i] > 0
  BY <1>3, <1>4
<1>6. /\ r.mode = p.mode /\ r.fib = p.fib /\ r.sent_count = p.sent_count
      /\ r.in_flight = fl /\ r.havelist = hv
      /\ r.allocation = [i \in Shards |-> IF i \in p.in_flight[peer]
                                          THEN p.allocation[i] - 1 ELSE p.allocation[i]]
  BY <1>3, <1>5, RefundFields
<1>7. r = RemovePeer(p, peer)
  BY <1>1
<1> HIDE DEF r
<1> QED BY <1>6, <1>7 DEF fl, hv

(* A failed send: the mark goes and its unit comes back. *)
LEMMA FailedSendFields ==
  ASSUME NEW p, PlannerInv(p), NEW peer \in Peers, NEW idx \in p.in_flight[peer]
  PROVE  LET r == RefundAllocations(CancelInFlight(p, peer, {idx}), {idx}) IN
         /\ r.mode = p.mode /\ r.fib = p.fib /\ r.sent_count = p.sent_count
         /\ r.in_flight = [p.in_flight EXCEPT ![peer] = @ \ {idx}]
         /\ r.havelist = p.havelist
         /\ r.allocation = [p.allocation EXCEPT ![idx] = @ - 1]
<1> DEFINE fl == [p.in_flight EXCEPT ![peer] = @ \ {idx}]
           q == CancelInFlight(p, peer, {idx})
<1>1. PlannerShape(p) /\ p.allocation \in [Shards -> Nat]
  BY DEF PlannerInv, PlannerOK
<1>2. q = [p EXCEPT !.in_flight = fl]
  BY DEF CancelInFlight
<1> HIDE DEF fl, q
<1>3. /\ PlannerShape(q) /\ q.mode = p.mode /\ q.fib = p.fib /\ q.sent_count = p.sent_count
      /\ q.in_flight = fl /\ q.havelist = p.havelist /\ q.allocation = p.allocation
  BY <1>1, <1>2 DEF PlannerShape
<1>4. \A i \in {idx} : q.allocation[i] > 0
  BY <1>3, MarkedIsAllocated
<1> DEFINE r == RefundAllocations(q, {idx})
<1>5. /\ r.mode = p.mode /\ r.fib = p.fib /\ r.sent_count = p.sent_count
      /\ r.in_flight = fl /\ r.havelist = p.havelist
      /\ r.allocation = [i \in Shards |-> IF i \in {idx} THEN p.allocation[i] - 1
                                                         ELSE p.allocation[i]]
  BY <1>3, <1>4, RefundFields
<1>6. [i \in Shards |-> IF i \in {idx} THEN p.allocation[i] - 1 ELSE p.allocation[i]]
        = [p.allocation EXCEPT ![idx] = @ - 1]
  BY <1>1
<1> HIDE DEF r
<1>7. r.allocation = [p.allocation EXCEPT ![idx] = @ - 1]
  BY <1>5, <1>6
<1> QED BY <1>5, <1>7 DEF fl, q, r

-----------------------------------------------------------------------------
(* A call that leaves the counters and marks alone is a stutter. *)
LEMMA BudgetUntouched ==
  ASSUME session'.planner.mode = session.planner.mode,
         session'.planner.fib = session.planner.fib,
         session'.planner.allocation = session.planner.allocation,
         session'.planner.sent_count = session.planner.sent_count,
         session'.planner.in_flight = session.planner.in_flight,
         session'.planner.havelist = session.planner.havelist
  PROVE  UNCHANGED Budget!budgetVars
BY DEF Budget!budgetVars

(* The entry allocate stops at is the shard ShardBudget would offer: every     *)
(* shard the peer may be offered has a live entry, and the heap's order is the *)
(* order of the budget.                                                        *)
LEMMA ChosenIsLeast ==
  ASSUME PlannerInv(session.planner), NEW peer \in Peers, NEW i \in Shards,
         Chosen(session.planner, peer) = {Entry(session.planner.allocation[i], i)}
  PROVE  Budget!Least(peer, i)
<1> DEFINE p == session.planner
           E(j) == Entry(p.allocation[j], j)
<1>1. /\ p.allocation \in [Shards -> Nat] /\ HeapComplete(p)
      /\ p.in_flight \in [Peers -> SUBSET Shards] /\ p.havelist \in [Peers -> SUBSET Shards]
  BY DEF PlannerInv, PlannerOK
<1>2. ASSUME NEW j \in Shards
      PROVE  E(j) \in Candidates(p, peer) <=> Budget!Eligible(peer, j)
  <2>1. E(j) \in BagToSet(p.heap) /\ Live(p, E(j)) /\ E(j).idx = j
        /\ E(j).allocation = p.allocation[j]
    BY <1>1 DEF HeapComplete, Live, Entry
  <2>2. <<peer, j>> \in Pairs(p.in_flight) \cup Pairs(p.havelist)
          <=> j \in p.in_flight[peer] \/ j \in p.havelist[peer]
    BY <1>1, PairIff
  <2> HIDE DEF E
  <2> QED BY <2>1, <2>2 DEF Candidates, UnderCap, Budget!Eligible, Pairs
<1>3. /\ E(i) \in Candidates(p, peer)
      /\ \A f \in Candidates(p, peer) : f = E(i) \/ Precedes(p, E(i), f)
  BY DEF Chosen
<1>4. ASSUME NEW j \in Shards, Budget!Eligible(peer, j)
      PROVE  j = i \/ Budget!Before(i, j)
  <2>1. E(j) = E(i) \/ Precedes(p, E(i), E(j))
    BY <1>2, <1>3, <1>4
  <2> QED BY <2>1 DEF Entry, Precedes, Budget!Before
<1> QED BY <1>2, <1>3, <1>4 DEF Budget!Least

-----------------------------------------------------------------------------
(* One iteration of poll_chunks offers the least allocated shard, abandons it *)
(* when it is not held, or finds nothing to offer.                            *)
LEMMA PollRefines ==
  ASSUME Inv, NEW peer \in Peers, session' = PollPeer(session, peer),
         peer \in session.attached_peers
  PROVE  \/ \E i \in Shards : Budget!Offer(peer, i) \/ Budget!Abandon(peer, i)
         \/ UNCHANGED Budget!budgetVars
<1> DEFINE p == session.planner
           got == AllocatedShards(p, peer)
           missing == got \ session.chunks
           q == CancelInFlight(Allocate(p, peer), peer, missing)
<1>1. /\ PlannerInv(p) /\ PlannerOK(p) /\ PlannerShape(p) /\ SessionShape(session)
      /\ p.allocation \in [Shards -> Nat] /\ p.in_flight \in [Peers -> SUBSET Shards]
  BY DEF Inv, SessionInv, SessionOK, PlannerInv, PlannerOK
<1>2. session'.planner = q
  BY <1>1 DEF PollPeer, SessionShape
<1>3. /\ q.mode = p.mode /\ q.fib = p.fib /\ q.sent_count = p.sent_count
      /\ q.havelist = p.havelist
      /\ q.allocation = [i \in Shards |-> IF i \in got THEN p.allocation[i] + 1
                                                     ELSE p.allocation[i]]
  BY <1>1, AllocateFields
<1>4. q.in_flight = [p.in_flight EXCEPT ![peer] = (@ \cup got) \ missing]
  BY <1>1, PollMarks
<1> HIDE DEF q, got, missing
<1>5. CASE Chosen(p, peer) = {} /\ got = {}
  <2>1. q.allocation = p.allocation
    BY <1>1, <1>3, <1>5
  <2>2. q.in_flight = p.in_flight
    BY <1>1, <1>4, <1>5 DEF missing
  <2> QED BY <1>2, <1>3, <2>1, <2>2, BudgetUntouched
<1>6. ASSUME NEW i \in Shards, Chosen(p, peer) = {Entry(p.allocation[i], i)}, got = {i},
             i \notin p.in_flight[peer]
      PROVE  Budget!Offer(peer, i) \/ Budget!Abandon(peer, i)
  <2>1. Budget!Least(peer, i)
    BY <1>1, <1>6, ChosenIsLeast
  <2>2. q.allocation = [p.allocation EXCEPT ![i] = @ + 1]
    BY <1>1, <1>3, <1>6
  <2>3. CASE i \in session.chunks
    <3>1. q.in_flight = [p.in_flight EXCEPT ![peer] = @ \cup {i}]
      <4>1. missing = {} /\ (p.in_flight[peer] \cup got) \ missing = p.in_flight[peer] \cup {i}
        BY <1>6, <2>3 DEF missing
      <4> QED BY <1>4, <4>1
    <3>2. Pairs(q.in_flight) = Pairs(p.in_flight) \cup {<<peer, i>>}
      <4>1. /\ q.in_flight[peer] = p.in_flight[peer] \cup {i}
            /\ \A x \in Peers \ {peer} : q.in_flight[x] = p.in_flight[x]
        BY <1>1, <3>1
      <4> HIDE DEF p
      <4> QED BY <4>1, PairsAdd
    <3> QED BY <1>2, <1>3, <2>1, <2>2, <3>2 DEF Budget!Offer, Pairs
  <2>4. CASE i \notin session.chunks
    <3>1. q.in_flight = p.in_flight
      <4>1. missing = {i} /\ (p.in_flight[peer] \cup got) \ missing = p.in_flight[peer]
        BY <1>6, <2>4 DEF missing
      <4> QED BY <1>1, <1>4, <4>1
    <3> QED BY <1>2, <1>3, <2>1, <2>2, <3>1 DEF Budget!Abandon
  <2> QED BY <2>3, <2>4
<1>7. \/ Chosen(p, peer) = {} /\ got = {}
      \/ \E i \in Shards : /\ Chosen(p, peer) = {Entry(p.allocation[i], i)} /\ got = {i}
                           /\ i \notin p.in_flight[peer]
  BY <1>1, ChosenCases DEF got
<1> QED BY <1>5, <1>6, <1>7

(* record_sent, on the pairs. *)
LEMMA ConfirmPairs ==
  ASSUME NEW p, PlannerInv(p), NEW peer \in Peers, NEW i \in p.in_flight[peer],
         NEW r, r = RecordSent(p, peer, i)
  PROVE  /\ r.mode = p.mode /\ r.fib = p.fib /\ r.allocation = p.allocation
         /\ r.sent_count = [p.sent_count EXCEPT ![i] = @ + 1]
         /\ Pairs(r.in_flight) = Pairs(p.in_flight) \ {<<peer, i>>}
         /\ Pairs(r.havelist) = Pairs(p.havelist) \cup {<<peer, i>>}
<1> DEFINE fl == [p.in_flight EXCEPT ![peer] = @ \ {i}]
           hv == [p.havelist EXCEPT ![peer] = @ \cup {i}]
           sc == [p.sent_count EXCEPT ![i] = @ + 1]
<1>1. /\ PlannerShape(p) /\ i \in Shards
      /\ p.in_flight \in [Peers -> SUBSET Shards] /\ p.havelist \in [Peers -> SUBSET Shards]
  BY DEF PlannerInv, PlannerOK
<1>2. r = [p EXCEPT !.in_flight = fl, !.havelist = hv, !.sent_count = sc]
  BY DEF RecordSent
<1>3. /\ fl[peer] = p.in_flight[peer] \ {i}
      /\ \A x \in Peers \ {peer} : fl[x] = p.in_flight[x]
      /\ hv[peer] = p.havelist[peer] \cup {i}
      /\ \A x \in Peers \ {peer} : hv[x] = p.havelist[x]
  BY <1>1
<1> HIDE DEF fl, hv, sc
<1>4. /\ r.mode = p.mode /\ r.fib = p.fib /\ r.allocation = p.allocation
      /\ r.sent_count = sc /\ r.in_flight = fl /\ r.havelist = hv
  BY <1>1, <1>2 DEF PlannerShape
<1>5. Pairs(fl) = Pairs(p.in_flight) \ {<<peer, i>>}
  BY <1>1, <1>3 DEF Pairs
<1>6. Pairs(hv) = Pairs(p.havelist) \cup {<<peer, i>>}
  BY <1>1, <1>3 DEF Pairs
<1> QED BY <1>4, <1>5, <1>6 DEF sc

(* chunk_sent(ok): the offer is confirmed. *)
LEMMA ConfirmStep ==
  ASSUME NEW p, p = session.planner, PlannerInv(p),
         NEW peer \in Peers, NEW i \in Shards, i \in p.in_flight[peer],
         session'.planner = RecordSent(p, peer, i)
  PROVE  Budget!Confirm(peer, i)
<1>1. /\ session'.planner.mode = p.mode /\ session'.planner.fib = p.fib
      /\ session'.planner.allocation = p.allocation
      /\ session'.planner.sent_count = [p.sent_count EXCEPT ![i] = @ + 1]
      /\ Pairs(session'.planner.in_flight) = Pairs(p.in_flight) \ {<<peer, i>>}
      /\ Pairs(session'.planner.havelist) = Pairs(p.havelist) \cup {<<peer, i>>}
  BY ConfirmPairs
<1>2. <<peer, i>> \in Pairs(p.in_flight)
  BY DEF Pairs
<1> QED BY <1>1, <1>2 DEF Budget!Confirm, Pairs

(* chunk_sent(!ok): the unit comes back. *)
LEMMA GiveBackStep ==
  ASSUME NEW p, p = session.planner, PlannerInv(p),
         NEW peer \in Peers, NEW i \in Shards, i \in p.in_flight[peer],
         session'.planner = RefundAllocations(CancelInFlight(p, peer, {i}), {i})
  PROVE  Budget!GiveBack(peer, i)
<1> DEFINE r == RefundAllocations(CancelInFlight(p, peer, {i}), {i})
<1>1. p.in_flight \in [Peers -> SUBSET Shards]
  BY DEF PlannerInv, PlannerOK
<1>2. /\ r.mode = p.mode /\ r.fib = p.fib /\ r.sent_count = p.sent_count
      /\ r.in_flight = [p.in_flight EXCEPT ![peer] = @ \ {i}]
      /\ r.havelist = p.havelist
      /\ r.allocation = [p.allocation EXCEPT ![i] = @ - 1]
  BY FailedSendFields
<1>3. session'.planner = r
  OBVIOUS
<1> HIDE DEF r
<1>4. /\ r.in_flight[peer] = p.in_flight[peer] \ {i}
      /\ \A x \in Peers \ {peer} : r.in_flight[x] = p.in_flight[x]
  BY <1>1, <1>2
<1>5. Pairs(r.in_flight) = Pairs(p.in_flight) \ {<<peer, i>>}
  BY <1>4 DEF Pairs
<1>6. <<peer, i>> \in Pairs(p.in_flight)
  BY DEF Pairs
<1> QED BY <1>2, <1>3, <1>5, <1>6 DEF Budget!GiveBack, Pairs

(* chunk_sent confirms the offer or gives it back; a handle that is no longer *)
(* in flight changes nothing.                                                 *)
LEMMA CallbackRefines ==
  ASSUME Inv, NEW peer \in Peers, NEW handle, NEW ok \in BOOLEAN,
         \A e \in session.in_flight : e.handle = handle => e.peer = peer,
         session' = ChunkSent(session, peer, handle, ok)
  PROVE  \/ \E i \in Shards : Budget!Confirm(peer, i) \/ Budget!GiveBack(peer, i)
         \/ UNCHANGED Budget!budgetVars
<1> DEFINE resolved == {e \in session.in_flight : e.handle = handle}
<1>1. /\ PlannerInv(session.planner) /\ SessionShape(session) /\ MarksMatch(session)
      /\ session.in_flight \subseteq ChunkDispatch
  BY DEF Inv, SessionInv, SessionOK
<1>2. CASE resolved = {}
  <2>1. session' = session
    BY <1>2 DEF ChunkSent
  <2> QED BY <2>1, BudgetUntouched
<1>3. CASE resolved # {}
  <2>1. PICK d \in resolved : d = CHOOSE e \in resolved : TRUE
    BY <1>3
  <2>2. PICK i \in Shards : i = d.chunk_id
    BY <1>1, <2>1 DEF ChunkDispatch
  <2>3. PICK p : p = session.planner
    OBVIOUS
  <2>4. session'.planner = IF ok THEN RecordSent(p, peer, i)
                           ELSE RefundAllocations(CancelInFlight(p, peer, {i}), {i})
    <3> DEFINE rest == session.in_flight \ resolved
               q == IF ok THEN RecordSent(p, peer, i)
                    ELSE RefundAllocations(CancelInFlight(p, peer, {i}), {i})
    <3>1. session' = [session EXCEPT !.in_flight = rest, !.planner = q]
      BY <1>3, <2>1, <2>2, <2>3 DEF ChunkSent
    <3> HIDE DEF rest, q
    <3>2. session'.planner = q
      BY <1>1, <3>1 DEF SessionShape
    <3> QED BY <3>2 DEF q
  <2>5. i \in p.in_flight[peer]
    BY <1>1, <2>1, <2>2, <2>3 DEF MarksMatch
  <2>6. CASE ok
    BY <1>1, <2>3, <2>4, <2>5, <2>6, ConfirmStep
  <2>7. CASE ~ok
    BY <1>1, <2>3, <2>4, <2>5, <2>7, GiveBackStep
  <2> QED BY <2>6, <2>7
<1> QED BY <1>2, <1>3

(* detach_peer: the peer's offers come back and what it held is forgotten. *)
LEMMA DepartStep ==
  ASSUME Inv, NEW peer \in Peers, session' = DetachPeer(session, peer)
  PROVE  Budget!Depart(peer)
<1>1. PICK p : p = session.planner
  OBVIOUS
<1> DEFINE r == RemovePeer(p, peer)
<1>2. /\ PlannerInv(p) /\ SessionShape(session)
      /\ p.in_flight \in [Peers -> SUBSET Shards] /\ p.havelist \in [Peers -> SUBSET Shards]
  BY <1>1 DEF Inv, SessionInv, SessionOK, PlannerInv, PlannerOK
<1>3. /\ r.mode = p.mode /\ r.fib = p.fib /\ r.sent_count = p.sent_count
      /\ r.in_flight = [p.in_flight EXCEPT ![peer] = {}]
      /\ r.havelist = [p.havelist EXCEPT ![peer] = {}]
      /\ r.allocation = [i \in Shards |-> IF i \in p.in_flight[peer]
                                          THEN p.allocation[i] - 1 ELSE p.allocation[i]]
  BY <1>2, RemovePeerFields
<1>4. session'.planner = r
  <2> HIDE DEF r
  <2>1. session' = [session EXCEPT !.attached_peers = @ \ {peer},
                                   !.in_flight = {d \in @ : d.peer # peer}, !.planner = r]
    BY <1>1 DEF DetachPeer, r
  <2> QED BY <1>2, <2>1 DEF SessionShape
<1> HIDE DEF r
<1>5. Pairs(r.in_flight) = {o \in Pairs(p.in_flight) : o[1] # peer}
  BY <1>2, <1>3 DEF Pairs
<1>6. Pairs(r.havelist) = {h \in Pairs(p.havelist) : h[1] # peer}
  BY <1>2, <1>3 DEF Pairs
<1> DEFINE offered == {o \in Peers \X Shards : o[2] \in session.planner.in_flight[o[1]]}
<1>7. session'.planner.allocation
        = [i \in Shards |-> IF <<peer, i>> \in offered THEN session.planner.allocation[i] - 1
                                                       ELSE session.planner.allocation[i]]
  <2>1. \A i \in Shards : <<peer, i>> \in offered <=> i \in p.in_flight[peer]
    BY <1>1, <1>2
  <2> HIDE DEF offered
  <2> QED BY <1>1, <1>3, <1>4, <2>1
<1>8. {o \in Peers \X Shards : o[2] \in session'.planner.in_flight[o[1]]}
        = {o \in offered : o[1] # peer}
  BY <1>1, <1>4, <1>5 DEF Pairs
<1>9. {h \in Peers \X Shards : h[2] \in session'.planner.havelist[h[1]]}
        = {h \in {x \in Peers \X Shards : x[2] \in session.planner.havelist[x[1]]} : h[1] # peer}
  BY <1>1, <1>4, <1>6 DEF Pairs
<1>10. /\ session'.planner.mode = session.planner.mode
       /\ session'.planner.fib = session.planner.fib
       /\ session'.planner.sent_count = session.planner.sent_count
  BY <1>1, <1>3, <1>4
<1> QED BY <1>7, <1>8, <1>9, <1>10 DEF Budget!Depart

(* routing_update: the peer is known to hold the shards it reports as well. *)
LEMMA LearnStep ==
  ASSUME Inv, NEW peer \in Peers, NEW update \in SUBSET Shards,
         session' = RoutingUpdate(session, peer, update)
  PROVE  Budget!LearnHas(peer, update)
<1>1. PICK p : p = session.planner
  OBVIOUS
<1> DEFINE known == p.havelist[peer] \cup update
           r == SetPeerHavelist(p, peer, known)
<1>2. PlannerShape(p) /\ SessionShape(session)
  BY <1>1 DEF Inv, SessionInv, SessionOK, PlannerInv, PlannerOK
<1>3. p.havelist \in [Peers -> SUBSET Shards]
  BY <1>1 DEF Inv, SessionInv, PlannerInv, PlannerOK
<1>4. session'.planner = r
  <2> HIDE DEF r
  <2>1. session' = [session EXCEPT !.planner = r]
    BY <1>1 DEF RoutingUpdate, r
  <2> QED BY <1>2, <2>1 DEF SessionShape
<1> HIDE DEF known
<1>5. /\ r.mode = p.mode /\ r.fib = p.fib /\ r.sent_count = p.sent_count
      /\ r.in_flight = p.in_flight /\ r.allocation = p.allocation
      /\ r.havelist = [p.havelist EXCEPT ![peer] = known]
  BY <1>2, HavelistFields
<1> HIDE DEF r
<1>6. Pairs(r.havelist) = Pairs(p.havelist) \cup ({peer} \X update)
  BY <1>3, <1>5 DEF Pairs, known
<1> QED BY <1>1, <1>4, <1>5, <1>6 DEF Budget!LearnHas, Pairs

(* Calls that do not reach the planner. *)
LEMMA PlannerFrames ==
  ASSUME NEW s, SessionShape(s), NEW peer, NEW idx, NEW valid
  PROVE  /\ AttachPeer(s, peer).planner = s.planner
         /\ TakeChunk(s, idx, valid).planner = s.planner
         /\ DecodeAndFinish(s).planner = s.planner
         /\ PollRouting(s).planner = s.planner
<1>1. AttachPeer(s, peer).planner = s.planner
  BY DEF AttachPeer, SessionShape
<1>2. TakeChunk(s, idx, valid).planner = s.planner
  BY DEF TakeChunk, SessionShape
<1>3. DecodeAndFinish(s).planner = s.planner
  BY DEF DecodeAndFinish, SessionShape
<1>4. PollRouting(s).planner = s.planner
  BY DEF PollRouting, SessionShape
<1> QED BY <1>1, <1>2, <1>3, <1>4

-----------------------------------------------------------------------------
(* The constructors give a budget of which nothing is offered or spent. *)
LEMMA InitRefines == Init => Budget!Init
<1> SUFFICES ASSUME Init PROVE Budget!Init
  OBVIOUS
<1>1. PICK fib \in Priorities, attached \in SUBSET Peers :
        \/ session = NewOrigin(fib, attached)
        \/ \E decodable \in BOOLEAN : session = NewRelay(fib, decodable, attached)
  BY DEF Init
<1>2. /\ session.planner.fib = fib
      /\ session.planner.allocation = [i \in Shards |-> 0]
      /\ session.planner.sent_count = [i \in Shards |-> 0]
      /\ session.planner.in_flight = [q \in Peers |-> {}]
      /\ session.planner.havelist = [q \in Peers |-> {}]
  <2>1. PICK mode \in {"origin", "relay"} : session.planner = NewPlanner(mode, fib)
    BY <1>1 DEF NewOrigin, NewRelay, NewSession
  <2> DEFINE heap == SetToBag({Entry(0, i) : i \in Shards})
  <2>2. session.planner = [mode |-> mode, fib |-> fib, heap |-> heap,
                           allocation |-> [i \in Shards |-> 0],
                           sent_count |-> [i \in Shards |-> 0],
                           in_flight |-> [q \in Peers |-> {}],
                           havelist |-> [q \in Peers |-> {}]]
    BY <2>1 DEF NewPlanner
  <2> HIDE DEF heap
  <2> QED BY <2>2
<1>3. fib \in [Shards -> Nat]
  BY PrioritiesAssumption
<1> QED BY <1>2, <1>3 DEF Budget!Init

(* Every call is a step of the budget or leaves it alone. *)
LEMMA StepRefines == Inv /\ [Next]_vars => [Budget!Next]_(Budget!budgetVars)
<1> SUFFICES ASSUME Inv, [Next]_vars PROVE Budget!Next \/ UNCHANGED Budget!budgetVars
  OBVIOUS
<1>1. SessionShape(session)
  BY DEF Inv, TypeOK, SessionOK
<1>2. ASSUME session'.planner = session.planner PROVE UNCHANGED Budget!budgetVars
  BY <1>2, BudgetUntouched
<1>3. CASE \E peer \in Peers : Attach(peer)
  BY <1>1, <1>2, <1>3, PlannerFrames DEF Attach
<1>4. CASE \E idx \in 0 .. NumShards, valid \in BOOLEAN : Take(idx, valid)
  BY <1>1, <1>2, <1>4, PlannerFrames DEF Take
<1>5. CASE Decode
  BY <1>1, <1>2, <1>5, PlannerFrames DEF Decode
<1>6. CASE Poll
  BY <1>1, <1>2, <1>6, PlannerFrames DEF Poll
<1>7. CASE UNCHANGED vars
  BY <1>2, <1>7 DEF vars
<1>8. CASE \E peer \in Peers : Detach(peer)
  <2>1. PICK peer \in Peers : Detach(peer)
    BY <1>8
  <2>2. Budget!Depart(peer)
    BY <2>1, DepartStep DEF Detach
  <2> QED BY <2>2 DEF Budget!Next
<1>9. CASE \E peer \in Peers, update \in Updates : Learn(peer, update)
  <2>1. PICK peer \in Peers, update \in Updates : Learn(peer, update)
    BY <1>9
  <2>2. update \in SUBSET Shards
    BY UpdatesAssumption
  <2>3. Budget!LearnHas(peer, update)
    BY <2>1, <2>2, LearnStep DEF Learn
  <2> QED BY <2>2, <2>3 DEF Budget!Next
<1>10. CASE \E peer \in Peers : PollChunks(peer)
  <2>1. PICK peer \in Peers : PollChunks(peer)
    BY <1>10
  <2>2. \/ \E i \in Shards : Budget!Offer(peer, i) \/ Budget!Abandon(peer, i)
        \/ UNCHANGED Budget!budgetVars
    BY <2>1, PollRefines DEF PollChunks, Inv, TypeOK
  <2> QED BY <2>2 DEF Budget!Next
<1>11. CASE \E d \in owed : Acknowledge(d) \/ Refuse(d)
  <2>1. PICK d \in owed : Acknowledge(d) \/ Refuse(d)
    BY <1>11
  <2>2. /\ d.peer \in Peers
        /\ \A e \in session.in_flight : e.handle = d.handle => e.peer = d.peer
    BY DEF Inv, TypeOK, HandlesResolvable, ChunkDispatch
  <2>3. PICK peer \in Peers : peer = d.peer
    BY <2>2
  <2>4. PICK ok \in BOOLEAN : session' = ChunkSent(session, peer, d.handle, ok)
    BY <2>1, <2>3 DEF Acknowledge, Refuse
  <2>5. \/ \E i \in Shards : Budget!Confirm(peer, i) \/ Budget!GiveBack(peer, i)
        \/ UNCHANGED Budget!budgetVars
    BY <2>2, <2>3, <2>4, CallbackRefines
  <2> QED BY <2>5 DEF Budget!Next
<1> QED BY <1>3, <1>4, <1>5, <1>6, <1>7, <1>8, <1>9, <1>10, <1>11 DEF Next

(* A session's planner implements the budget without a heap, for every number *)
(* of peers and shards, every multiplier and every sequence of calls: what    *)
(* allocate pops is always the least allocated shard the peer may be offered. *)
THEOREM BudgetRefinement == Spec => ImplementsBudget
BY InitRefines, StepRefines, InvAlways, PTL DEF Spec, ImplementsBudget, Budget!Spec
=============================================================================
