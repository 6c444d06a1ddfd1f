----------------------------- MODULE EmitPlanner -----------------------------
(***************************************************************************)
(* The emit planner of one broadcast session                               *)
(* (ethp2p-broadcast/src/strategy/rs/planner.rs): which shard is offered   *)
(* to a peer next.  The planner is a record, and each of its methods an    *)
(* operator from the planner before the call to the planner after it, so   *)
(* that the session and the engine compose them.                           *)
(*                                                                         *)
(*   mode        "origin" (no limit) or "relay" (ForwardMultiplier)        *)
(*   fib         the tie-break priority of each shard under the seed       *)
(*   heap        the BinaryHeap as a bag of entries; it keeps stale and    *)
(*               duplicate entries, as the code does                       *)
(*   allocation  the authoritative allocation count of each shard          *)
(*   sent_count  sends the transport confirmed, per shard                  *)
(*   in_flight   per peer, the shards allocated and not yet resolved       *)
(*   havelist    per peer, the shards it is believed to hold; an absent    *)
(*               PeerState and an absent bitmap both read as the empty set *)
(***************************************************************************)
EXTENDS Integers, FiniteSets, Bags

CONSTANTS Peers,             \* peer identifiers, u64 in the code
          NumShards,         \* num_data + num_parity of the preamble
          ForwardMultiplier  \* RsConfig::forward_multiplier

ASSUME PeersAssumption == Peers \subseteq Nat /\ IsFiniteSet(Peers)
ASSUME NumShardsAssumption == NumShards \in Nat
ASSUME ForwardMultiplierAssumption == ForwardMultiplier \in Nat

Shards == 0 .. (NumShards - 1)
PlannerMode == {"origin", "relay"}
EmitEntry == [allocation : Nat, idx : Shards]
Entry(a, i) == [allocation |-> a, idx |-> i]

(* Mutant: the tie-break decides before the allocation does. *)
PrecedesByPriority(p, e, f) ==
  \/ p.fib[e.idx] < p.fib[f.idx]
  \/ p.fib[e.idx] = p.fib[f.idx] /\ e.allocation < f.allocation

(* EmitEntry::cmp: lower allocation first, then lower priority, then index. *)
Precedes(p, e, f) ==
  \/ e.allocation < f.allocation
  \/ /\ e.allocation = f.allocation
     /\ \/ p.fib[e.idx] < p.fib[f.idx]
        \/ p.fib[e.idx] = p.fib[f.idx] /\ e.idx < f.idx

(* EmitPlanner::new: every shard starts in the heap, held locally or not. *)
NewPlanner(mode, fib) ==
  [mode       |-> mode,
   fib        |-> fib,
   heap       |-> SetToBag({Entry(0, i) : i \in Shards}),
   allocation |-> [i \in Shards |-> 0],
   sent_count |-> [i \in Shards |-> 0],
   in_flight  |-> [q \in Peers |-> {}],
   havelist   |-> [q \in Peers |-> {}]]

-----------------------------------------------------------------------------
(* An entry is live when it carries its shard's authoritative count. *)
Live(p, e) == e.allocation = p.allocation[e.idx]

(* Mutant: the cap is off by one. *)
UnderCapInclusive(p, a) == p.mode = "relay" => a <= ForwardMultiplier

UnderCap(p, a) == p.mode = "relay" => a < ForwardMultiplier

(* The entries allocate(peer) may stop at: none of its skip tests holds. *)
Candidates(p, peer) ==
  {e \in BagToSet(p.heap) :
     /\ Live(p, e)
     /\ UnderCap(p, e.allocation)
     /\ e.idx \notin p.havelist[peer]
     /\ e.idx \notin p.in_flight[peer]}

(* What the pop loop of allocate stops at: the least candidate, if any. *)
Chosen(p, peer) ==
  {e \in Candidates(p, peer) :
     \A f \in Candidates(p, peer) : f = e \/ Precedes(p, e, f)}

(* Entries popped before the loop stops: all of them when nothing is chosen. *)
Popped(p, peer) ==
  {e \in BagToSet(p.heap) : \A c \in Chosen(p, peer) : Precedes(p, e, c)}

(* Skipped live entries are pushed back, so only stale ones are lost. *)
WithoutPoppedStale(p, peer) ==
  [e \in {x \in BagToSet(p.heap) : Live(p, x) \/ x \notin Popped(p, peer)}
     |-> p.heap[e]]

(* allocate: the shard it returns, as a set of at most one. *)
AllocatedShards(p, peer) == {e.idx : e \in Chosen(p, peer)}

(* Mutant: the entry acted on is left in the heap. *)
AllocateWithoutPop(p, peer) ==
  LET chosen == Chosen(p, peer) IN
  [p EXCEPT
    !.heap = p.heap (+) SetToBag({Entry(e.allocation + 1, e.idx) : e \in chosen}),
    !.allocation = [i \in Shards |->
                      IF i \in AllocatedShards(p, peer)
                      THEN p.allocation[i] + 1 ELSE p.allocation[i]],
    !.in_flight = [p.in_flight EXCEPT ![peer] = @ \cup AllocatedShards(p, peer)]]

(* allocate: the planner it leaves. *)
Allocate(p, peer) ==
  LET chosen == Chosen(p, peer) IN
  [p EXCEPT
    !.heap = (WithoutPoppedStale(p, peer) (-) SetToBag(chosen))
               (+) SetToBag({Entry(e.allocation + 1, e.idx) : e \in chosen}),
    !.allocation = [i \in Shards |->
                      IF i \in AllocatedShards(p, peer)
                      THEN p.allocation[i] + 1 ELSE p.allocation[i]],
    !.in_flight = [p.in_flight EXCEPT ![peer] = @ \cup AllocatedShards(p, peer)]]

-----------------------------------------------------------------------------
RecordSent(p, peer, idx) ==
  [p EXCEPT
    !.in_flight  = [p.in_flight EXCEPT ![peer] = @ \ {idx}],
    !.havelist   = [p.havelist EXCEPT ![peer] = @ \cup {idx}],
    !.sent_count = [p.sent_count EXCEPT ![idx] = @ + 1]]

CancelInFlight(p, peer, idxs) ==
  [p EXCEPT !.in_flight = [p.in_flight EXCEPT ![peer] = @ \ idxs]]

(* Mutant: the corrected entry is not pushed. *)
RefundWithoutPush(p, idxs) ==
  [p EXCEPT !.allocation = [i \in Shards |-> IF i \in idxs /\ p.allocation[i] > 0
                                             THEN p.allocation[i] - 1
                                             ELSE p.allocation[i]]]

(* refund_allocation on each shard of a set: the calls touch different       *)
(* shards, so their order does not matter.  A shard counted 0 is left alone. *)
RefundAllocations(p, idxs) ==
  LET refunded == {i \in idxs : p.allocation[i] > 0} IN
  [p EXCEPT
    !.allocation = [i \in Shards |-> IF i \in refunded
                                     THEN p.allocation[i] - 1
                                     ELSE p.allocation[i]],
    !.heap = p.heap (+) SetToBag({Entry(p.allocation[i] - 1, i) : i \in refunded})]

(* Mutant: shards the peer already has are refunded too. *)
RemovePeerRefundsSent(p, peer) ==
  RefundAllocations(
    [p EXCEPT !.in_flight = [p.in_flight EXCEPT ![peer] = {}],
              !.havelist  = [p.havelist EXCEPT ![peer] = {}]],
    p.in_flight[peer] \cup p.havelist[peer])

RemovePeer(p, peer) ==
  RefundAllocations(
    [p EXCEPT !.in_flight = [p.in_flight EXCEPT ![peer] = {}],
              !.havelist  = [p.havelist EXCEPT ![peer] = {}]],
    p.in_flight[peer])

SetPeerHavelist(p, peer, b) ==
  [p EXCEPT !.havelist = [p.havelist EXCEPT ![peer] = b]]

-----------------------------------------------------------------------------
(* The parts of the planner's invariant, for a planner p. *)
PlannerShape(p) ==
  p = [mode |-> p.mode, fib |-> p.fib, heap |-> p.heap,
       allocation |-> p.allocation, sent_count |-> p.sent_count,
       in_flight |-> p.in_flight, havelist |-> p.havelist]

PlannerOK(p) ==
  /\ PlannerShape(p)
  /\ p.mode \in PlannerMode
  /\ p.fib \in [Shards -> Nat]
  /\ IsABag(p.heap) /\ BagToSet(p.heap) \subseteq EmitEntry
  /\ p.allocation \in [Shards -> Nat]
  /\ p.sent_count \in [Shards -> Nat]
  /\ p.in_flight \in [Peers -> SUBSET Shards]
  /\ p.havelist \in [Peers -> SUBSET Shards]

HeapComplete(p) ==
  \A i \in Shards : Entry(p.allocation[i], i) \in BagToSet(p.heap)

InFlightTo(p, i) == {q \in Peers : i \in p.in_flight[q]}

AllocationCovers(p) ==
  \A i \in Shards : p.sent_count[i] + Cardinality(InFlightTo(p, i)) <= p.allocation[i]

CapRespected(p) ==
  p.mode = "relay" => \A i \in Shards : p.allocation[i] <= ForwardMultiplier

PlannerInv(p) ==
  PlannerOK(p) /\ HeapComplete(p) /\ AllocationCovers(p) /\ CapRespected(p)
=============================================================================
