----------------------------- MODULE ShardBudget -----------------------------
(***************************************************************************)
(* What the emit planner promises, without its heap.  Shards are offered   *)
(* to peers; every offer takes one unit of the shard's allocation, which   *)
(* is given back when the offer fails or its peer departs and is spent     *)
(* when it is confirmed or abandoned.  The shard offered to a peer is      *)
(* always the least allocated one that the peer may still be offered.      *)
(***************************************************************************)
EXTENDS Integers

CONSTANTS Peers, Shards, ForwardMultiplier

VARIABLES capped,      \* whether the forward multiplier applies
          fib,         \* tie-break among equally allocated shards
          allocation,  \* units of each shard offered or spent
          sent_count,  \* offers of each shard that were confirmed
          offered,     \* pairs <<peer, shard>> offered and unresolved
          has          \* pairs <<peer, shard>> the peer is known to hold

budgetVars == <<capped, fib, allocation, sent_count, offered, has>>

Init ==
  /\ capped \in BOOLEAN
  /\ fib \in [Shards -> Nat]
  /\ allocation = [i \in Shards |-> 0]
  /\ sent_count = [i \in Shards |-> 0]
  /\ offered = {}
  /\ has = {}

Eligible(peer, i) ==
  /\ <<peer, i>> \notin offered \cup has
  /\ capped => allocation[i] < ForwardMultiplier

(* Shard i goes before shard j. *)
Before(i, j) ==
  \/ allocation[i] < allocation[j]
  \/ allocation[i] = allocation[j] /\ fib[i] < fib[j]
  \/ allocation[i] = allocation[j] /\ fib[i] = fib[j] /\ i < j

Least(peer, i) ==
  /\ Eligible(peer, i)
  /\ \A j \in Shards : Eligible(peer, j) => j = i \/ Before(i, j)

Offer(peer, i) ==
  /\ Least(peer, i)
  /\ allocation' = [allocation EXCEPT ![i] = @ + 1]
  /\ offered' = offered \cup {<<peer, i>>}
  /\ UNCHANGED <<capped, fib, sent_count, has>>

(* The allocation is spent although nothing is sent. *)
Abandon(peer, i) ==
  /\ Least(peer, i)
  /\ allocation' = [allocation EXCEPT ![i] = @ + 1]
  /\ UNCHANGED <<capped, fib, sent_count, offered, has>>

Confirm(peer, i) ==
  /\ <<peer, i>> \in offered
  /\ offered' = offered \ {<<peer, i>>}
  /\ has' = has \cup {<<peer, i>>}
  /\ sent_count' = [sent_count EXCEPT ![i] = @ + 1]
  /\ UNCHANGED <<capped, fib, allocation>>

GiveBack(peer, i) ==
  /\ <<peer, i>> \in offered
  /\ offered' = offered \ {<<peer, i>>}
  /\ allocation' = [allocation EXCEPT ![i] = @ - 1]
  /\ UNCHANGED <<capped, fib, sent_count, has>>

Depart(peer) ==
  /\ offered' = {o \in offered : o[1] # peer}
  /\ has' = {h \in has : h[1] # peer}
  /\ allocation' = [i \in Shards |-> IF <<peer, i>> \in offered
                                     THEN allocation[i] - 1 ELSE allocation[i]]
  /\ UNCHANGED <<capped, fib, sent_count>>

LearnHas(peer, learnt) ==
  /\ has' = has \cup ({peer} \X learnt)
  /\ UNCHANGED <<capped, fib, allocation, sent_count, offered>>

Next ==
  \E peer \in Peers :
    \/ \E i \in Shards : \/ Offer(peer, i) \/ Abandon(peer, i)
                         \/ Confirm(peer, i) \/ GiveBack(peer, i)
    \/ Depart(peer)
    \/ \E learnt \in SUBSET Shards : LearnHas(peer, learnt)

Spec == Init /\ [][Next]_budgetVars
=============================================================================
