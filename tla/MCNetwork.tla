------------------------------ MODULE MCNetwork ------------------------------
(* Three nodes, three shards of which two decode. *)
EXTENDS Network

MCPeers == 1 .. 3
MCMessages == 1 .. 2
Ascending == [i \in 0 .. 2 |-> i]
Descending == [i \in 0 .. 2 |-> 2 - i]
MCPriorities == {Ascending, Descending}
MCSeeds == {[n \in MCPeers |-> IF n = 3 THEN Descending ELSE Ascending]}

Sub(n) == [op |-> "subscribe", node |-> n]
Con(n, p) == [op |-> "connect", node |-> n, peer |-> p]
Pub(n, m) == [op |-> "publish", node |-> n, message |-> m]
Take(n) == [op |-> "take", node |-> n]
Gone(n) == [op |-> "disconnect", node |-> n]
Run(max) == [op |-> "run", max_steps |-> max]
Sleeps(d) == [op |-> "sleep", delay |-> d]
Advance(t) == [op |-> "advance_to", target |-> t]
Pumps == [op |-> "pump_all"]

SubscribeAll == <<Sub(1), Sub(2), Sub(3)>>
Link(a, b) == <<Con(a, b), Con(b, a)>>
Chain == Link(1, 2) \o Link(2, 3)
Mesh == Chain \o Link(1, 3)

InMem(calls) == [hub |-> "memory", rules |-> <<>>, rng |-> <<>>, script |-> calls]
Simulated(calls, faults, draws) ==
  [hub |-> "sim", rules |-> faults, rng |-> draws, script |-> calls]

(* The calls and the engines interleave.  A chain in which the engines may hear *)
(* each other before they connect; a subscription made after the connections; a *)
(* node that vanishes before a late subscription or before the publication; two *)
(* publishers whose messages meet in one sink; nodes that subscribe again, after *)
(* a publication that may not have reached them.                                *)
MCMemoryScenarios ==
  {InMem(SubscribeAll \o Chain \o <<Pub(1, 1)>>),
   InMem(<<Sub(2), Sub(3)>> \o Chain \o <<Sub(1), Pub(2, 1)>>),
   InMem(SubscribeAll \o <<Con(1, 2), Con(1, 3), Con(2, 1), Con(3, 1), Con(2, 3), Con(3, 2), Pub(1, 1)>>),
   InMem(<<Sub(2), Sub(3)>> \o Mesh \o <<Gone(2), Sub(1)>>),
   InMem(SubscribeAll \o Chain \o <<Gone(3), Pub(2, 1)>>),
   InMem(SubscribeAll \o Chain \o <<Pub(1, 1), Pub(3, 2), Take(2)>>),
   InMem(SubscribeAll \o Chain \o <<Pub(1, 1), Sub(2), Sub(3)>>),
   InMem(<<Sub(2), Sub(3)>> \o Chain \o <<Sub(1), Pub(1, 1), Sub(2)>>),
   InMem(SubscribeAll \o Chain \o <<Gone(3), Pub(1, 1), Sub(2)>>)}

(* Rules of the fault plan. *)
Drops(a, b, ids) ==
  [src |-> a, dst |-> b, action |-> "drop_if", kinds |-> {"chunk"}, ids |-> ids]
DropsAtRandom(a, b) == [src |-> a, dst |-> b, action |-> "drop_with_probability"]
Delays(a, b, kind, ids, d) ==
  [src |-> a, dst |-> b, action |-> "delay_if", kinds |-> {kind}, ids |-> ids, delay |-> d]
Jitter(a, b, max) == [src |-> a, dst |-> b, action |-> "delay_jitter", max |-> max]

Draws == [1 .. 4 -> 0 .. 2]
Round == SubscribeAll \o Mesh \o <<Run(40), Pub(1, 1), Run(40), Take(2)>>

(* The program alone decides: faults of every kind, runs cut short, deliveries *)
(* that nobody is stepped for, and a second message into a full sink.          *)
MCSimScenarios ==
  {Simulated(Round \o <<Pub(3, 2), Run(40)>>, <<>>, <<>>),
   Simulated(<<Sub(2)>> \o Chain \o <<Run(40), Sub(1), Pub(1, 1), Run(40), Sub(2), Run(40)>>, <<>>, <<>>),
   Simulated(SubscribeAll \o Mesh \o <<Run(3), Run(40), Pub(1, 1), Pub(3, 2), Run(60)>>,
             <<Delays(1, 2, "open", {}, 2), Drops(1, 3, {0})>>, <<>>),
   Simulated(SubscribeAll \o Chain \o <<Sleeps(2), Advance(1), Run(40), Pub(1, 1), Run(40)>>,
             Sim!Partition(1, 2, 0, 1), <<>>),
   Simulated(SubscribeAll \o Mesh \o <<Run(40), Sleeps(1), Run(40), Pub(1, 1), Pumps, Advance(5), Run(9)>>,
             Sim!Partition(1, 3, 1, 4) \o <<Delays(1, 2, "chunk", {1}, 3)>>, <<>>)}
  \cup {Simulated(Round, <<Jitter(1, 2, 2), DropsAtRandom(1, 3)>>, draws) : draws \in Draws}
  \cup {Simulated(Round, <<Drops(1, 2, ids), Drops(3, 2, {0})>>, <<>>) : ids \in SUBSET (0 .. 2)}

MCScenarios == MCMemoryScenarios \cup MCSimScenarios
=============================================================================
