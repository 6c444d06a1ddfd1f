------------------------------ MODULE Network ------------------------------
(***************************************************************************)
(* Engines that publish, relay and receive over MemoryNet or over SimNet.  *)
(* A scenario is the hub, its fault plan and the calls the program makes,  *)
(* in their order.  Over MemoryNet every engine is a task, so calls and    *)
(* steps of the engines interleave freely.  Over SimNet the program is the *)
(* only thread: run_to_quiescence (ethp2p-sim/src/runner.rs) steps the     *)
(* engines in the order of the heap and every other call is made outside   *)
(* it.                                                                     *)
(***************************************************************************)
EXTENDS Nodes

CONSTANTS Scenarios,  \* [hub, rules, rng, script] records
          Seeds       \* per node, the fib function of its strategies' seed

ASSUME SeedsAssumption == Seeds \subseteq [Peers -> Priorities]

VARIABLES world,   \* engines and hub
          script,  \* the calls still to be made
          steps    \* what run_to_quiescence has left of max_steps, or Idle

vars == <<world, script, steps>>

Idle == -1
InMemory == "registered" \in DOMAIN world.hub
Call(op) == steps = Idle /\ script # <<>> /\ Head(script).op = op
Made == script' = Tail(script)

Init ==
  \E sc \in Scenarios, seed \in Seeds :
    /\ world = [engines |-> [n \in Peers |-> NewEngine(seed[n])],
                hub |-> IF sc.hub = "memory" THEN Mem!NewMemoryHub
                        ELSE Sim!NewSimHub(sc.rules, sc.rng),
                ok |-> TRUE, stalled |-> FALSE]
    /\ script = sc.script
    /\ steps = Idle

-----------------------------------------------------------------------------
(* The calls of the program. *)
CallSubscribe ==
  /\ Call("subscribe") /\ Made
  /\ world' = Subscribe(world, Head(script).node)
  /\ UNCHANGED steps

CallConnect ==
  /\ Call("connect") /\ Made
  /\ world' = Connect(world, Head(script).node, Head(script).peer)
  /\ UNCHANGED steps

CallPublish ==
  /\ Call("publish") /\ Made
  /\ world' = Publish(world, Head(script).node, Head(script).message)
  /\ UNCHANGED steps

CallTakeDeliveries ==
  /\ Call("take") /\ Made
  /\ world' = TakeDeliveries(world, Head(script).node)
  /\ UNCHANGED steps

(* MemoryNetHub::disconnect; nobody is told. *)
CallDisconnect ==
  /\ Call("disconnect") /\ Made
  /\ world' = [world EXCEPT !.hub = Mem!HubDisconnect(@, Head(script).node)]
  /\ UNCHANGED steps

CallSleep ==
  /\ Call("sleep") /\ Made
  /\ world' = [world EXCEPT !.hub = Sim!Sleep(@, Head(script).delay)]
  /\ UNCHANGED steps

CallAdvanceTo ==
  /\ Call("advance_to") /\ Made
  /\ world' = [world EXCEPT !.hub = Sim!AdvanceTo(@, Head(script).target)]
  /\ UNCHANGED steps

CallPumpAll ==
  /\ Call("pump_all") /\ Made
  /\ world' = [world EXCEPT !.hub = Sim!PumpAll(@)]
  /\ UNCHANGED steps

(* run_to_quiescence: an entry beyond max_steps is popped before the budget *)
(* is looked at, and is not followed by a step of its engine.               *)
CallRun ==
  /\ Call("run") /\ Made
  /\ steps' = Head(script).max_steps
  /\ UNCHANGED world

RunPump ==
  /\ steps # Idle /\ world.hub.heap # {}
  /\ LET entry == Sim!Earliest(world.hub)
         popped == [world EXCEPT !.hub = Sim!PopNext(@)]
     IN \/ steps = 0 /\ world' = popped
        \/ steps > 0 /\ ~Sim!IsDelivery(entry) /\ world' = popped
        \/ /\ steps > 0 /\ Sim!IsDelivery(entry)
           /\ world' = RunOneStep([popped EXCEPT !.hub = Sim!RecordEngineStep(@)], entry.dst)
  /\ steps' = steps - 1
  /\ UNCHANGED script

RunReturns ==
  /\ steps # Idle /\ world.hub.heap = {}
  /\ steps' = Idle
  /\ UNCHANGED <<world, script>>

(* Over MemoryNet an engine takes its next event at any time. *)
Step(n) ==
  /\ InMemory /\ world.hub.inbox[n] # <<>>
  /\ world' = RunOneStep(world, n)
  /\ UNCHANGED <<script, steps>>

Next ==
  \/ CallSubscribe \/ CallConnect \/ CallPublish \/ CallTakeDeliveries
  \/ CallDisconnect \/ CallSleep \/ CallAdvanceTo \/ CallPumpAll \/ CallRun
  \/ RunPump \/ RunReturns
  \/ \E n \in Peers : Step(n)

Spec == Init /\ [][Next]_vars

(* The program goes on and the engines are polled while there is work.  This  *)
(* is WF_vars(Next) written out: Next is enabled exactly when Busy holds, and *)
(* a step that changes vars is a step of Next.                                *)
Busy ==
  \/ script # <<>> \/ steps # Idle
  \/ InMemory /\ \E n \in Peers : world.hub.inbox[n] # <<>>
Fair == []<>(~Busy) \/ []<><<TRUE>>_vars
FairSpec == Spec /\ Fair

-----------------------------------------------------------------------------
Frame == [kind : {"handshake"}, to : Peers, advertises : BOOLEAN]
         \cup [kind : {"subscribe"}, to : Peers]
         \cup [kind : {"open", "update"}, to : Peers, message : Messages]
         \cup [kind : {"chunk"}, to : Peers, message : Messages, chunk_id : Shards,
               token : Nat]

EngineOK(e) ==
  /\ e.hosted \in BOOLEAN
  /\ {e.connected, e.subscribers, e.reannounced} \subseteq SUBSET Peers
  /\ DOMAIN e.sessions \subseteq Messages
  /\ \A m \in DOMAIN e.sessions : SessionInv(e.sessions[m])
  /\ e.opened_to \in [Messages -> SUBSET Peers]
  /\ e.sink \cup e.received \subseteq Messages /\ Cardinality(e.sink) <= SinkCap
  /\ \A m \in Messages : /\ e.parked_chunks[m] \in Seq(Shards)
                          /\ Len(e.parked_chunks[m]) <= MaxParked

(* Type invariant: every session of every node is sound, the bounded buffers *)
(* are within their bounds, and no drain ends in the middle of a round.      *)
TypeOK ==
  /\ \A n \in Peers : EngineOK(world.engines[n])
  /\ world.ok \in BOOLEAN /\ ~world.stalled
  /\ steps \in Nat \cup {Idle}
  /\ InMemory => world.hub.registered \subseteq Peers
  /\ ~InMemory => \A d \in world.hub.dropped : d \in Peers \X Frame

-----------------------------------------------------------------------------
(* Nothing is left to do: every call was made and every event was handled. *)
Quiet ==
  /\ script = <<>> /\ steps = Idle
  /\ \A n \in Peers : world.hub.inbox[n] = <<>>
  /\ ~InMemory => world.hub.heap = {}

(* The frames of the link the simulator dropped, and whether MemoryNet knows *)
(* every subscriber to the end: an open that fails for one of them ends the  *)
(* publication or the drain for all.                                         *)
DroppedOn(a, n) ==
  IF InMemory THEN {} ELSE {d[2] : d \in {x \in world.hub.dropped : x[1] = a /\ x[2].to = n}}
AllReachable(a) == InMemory => world.engines[a].subscribers \subseteq world.hub.registered

StateOf(n, m) ==
  IF m \in DOMAIN world.engines[n].sessions THEN world.engines[n].sessions[m].state ELSE "None"
Reconstructed(n) == {m \in Messages : StateOf(n, m) = "Reconstructed"}
Served(n, m) ==
  \/ StateOf(n, m) = "Origin"
  \/ /\ StateOf(n, m) = "Reconstructed"
     /\ \/ m \in world.engines[n].sink \cup world.engines[n].received
        \/ Cardinality(Reconstructed(n)) > SinkCap

(* The frames of m from a that n must not miss: the open, and all chunks but *)
(* the parity.                                                               *)
EnoughArrived(a, n, m) ==
  /\ [kind |-> "open", to |-> n, message |-> m] \notin DroppedOn(a, n)
  /\ Cardinality({f.chunk_id : f \in {g \in DroppedOn(a, n) :
                                         g.kind = "chunk" /\ g.message = m}})
       <= NumShards - NumData

(* When everything is quiet, every subscriber of a publisher has the message: *)
(* whatever the order in which the engines ran and although up to num_parity  *)
(* of its chunks were lost, chunks overtook the open that announces them, or  *)
(* other nodes relayed meanwhile.  It is missing from the sink only of a node *)
(* that reconstructed more messages than the sink holds.  The exception is a  *)
(* publisher with a subscriber that vanished (publish, drain_session,         *)
(* park_chunk, try_send in maybe_decode_and_deliver).                         *)
SubscribersServed ==
  Quiet => \A a, n \in Peers, m \in Messages :
    /\ a # n /\ StateOf(a, m) = "Origin" /\ n \in world.engines[a].subscribers
    /\ AllReachable(a) /\ EnoughArrived(a, n, m)
    => Served(n, m)

(* When everything is quiet, a relay that reconstructed a message has brought *)
(* it to every subscriber, or has spent its forward_multiplier on each shard  *)
(* the subscriber lacks: no shard it could still forward waits for an event   *)
(* that does not come, in particular after subscribers it served detached.    *)
RelaysServe ==
  Quiet => \A a, n \in Peers, m \in Messages :
    /\ a # n /\ StateOf(a, m) = "Reconstructed" /\ n \in world.engines[a].subscribers
    /\ AllReachable(a) /\ DroppedOn(a, n) = {} /\ ~Served(n, m)
    => \A i \in world.engines[a].sessions[m].chunks :
         \/ StateOf(n, m) # "None" /\ i \in world.engines[n].sessions[m].chunks
         \/ world.engines[a].sessions[m].planner.allocation[i] >= ForwardMultiplier

(* MemoryNet loses no notice of a reconstruction: who opened a session to a  *)
(* node is in its opener list, is about to be told, or has stopped serving   *)
(* that node.  An opener that comes after the reconstruction stays listed    *)
(* and is never told (NotifyOpeners, the open in send).                      *)
OpenersTold ==
  InMemory => \A a, n \in Peers, m \in Messages :
    n \in world.engines[a].opened_to[m] =>
      \/ a \in world.hub.inbound_openers[n][m]
      \/ n \notin world.engines[a].sessions[m].attached_peers
      \/ a \notin world.hub.registered
      \/ Contains(world.hub.inbox[a],
                  [kind |-> "peer_reconstructed", peer |-> n, message |-> m])

(* A peer may miss the subscription of a node: the node heard the peer's          *)
(* handshake before it called connect and sends none of its own, the peer did not *)
(* host the channel yet, or a send failed.  However it was missed, subscribing    *)
(* again makes up for it: when everything is quiet, the connected peers that      *)
(* hosted the channel by then know the node, and it has the messages they         *)
(* published meanwhile (subscribe, subscribe_peer, drain_channel).  The exception *)
(* is a node with a connected peer that vanished, at which subscribe stops again. *)
ResubscribeRepairs ==
  Quiet => \A a, n \in Peers :
    /\ a \in world.engines[n].reannounced
    /\ InMemory => world.engines[n].connected \subseteq world.hub.registered
    /\ AllReachable(a) /\ DroppedOn(n, a) = {} /\ DroppedOn(a, n) = {}
    => /\ n \in world.engines[a].subscribers
       /\ \A m \in Messages : StateOf(a, m) = "Origin" => Served(n, m)

-----------------------------------------------------------------------------
Undelayed(a, n) ==
  \A i \in DOMAIN world.hub.rules :
    LET r == world.hub.rules[i] IN
    r.src # a \/ r.dst # n \/ r.action \notin {"delay_if", "delay_jitter"}

(* SimNet, whatever the mix of sends, sleeps, advance_to and pumping: no      *)
(* pending entry lies in the past (the debug_assert of pop_next), and a link  *)
(* without delay rules is FIFO although other links delay and drop and        *)
(* simultaneous entries share one heap: what is pending on it was sent after  *)
(* everything that arrived.                                                   *)
TimeAndOrder ==
  ~InMemory => \A e \in world.hub.heap :
    /\ e.at >= world.hub.now
    /\ Sim!IsDelivery(e) /\ Undelayed(e.event.peer, e.dst) =>
         e.seq > world.hub.arrived[<<e.event.peer, e.dst>>]

(* The engines come to rest: no exchange of handshakes, updates, chunks and  *)
(* results goes on for ever (run_to_quiescence calls that a message storm).  *)
Settles == <>[](~Busy)
=============================================================================
