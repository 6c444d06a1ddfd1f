# A TLA+ model of ethp2p-rs

ethp2p-rs broadcasts messages between peers. A message is cut into
Reed-Solomon shards, any `num_data` of which rebuild it; the node that publishes
it (the *origin*) sends shards to its subscribers, and they (the *relays*) send
the shards they receive to theirs. This directory holds TLA+ modules that model
the broadcast crate, the QUIC transport and the simulator, the TLC configurations that check them, and proofs that
TLAPS checks.

    tlc -workers 2 -config MCSession.cfg MCSession          # a run
    tlapm SessionProofs.tla                                 # a proof module

`PROJECT.json` lists the runs, which source lines each definition models, the
hazards and the properties aimed at them, the findings and the theorems.

## 1. The system

Paths are relative to `src/crates/`; `broadcast` is `ethp2p-broadcast/src`.

| Component | State | Operations | Hard part |
|---|---|---|---|
| Emit planner, `broadcast/strategy/rs/planner.rs` | heap of (allocation, shard), allocation and sent counts, in-flight marks and have-list per peer | allocate, record_sent, cancel_in_flight, refund_allocation, remove_peer, set_peer_havelist | the heap is invalidated lazily; budget is spent and refunded in any order |
| Strategy, `broadcast/strategy/rs/state.rs` | shards held, attached peers, dispatches by handle, last bitmap emitted | take_chunk, attach/detach_peer, poll_chunks, chunk_sent, routing_update, poll_routing | outcomes come late, after departures and re-attachments |
| Session, `broadcast/session.rs` | Origin, Consuming, Decoding, Reconstructed, Failed | take_chunk, decode_and_finish, poll | completes on exactly the right chunk |
| Channel, `broadcast/channel.rs` | subscribers, sessions | (un)subscribe_peer, open_session, start_origin_session | subscriptions cross the creation of sessions |
| Engine, `broadcast/engine.rs` | channels, connected peers, pending sends, preambles, opened sessions, meta data, tombstones, parked chunks | publish, connect, subscribe, one handler per NetEvent, drain, cleanup | any send of a handler may fail; results, disconnections and timeouts come in any order |
| Net, `broadcast/runtime/mod.rs` | none | NetSend, NetEvent | the contract between engine and transport |
| QUIC transport, `ethp2p-transport/src/lib.rs` | outbound queue, pump and reader tasks per connection, streams, tracker of reconstructed messages | dial, accept, send, pump, read, stop, watch | bounded queues and stream credit, wakeups, streams lost on errors |
| In-memory net, `broadcast/runtime/memory_net.rs` | hub of senders, opener table | send, recv | openers race reconstruction |
| Codec, `broadcast/strategy/rs/{encode,decode,verify}.rs` | none | encode, decode, verify | padding and size edges |
| Bitmap, framing, configuration | none | conversions, validation | byte and length boundaries |
| Simulator, `ethp2p-sim/src` | event heap, virtual time, fault rules | send, sleep, pump, advance_to, run_to_quiescence | order of simultaneous entries, losses, no acknowledgements |

The engine owns its channels, a channel its sessions, a session its strategy and
the strategy its planner; all of these calls are synchronous and run in the
engine's task. The engine talks to other tasks through `Net` only: it sends
frames, which may be refused at once, and takes events from one inbound channel.
For every chunk the transport took it is told once how the send ended
(`ChunkSendResult`), with the dispatch handle as a token.

## 2. The modules

| Module | Models | Form |
|---|---|---|
| `EmitPlanner` | planner.rs | a planner is a record, a method an operator on it |
| `RsStrategy` | state.rs and session.rs over it | the same, for a session |
| `Session` | one session and its caller | actions; extends `RsStrategy` |
| `ShardBudget` | what the planner promises, without a heap | abstract specification |
| `PeerQueues` | the transport as the engine sees it, for several peers | operators on the net's variables |
| `Engine` | engine.rs and channel.rs | actions; extends `RsStrategy`, instantiates `PeerQueues` |
| `QuicStreams` | one direction of one connection of the transport | actions; instantiates `PeerQueues`, which it implements |
| `MemoryNet`, `SimNet` | memory_net.rs; net.rs, state.rs and clock.rs of the simulator | a hub is a record, a method an operator on it |
| `Nodes` | several engines on such a hub | operators; extends `RsStrategy` |
| `Network` | programs that drive the engines, runner.rs | actions; extends `Nodes` |
| `BitMap` | bitmap.rs | operators |
| `RsCodec` | configuration, encode, chunk streams, verify, decode | actions; extends `BitMap` |
| `MCSession`, `MCEngine`, `MCNetwork`, `MCRsCodec` | constants for TLC | |
| `EmitPlannerProofs`, `RsStrategyProofs`, `SessionProofs`, `BudgetProofs`, `QuicStreamsProofs` | lemmas and theorems | |

**EmitPlanner.** The `BinaryHeap` is a bag of entries, stale and duplicate ones
included. `allocate` pops until it meets an entry that passes its tests;
`Candidates` are the entries that would pass, `Chosen` is the first of them in
the heap's order, and `Popped` what is lost or pushed back on the way. The
Fibonacci hash is a function `fib` from `Priorities`, since only the order it
gives matters.

**RsStrategy.** Bytes are abstracted to two facts: a chunk is *valid* when
`verify_chunk` accepts it, and a preamble is *decodable* when its hashes are
those of one codeword, so that decoding `num_data` valid chunks gives the
message with the preamble's hash. A relay does not know the second until it
decodes; this is how a session comes to `Failed`.

**Session.** Any call in any order by a caller that owes each dispatch one
`chunk_sent`. It is stronger than the engine as a source of orders, and weaker
in one way: the engine does not always make the callback (finding 2).
`poll_chunks` is one step per attached peer, because each iteration is an
`allocate`; no other call is made until it is over. `owed` is the caller's
knowledge, kept to state what a late callback may find.

**Engine.** The engine's task runs a handler to its end, but other tasks change
the queues meanwhile, so a handler is split at its sends: `todo` is what it has
left to do and `round` the iteration of `drain_session` it is in. Calls and
events wait until `todo` is empty. All that the code does in a handler is in its
`todo`: the drain, the replay of parked chunks, the decode, and the cleanup that
ends every `run_one_step`. An error leaves the code where `?` or `let _ =`
leaves it: `AbortDrain` drops the dispatches and sessions not yet served.
Remaining points:

- Maps without an entry and empty entries read alike in `opened_to` and
  `parked_chunks`, as in the code.
- The clock stands still within a handler. The code reads it several times; the
  differences are far below the durations in `EngineConfig`.
- `PeerReconstructed` and `SessionClosed` have the same handler and are one
  action. A reconstructed session's own notice has no effect on this net.
- `delivered_at`, `untold` (the connected peers our subscription is still due to)
  and `refused` (whether a frame of a publication or drain was refused) are history
  variables; only properties read them.

**PeerQueues.** A connection gets a fresh peer id (`next_peer_id`) and announces
itself before anything is read from it (`Announced`). A full queue or a closed
connection refuses a frame. The pump takes one frame at a time and, for a chunk,
reports the outcome; a connection that is gone fails what is left in its queue.
Results, and notices of connections, are kept per peer and in separate
sequences, although the code has one inbound channel: pump and reader are
different tasks, so their events can come in either order.

**QuicStreams.** The pump takes a frame, opens a stream for it if it needs one
(waiting for credit, `CanOpen`) and writes; a failed write drops every stream
the pump keeps. At the receiver every stream has a task. A SESS task that knows
its session waits in `wait_reconstructed`, which is three steps because
`record` may come between any two of them: register with the `Notify`, look at
the tracker, wait. When it finds the message it stops the stream, and a watcher
task at the sender reports that stop. quinn is external: streams deliver what was
written in order, a stop arrives unless it crosses the acknowledged end of the
stream, a lost connection fails writes and may cut off what was not read.

**MemoryNet, SimNet, Nodes, Network.** Both nets answer a send at once, so a
handler of an engine is one step here; `Nodes` has the handlers of `Engine` in
that form, for one channel and without the sweep, whose durations are longer than
these runs. Over `MemoryNet` the engines are tasks and interleave with the calls
of the program; over `SimNet` the program is the only thread and the order is
the heap's. A *scenario* is a hub, its fault rules, the generator's draws, and
the calls of the program in order. `reannounced`, `dropped` and `arrived` are
history: the peers that hosted the channel when a node subscribed to it again,
what a rule dropped, what arrived.

Three texts differ from the code without a run that shows it.
`MemoryNetHub::disconnect` says that pending events are dropped
(`memory_net.rs:65-67`), but what is queued can still be taken. The comment on
`peer_pump` says that it exits when a write fails (`lib.rs:416-419`), but it goes
on. `openspec/specs/broadcast-engine/spec.md:295-296` says that `connect(peer)`
"SHALL trigger the BCAST handshake", but when the peer's handshake was handled
first the peer is in `connected` already and ours is not sent (`engine.rs:289`);
the peer then learns of our subscription only from a later `subscribe`.

**RsCodec, BitMap.** A payload byte is its position, padding is 0, and every
parity byte is a number of its own, so an index that is off by one or a misplaced
cut shows. A hash is the bytes it was made of. That any `num_data` shards of a
codeword give its data shards is what the Reed-Solomon library promises. The
receiver may see preambles other than the encoder's (`Variants`), to reach
`validate_preamble` and the errors of `decode`. A limb and a byte are sets of
bits with their widths as constants, two bytes of two bits in the run, so that
six shards cross both boundaries.

## 3. The runs

All end within three minutes. Sizes are in the `.cfg` files.

| Run | Instance | Checks |
|---|---|---|
| `session` | 2 peers, 2 shards, origin and relay with multiplier 1, reported bitmaps, 2 faults; 611,732 states | `TypeOK`, `EveryShardLive`, `MarksMatchDispatches`, `HandlesResolvable`, `AllocationCoversSends`, `RelayBudget`, `CompletesAtNumData`, `HeapGrowsByRefunds`, `ImplementsBudget` |
| `engine_dispatch` | 2 peers, queues of 2, lost connections, failed writes, 5 events, fairness; 1,283,341 states | `TypeOK`, `AttachedAreSubscribers`, `PendingAwaitsResult`, `ResultsNameTheirSend`, `SessionsSound`, `ChunksFollowOpen`, `DecodedByTheSameHandler`, `QuietMeansServed`, `EventuallyServed` |
| `engine_lifecycle` | 1 peer, 1 shard, queue of 1, clock to 3, three kinds of preamble, 7 events; 1,720,794 states | `TablesAgree`, `SweptOnTime`, `ParkedInOrder`, `NoRedelivery` |
| `quic` | 2 messages, queue of 1, credit for 3 streams, tracker of 1, 4 frames, 1 fault, fairness; 322,898 states | `TypeOK`, `ToldTruthfully`, `PinHolds`, `OpenerTold`, `ChunksArrive`, `PumpMoves`, `ImplementsPeerQueues` |
| `network` | 3 nodes, 3 shards of which 2 decode, 2 messages, 103 scenarios, fairness; 64,468 states | `TypeOK`, `SubscribersServed`, `RelaysServe`, `OpenersTold`, `ResubscribeRepairs`, `TimeAndOrder`, `Settles` |
| `codec` | 9 configurations, payloads of 0 to 6 bytes, 5 preambles, 2 broken streams; 1,428,784 states | `TypeOK`, `WholeChunks`, `DecodesToPayload`, `HavelistFaithful` |
| `session_held`, `engine_leak`, `engine_stall`, `engine_token`, `engine_untold`, `quic_reopen` | as small as shows it | one property each, violated: see the findings |

What the larger compositions show:

- `quic`. The engine is told of a reconstruction only when there was one, and
  told in the end, unless the connection is lost, a failed write dropped the
  stream, or the tracker evicted the key. A chunk reported as sent arrives. The
  pump stops for good only when the SESS streams it never finishes hold all the
  credit. `ImplementsPeerQueues` is the refinement: what the pump, its streams
  and the connection's end do to the queue and the results is what `PeerQueues`,
  on which the engine runs rest, allows.
- `network`. Whatever the order of the engines, and with up to `num_parity`
  chunks lost, chunks before their open and other nodes relaying, a quiet network
  has served every subscriber of a publisher; `SubscribersServed` excepts a node
  whose delivery channel was full, which drops the message, and publishers with a
  subscriber that cannot be reached, since an error there ends the publication. A
  relay has nothing left that it could forward. A peer may miss a subscription,
  because our handshake was not sent, the peer did not host the channel yet, or a
  send failed; subscribing again makes up for it, also for messages published
  meanwhile (`ResubscribeRepairs`), unless a connected peer has vanished, at which
  `subscribe` stops again. The engines come to rest in every scenario.
- `engine_lifecycle`. The peer of the run subscribes by a handshake, so that the
  tables of opened sessions and pending sends fill before the sweep empties them.
- `codec`. Every shape that `encode` accepts decodes to the payload from any
  `num_data` shards, with one exception stated in `DecodesToPayload`: shards
  above `MAX_CHUNK_DATA_BYTES`, which `encode` makes and `write_chunk` refuses.

**Bounds.** `MaxFaults` bounds the failed sends and detachments of a session and
the lost connections, unreadable frames and oversize chunks of a connection,
`MaxSends` the frames of a connection, `MaxEvents` the calls, events and faults
an engine meets, `MaxTime` the clock, `MaxCuts` the streams that end early.
What the engine and the transport do by themselves (steps of a handler, the
pump, results, notices, new connections) is not bounded. Two peers and two
shards are the least with which one peer's failure can harm another and the
order of the heap matters. In `session` the constraint `FaultBound` keeps the
second fault to relays that can decode: without a cap on allocations, or without
a decode, a second refund meets the same code. Five events are enough to publish
or open, subscribe both peers, and meet a fault in the middle; seven to
subscribe, open and complete a session, sweep it and then its tombstone, and open
and complete it again. Four frames are a handshake and two opens with a chunk or update;
with a tracker of one key and credit for three streams the second message evicts
the first, and the control stream with two sessions exhausts the credit. The
scenarios of `network` are programs over a chain and a mesh with each kind of
call and fault rule; every sequence of four draws and every set of lost chunks is
tried. The runs other than `session` and `session_held` switch deadlock checking off, since these
systems stop when the events, frames or calls are spent. `engine_dispatch` keeps
the clock at 0, so no session is disposed of there: with disposal
`ResultsNameTheirSend` fails (finding 4).

**Fairness.** Nothing is assumed of calls of the application, faults or the clock.

- `Engine`: `Fair` says that a behaviour does not stop before the engine is
  `Quiet`, that is, while a handler has steps left, a pump has frames, or results
  and notices wait. It does not say which of them goes on, so it is weaker than
  fairness of each task; the runtime schedules every ready task, and
  `run_one_step` is called in a loop. `QuietMeansServed` and `EventuallyServed`
  claim nothing once the net has refused a frame of a publication or drain,
  because findings 2 and 3 break them there; failed writes, lost connections,
  resets, departures and re-subscriptions are covered.
- `QuicStreams`: `WF_vars(Tasks)`, some task of the two nodes that can run is
  polled, and QUIC delivers stops while the connection is up. It is weaker than
  fairness of each task, and enough because frames are bounded.
- `Network`: the program goes on and some engine with an event is polled. `Fair`
  is `WF_vars(Next)` written out with `Busy`, the condition under which `Next` is
  enabled, which TLC evaluates faster.

## 4. Findings

1. `session_held`. A relay allocates shards it does not hold, which a comment
   says cannot happen (`strategy/rs/state.rs:292-294`), and the cancelled
   allocation is not refunded.
2. `engine_leak`. When `SessionOpen` to one peer is refused, `drain_session`
   returns and the dispatches polled for other peers are never resolved; the
   trait promises exactly one callback for each (`strategy/mod.rs:130-132`).
3. `engine_stall`. A refused chunk is said to be retried because at least one
   chunk of the session is pending (`engine.rs:658-660`). The queue is shared by
   all sessions and control frames, so there may be none.
4. `engine_token`. A result is matched by message and token. When a disposed
   message is published again the tokens start at 0 again, and an old result
   resolves a new send, possibly to another peer.
5. `quic_reopen`. After a failed write the pump drops all streams "so streams
   reopen on next use" (`ethp2p-transport/src/lib.rs:428-430`). The control
   stream does; a SESS stream does not, since only `SessionOpen` opens one and
   the engine sends it once per session and peer. Later routing updates of the
   session are dropped, also for sessions whose own stream had not failed.
6. `engine_untold`. `subscribe` stops at the first refused frame, where a comment
   and the specification say that all connected peers receive `Subscribe`
   (`engine.rs:258`, `openspec/specs/broadcast-engine/spec.md:293-294`). The
   transport says that a refused control frame is retried on the engine's next
   drain (`ethp2p-transport/src/lib.rs:36-37` and `165-167`); no drain sends it.
   In the run the peer is later served a whole publication, with room in its queue
   for every frame, and is never told. Only another call of `subscribe` tells it
   (`ResubscribeRepairs`).

## 5. The proofs

`SessionProofs` proves, for every finite set of peers, number of shards,
multiplier, threshold, set of priorities, of bitmaps and of modes, and every
bound `MaxFaults`, that all behaviours of `Session` satisfy `TypeOK`,
`EveryShardLive`, `MarksMatchDispatches`, `HandlesResolvable`,
`AllocationCoversSends`, `RelayBudget` and `CompletesAtNumData`. The assumptions
are those stated with the constants.

None of these is inductive alone. The inductive invariant is

    Inv == TypeOK /\ SessionInv(session) /\ HandlesResolvable

where `SessionInv` is the planner's invariant (types, a live heap entry per
shard, allocations that cover what is sent and in flight, the cap), the agreement
of marks and handles, and that handles in flight are fresh and unique. The
argument:

- A refund must find a unit to give back. That needs allocations to cover sends,
  which in turn needs each mark to be cleared once: marks agree with handles, and
  a handle is resolved once because handles are not reused.
- `RelayBudget` follows from cover and cap together.
- A live entry survives a pop because the code pushes back what it skips, and
  survives a change of count because both `allocate` and `refund_allocation`
  push the entry of the new count.
- `CompletesAtNumData` is preserved relative to `Inv`: only `take_chunk` changes
  the shards a relay holds (`LifecycleFrames`), by at most one, and it leaves
  `Consuming` on the shard that makes `num_data` (`TakeCompletes`).

`EmitPlannerProofs` shows each planner method to preserve the planner's part,
`RsStrategyProofs` each session method to preserve `SessionInv`, and
`SessionProofs` each action to preserve `Inv`. The lemmas on the methods are
independent of `Session`, so the engine can be proved about with them.

`BudgetProofs` proves `Spec => ImplementsBudget` from the same invariant: every
call of `Session` is a step of `ShardBudget` or leaves it alone. Two steps need
the invariant. A poll maps to an `Offer` (or, for a shard that is not held, an
`Abandon`) only if the entry `allocate` stops at is the least allocated shard
that the peer may be offered; every such shard has a live entry, so none is
missed (`ChosenIsLeast`). A failed send and a departure map to steps that take
one off the allocation of each shard given back, where the code does so only if
the count is above zero; it is, because allocations cover what is in flight
(`MarkedIsAllocated`).

`QuicStreamsProofs` proves, for every number of messages, frames and faults and
every limit of queue, credit and tracker, that `QuicStreams` satisfies `TypeOK`
(the queue and the tracker within their limits, the kept streams among those that
exist) and `ToldTruthfully`. The inductive invariant adds two facts:

    Inv == TypeOK /\ Range(tracker) \subseteq Range(reconstructed)
                  /\ StopsTruthful /\ ToldTruthfully

A watcher reports what the stop's code says, so a stop with `ERR_RECONSTRUCTED`
must be truthful (`StopsTruthful`); it is sent on the word of the tracker, which
therefore must hold only keys that were recorded, through every eviction.

The same module proves `Spec => ImplementsPeerQueues`, the refinement that lets
`Engine` run on `PeerQueues` in place of the streams. It needs one more
invariant, `UpIsRegistered`: while the connection is up its peer is registered.
`PeerQueues` reports a chunk as sent only for a peer whose connection is open, so
this is what a successful outcome of the pump has to imply.

**Only model-checked.** `HeapGrowsByRefunds`, which is by induction over a bag;
`PinHolds`; everything about
`Engine`, `Network` and `RsCodec`; and the temporal properties `EventuallyServed`,
`OpenerTold`, `ChunksArrive`, `PumpMoves` and `Settles`, since TLAPS does not
prove liveness under fairness. Induction over data and RECURSIVE operators are
out of its reach too. `Nodes` has the one RECURSIVE operator, `DrainSession`, and
no proof module uses `Nodes`.

## 6. Not modelled

- TLS and the transport's parameters, generated messages: library settings and
  declarations without state of their own.
- Of the transport: binding the endpoint and accepting connections from strangers
  beyond the fresh peer id; a connection is modelled once it is up, and its two
  directions separately.
- Of the simulator: the trace, which nothing reads back, and the spawner.
- The field arithmetic of the Reed-Solomon library, SHA-256, quinn and tokio:
  external, by what the code relies on.
- The instants at which the pump holds a frame while it waits in `open_uni`: the
  model's frame stays at the head of the queue until it is written, so a queue of
  n stands for a queue of n-1 and the frame in hand.
- Of the codec: the checks that a hash has 32 bytes (`verify.rs:83-93`), since a
  hash is the bytes it was made of, and the duplicate index of `decode`, since the
  strategy keeps its chunks in a map. A stream with an unspecified or unknown
  selector: the guard is there, but both ends write what this code writes.
- The length prefix of a frame and its limit; `from_bytes` with a wrong number of
  bytes; a handshake of another protocol version, of which there is one only.
- Several channels in one engine: they share nothing but `connected`, the
  per-peer queues and the delivery channel.
- Engines over QUIC as one composed model: `Engine` runs over `PeerQueues`, and
  `QuicStreams` is shown to implement its queue. The product of both is beyond
  TLC.
- Overflow of the 64-bit handles, and of the inbound queue, which is unbounded
  in the code.
