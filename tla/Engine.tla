------------------------------- MODULE Engine -------------------------------
(***************************************************************************)
(* The broadcast engine (ethp2p-broadcast/src/engine.rs) hosting one       *)
(* channel (channel.rs) and its sessions, over the per-peer queues of its  *)
(* Net.                                                                    *)
(*                                                                         *)
(* The engine is one task: a handler runs to its end before the next event *)
(* is taken.  Net::send, the only call that meets other tasks, may fail at *)
(* any point of a handler, so a handler is broken into steps there: todo   *)
(* lists what the running handler has left to do and round is the          *)
(* iteration of drain_session it is in.  The transport's tasks interleave  *)
(* with these steps; calls and events wait until todo is empty.            *)
(***************************************************************************)
EXTENDS RsStrategy, Sequences, Functions

CONSTANTS Messages,             \* message identifiers, ordered
          QueueCap,             \* depth of a peer's outbound queue
          SinkCap,              \* capacity of the delivery channel
          MaxParked,            \* MAX_PARKED_CHUNKS_PER_MESSAGE
          ActiveSessionTtl, ReconstructedLinger, TombstoneTtl, CleanupInterval,
          ParkedChunkTtl,       \* EngineConfig and PARKED_CHUNK_TTL, in ticks
          Preambles,            \* the preambles of SessionOpen considered
          EventKinds,           \* the calls and events considered
          MaxEvents,            \* bound on their number
          MaxTime               \* bound on the clock

ASSUME MessagesAssumption == Messages \subseteq Nat
ASSUME CapsAssumption == QueueCap \in Nat \ {0} /\ SinkCap \in Nat /\ MaxParked \in Nat \ {0}
ASSUME DurationsAssumption ==
  {ActiveSessionTtl, ReconstructedLinger, TombstoneTtl, CleanupInterval, ParkedChunkTtl}
    \subseteq Nat
ASSUME BoundsAssumption == MaxEvents \in Nat /\ MaxTime \in Nat

VARIABLES
  hosted,             \* whether the channel is in Engine::channels
  connected,          \* Engine::connected
  subscribers,        \* Channel::subscribers
  sessions,           \* Channel::sessions, a function on the live message ids
  pending_sends,      \* Engine::pending_sends, as records
  session_preambles,  \* keys of Engine::session_preambles
  opened_to,          \* Engine::opened_to; an absent entry is the empty set
  session_meta,       \* Engine::session_meta
  tombstones,         \* Engine::tombstones
  parked_chunks,      \* Engine::parked_chunks; an absent entry is <<>>
  next_cleanup, now,
  sink,               \* messages in the delivery channel
  delivered_at,       \* history: when each message was last put there, or Never
  todo, round,        \* the rest of the running handler
  untold,             \* history: connected peers our subscription is still due to
  refused,            \* history: whether the net refused a frame of a drain or publish
  next_peer_id, linked, queue, results, notices,
  events              \* calls, events and faults so far

INSTANCE PeerQueues

netVars     == <<next_peer_id, linked, queue, results, notices, refused>>
peerVars    == <<hosted, connected, subscribers, untold>>
recordVars  == <<session_preambles, opened_to, session_meta, tombstones, parked_chunks>>
deliveryVars == <<sink, delivered_at>>
timeVars    == <<now, next_cleanup>>
vars == <<peerVars, sessions, pending_sends, recordVars, timeVars, deliveryVars,
          todo, round, netVars, events>>

Never == -1
Least(S) == CHOOSE x \in S : \A y \in S : x <= y
Put(f, k, v) == [x \in DOMAIN f \cup {k} |-> IF x = k THEN v ELSE f[x]]
Without(f, S) == Restrict(f, DOMAIN f \ S)

-----------------------------------------------------------------------------
(* The tasks a handler is made of, in the order the code performs them. *)
Idle == [message |-> Never, polling |-> {}, routes |-> {}, dispatches |-> <<>>,
         worked |-> FALSE, stalled |-> FALSE]
Cleanup == <<[op |-> "cleanup"]>>
Drain(ms) == IF ms = {} THEN <<>> ELSE <<[op |-> "drain", messages |-> ms]>>
Deliver(m, complete) ==
  IF complete THEN <<[op |-> "deliver", message |-> m]>> ELSE <<>>
Replay(m) ==
  IF parked_chunks[m] = <<>> THEN <<>>
  ELSE <<[op |-> "replay", message |-> m, complete |-> FALSE]>>
Advertise(ps) == IF ps = {} THEN <<>> ELSE <<[op |-> "advertise", peers |-> ps]>>
OpenThenDrain(m, ps) ==
  IF ps = {} THEN Drain({m}) ELSE <<[op |-> "publish", message |-> m, peers |-> ps]>>

Ready == todo = <<>>
Doing(op) == todo # <<>> /\ Head(todo).op = op
Spend(kind) ==
  kind \in EventKinds /\ events < MaxEvents /\ events' = events + 1

Init ==
  /\ hosted = FALSE /\ connected = {} /\ subscribers = {}
  /\ sessions = << >> /\ pending_sends = {}
  /\ session_preambles = {} /\ opened_to = [m \in Messages |-> {}]
  /\ session_meta = << >> /\ tombstones = << >>
  /\ parked_chunks = [m \in Messages |-> <<>>]
  /\ now = 0 /\ next_cleanup = CleanupInterval
  /\ sink = 0 /\ delivered_at = [m \in Messages |-> Never]
  /\ todo = <<>> /\ round = Idle
  /\ untold = {} /\ refused = FALSE
  /\ NetInit
  /\ events = 0

-----------------------------------------------------------------------------
(* Engine::subscribe. *)
Subscribe ==
  /\ Ready /\ Spend("subscribe")
  /\ hosted' = TRUE
  /\ todo' = Advertise(connected)
  /\ untold' = connected
  /\ UNCHANGED <<connected, subscribers, sessions, pending_sends, recordVars,
                 timeVars, deliveryVars, round, netVars>>

AdvertiseTo ==
  /\ Doing("advertise")
  /\ LET peer == Least(Head(todo).peers) IN
     IF CanSend(peer)
     THEN /\ queue' = Enqueued(peer, [kind |-> "subscribe"])
          /\ todo' = Advertise(Head(todo).peers \ {peer}) \o Tail(todo)
          /\ untold' = untold \ {peer}
     ELSE /\ todo' = Tail(todo)
          /\ UNCHANGED <<queue, untold>>
  /\ UNCHANGED <<hosted, connected, subscribers, sessions, pending_sends, recordVars,
                 timeVars, deliveryVars, round, next_peer_id, linked, results, notices,
                 refused, events>>

(* register_peer_and_handshake: the peer counts as connected also when the send *)
(* of the handshake fails.                                                      *)
RegisterPeerAndHandshake(peer) ==
  /\ connected' = connected \cup {peer}
  /\ queue' = IF peer \notin connected /\ CanSend(peer)
              THEN Enqueued(peer, [kind |-> "handshake"]) ELSE queue
  /\ untold' = IF peer \in connected \/ ~hosted THEN untold
               ELSE IF CanSend(peer) THEN untold \ {peer} ELSE untold \cup {peer}

(* Engine::connect. *)
Connect(peer) ==
  /\ Ready /\ Spend("connect")
  /\ RegisterPeerAndHandshake(peer)
  /\ UNCHANGED <<hosted, subscribers, sessions, pending_sends, recordVars, timeVars,
                 deliveryVars, todo, round, next_peer_id, linked, results, notices, refused>>

OnPeerConnected(peer) ==
  /\ Ready /\ notices[peer] # <<>> /\ Head(notices[peer]) = "connected"
  /\ notices' = [notices EXCEPT ![peer] = Tail(@)]
  /\ RegisterPeerAndHandshake(peer)
  /\ todo' = Cleanup
  /\ UNCHANGED <<hosted, subscribers, sessions, pending_sends, recordVars, timeVars,
                 deliveryVars, round, next_peer_id, linked, results, refused, events>>

(* record_session_created: an existing entry is kept. *)
RecordSessionCreated(m) ==
  session_meta' = IF m \in DOMAIN session_meta THEN session_meta
                  ELSE Put(session_meta, m, [created_at |-> now, terminal_at |-> Never])

(* Engine::publish up to its first send; the session is registered before any. *)
(* The calls that return UnknownChannel or DuplicateSession change nothing.    *)
Publish(m) ==
  /\ Ready /\ hosted /\ m \notin DOMAIN sessions
  /\ Spend("publish")
  /\ \E fib \in Priorities : sessions' = Put(sessions, m, NewOrigin(fib, subscribers))
  /\ session_preambles' = session_preambles \cup {m}
  /\ RecordSessionCreated(m)
  /\ todo' = OpenThenDrain(m, subscribers)
  /\ UNCHANGED <<peerVars, pending_sends, opened_to, tombstones, parked_chunks,
                 timeVars, deliveryVars, round, netVars>>

(* ensure_session_open of publish, for one subscriber; an error ends publish. *)
PublishOpenTo ==
  /\ Doing("publish")
  /\ LET m == Head(todo).message  peer == Least(Head(todo).peers) IN
     IF peer \in opened_to[m] \/ CanSend(peer)
     THEN /\ queue' = IF peer \in opened_to[m] THEN queue
                      ELSE Enqueued(peer, [kind |-> "open", message |-> m])
          /\ opened_to' = [opened_to EXCEPT ![m] = @ \cup {peer}]
          /\ todo' = OpenThenDrain(m, Head(todo).peers \ {peer}) \o Tail(todo)
          /\ UNCHANGED refused
     ELSE /\ todo' = Tail(todo)
          /\ refused' = TRUE
          /\ UNCHANGED <<queue, opened_to>>
  /\ UNCHANGED <<peerVars, sessions, pending_sends, session_preambles, session_meta,
                 tombstones, parked_chunks, timeVars, deliveryVars, round, next_peer_id,
                 linked, results, notices, events>>

-----------------------------------------------------------------------------
(* Channel::subscribe_peer: a new subscriber is attached to every session. *)
SubscribePeer(peer) ==
  /\ subscribers' = IF hosted THEN subscribers \cup {peer} ELSE subscribers
  /\ sessions' = IF peer \in subscribers THEN sessions
                 ELSE [m \in DOMAIN sessions |-> AttachPeer(sessions[m], peer)]

(* Mutant: the sessions go on serving the peer. *)
UnsubscribeWithoutDetach(peer) ==
  subscribers' = subscribers \ {peer} /\ UNCHANGED sessions

(* Channel::unsubscribe_peer. *)
UnsubscribePeer(peer) ==
  /\ subscribers' = subscribers \ {peer}
  /\ sessions' = IF peer \notin subscribers THEN sessions
                 ELSE [m \in DOMAIN sessions |-> DetachPeer(sessions[m], peer)]

(* A handshake of our version that advertises the channel subscribes the peer *)
(* and drains the channel; one of another version only forgets the peer.      *)
OnHandshake(peer, versionOk, advertises) ==
  /\ Ready /\ Announced(peer) /\ Spend("handshake")
  /\ connected' = IF versionOk THEN connected \cup {peer} ELSE connected \ {peer}
  /\ IF versionOk /\ advertises
     THEN SubscribePeer(peer) /\ todo' = Drain(DOMAIN sessions) \o Cleanup
     ELSE UNCHANGED <<subscribers, sessions>> /\ todo' = Cleanup
  /\ UNCHANGED <<hosted, untold, pending_sends, recordVars, timeVars, deliveryVars,
                 round, netVars>>

OnSubscribe(peer) ==
  /\ Ready /\ Announced(peer) /\ Spend("peer_subscribe")
  /\ SubscribePeer(peer)
  /\ todo' = Drain(DOMAIN sessions) \o Cleanup
  /\ UNCHANGED <<hosted, connected, untold, pending_sends, recordVars, timeVars,
                 deliveryVars, round, netVars>>

(* The refunds of a departing peer are not followed by a drain. *)
OnUnsubscribe(peer) ==
  /\ Ready /\ Announced(peer) /\ Spend("peer_unsubscribe")
  /\ UnsubscribePeer(peer)
  /\ todo' = Cleanup
  /\ UNCHANGED <<hosted, connected, untold, pending_sends, recordVars, timeVars,
                 deliveryVars, round, netVars>>

(* Mutant: the sends of the peer stay pending. *)
PendingKept(peer) == pending_sends

PendingWithout(peer) == {e \in pending_sends : e.peer # peer}

OnPeerDisconnected(peer) ==
  /\ Ready /\ notices[peer] # <<>> /\ Head(notices[peer]) = "disconnected"
  /\ notices' = [notices EXCEPT ![peer] = Tail(@)]
  /\ connected' = connected \ {peer} /\ untold' = untold \ {peer}
  /\ pending_sends' = PendingWithout(peer)
  /\ opened_to' = [m \in Messages |-> opened_to[m] \ {peer}]
  /\ UnsubscribePeer(peer)
  /\ todo' = Cleanup
  /\ UNCHANGED <<hosted, session_preambles, session_meta, tombstones, parked_chunks,
                 timeVars, deliveryVars, round, next_peer_id, linked, queue, results,
                 refused, events>>

(* PeerReconstructed and SessionClosed: detach_session_peer. *)
OnSessionReset(peer, m) ==
  /\ Ready /\ Announced(peer) /\ Spend("session_reset")
  /\ sessions' = IF m \notin DOMAIN sessions THEN sessions
                 ELSE [sessions EXCEPT ![m] = DetachPeer(@, peer)]
  /\ todo' = Cleanup
  /\ UNCHANGED <<peerVars, pending_sends, recordVars, timeVars, deliveryVars, round, netVars>>

(* Mutant: no tombstone is looked up. *)
TombstoneIgnored(m) == FALSE

IsTombstoned(m) == m \in DOMAIN tombstones

(* SessionOpen: ignored while a tombstone stands, for a channel not hosted, for *)
(* a session that exists and for a preamble the factory rejects.  Otherwise the *)
(* session is registered and drained, and the chunks parked for it replayed.    *)
OnSessionOpen(m, preamble) ==
  /\ Ready /\ (\E peer \in Peers : Announced(peer)) /\ Spend("open")
  /\ IF IsTombstoned(m) \/ ~hosted \/ m \in DOMAIN sessions \/ preamble = "rejected"
     THEN /\ todo' = Cleanup
          /\ UNCHANGED <<sessions, session_preambles, session_meta>>
     ELSE /\ \E fib \in Priorities :
               sessions' = Put(sessions, m,
                               NewRelay(fib, preamble = "consistent", subscribers))
          /\ session_preambles' = session_preambles \cup {m}
          /\ RecordSessionCreated(m)
          /\ todo' = Drain({m}) \o Replay(m) \o Cleanup
  /\ UNCHANGED <<peerVars, pending_sends, opened_to, tombstones, parked_chunks,
                 timeVars, deliveryVars, round, netVars>>

(* Mutant: the buffer may exceed its bound by one. *)
ParkedOneMore(m, idx, valid) ==
  LET buf == IF Len(parked_chunks[m]) > MaxParked
             THEN Tail(parked_chunks[m]) ELSE parked_chunks[m]
  IN Append(buf, [chunk_id |-> idx, valid |-> valid, parked_at |-> now])

(* park_chunk: the oldest goes when the buffer is full. *)
Parked(m, idx, valid) ==
  LET buf == IF Len(parked_chunks[m]) >= MaxParked
             THEN Tail(parked_chunks[m]) ELSE parked_chunks[m]
  IN Append(buf, [chunk_id |-> idx, valid |-> valid, parked_at |-> now])

OnChunk(m, idx, valid) ==
  /\ Ready /\ (\E peer \in Peers : Announced(peer)) /\ Spend("chunk")
  /\ \/ /\ IsTombstoned(m)
        /\ todo' = Cleanup
        /\ UNCHANGED <<sessions, parked_chunks>>
     \/ /\ ~IsTombstoned(m) /\ m \notin DOMAIN sessions
        /\ parked_chunks' = [parked_chunks EXCEPT ![m] = Parked(m, idx, valid)]
        /\ todo' = Cleanup
        /\ UNCHANGED sessions
     \/ /\ ~IsTombstoned(m) /\ m \in DOMAIN sessions
        /\ sessions' = [sessions EXCEPT ![m] = TakeChunk(@, idx, valid)]
        /\ todo' = Drain({m}) \o Deliver(m, TakeComplete(sessions[m], idx, valid)) \o Cleanup
        /\ UNCHANGED parked_chunks
  /\ UNCHANGED <<peerVars, pending_sends, session_preambles, opened_to, session_meta,
                 tombstones, timeVars, deliveryVars, round, netVars>>

(* A RoutingUpdate is ignored. *)
OnRoutingUpdate ==
  /\ Ready /\ (\E peer \in Peers : Announced(peer)) /\ Spend("routing")
  /\ todo' = Cleanup
  /\ UNCHANGED <<peerVars, sessions, pending_sends, recordVars, timeVars, deliveryVars,
                 round, netVars>>

(* Mutant: the outcome is not followed by a drain. *)
NoReplan(found, m) == <<>>

(* An outcome that resolves a pending send re-plans its session. *)
Replan(found, m) == IF found # {} THEN Drain({m}) ELSE <<>>

(* resolve_chunk_send: the entry is looked up by message and token only. *)
OnChunkSendResult(peer) ==
  /\ Ready /\ results[peer] # <<>>
  /\ LET r     == Head(results[peer])
         found == {e \in pending_sends : e.message = r.message /\ e.token = r.token}
     IN /\ pending_sends' = pending_sends \ found
        /\ sessions' = IF found # {} /\ r.message \in DOMAIN sessions
                       THEN [sessions EXCEPT ![r.message] = ChunkSent(@, peer, r.token, r.ok)]
                       ELSE sessions
        /\ todo' = Replan(found, r.message) \o Cleanup
  /\ results' = [results EXCEPT ![peer] = Tail(@)]
  /\ UNCHANGED <<peerVars, recordVars, timeVars, deliveryVars, round, next_peer_id,
                 linked, queue, notices, refused, events>>

-----------------------------------------------------------------------------
(* drain_session: each iteration polls the session, sends what it returned and *)
(* repeats, until there is no work or a chunk was refused.                     *)
Draining == Doing("drain") /\ round # Idle
Drained(m) == Drain(Head(todo).messages \ {m}) \o Tail(todo)

StartRound ==
  /\ Doing("drain") /\ round = Idle
  /\ LET m == Least(Head(todo).messages) IN
     IF m \notin DOMAIN sessions
     THEN todo' = Drained(m) /\ UNCHANGED <<sessions, round>>
     ELSE /\ sessions' = [sessions EXCEPT ![m] = PollRouting(@)]
          /\ round' = [Idle EXCEPT
                         !.message = m,
                         !.polling = sessions[m].attached_peers,
                         !.routes  = IF RoutingDue(sessions[m]) THEN subscribers ELSE {},
                         !.worked  = RoutingDue(sessions[m])]
          /\ UNCHANGED todo
  /\ UNCHANGED <<peerVars, pending_sends, recordVars, timeVars, deliveryVars, netVars, events>>

(* poll_chunks, one attached peer after the other. *)
PollChunks ==
  /\ Draining /\ round.polling # {}
  /\ LET m == round.message
         peer == Least(round.polling)
         issued == PolledDispatches(sessions[m], peer)
     IN /\ sessions' = [sessions EXCEPT ![m] = PollPeer(@, peer)]
        /\ round' = [round EXCEPT
                       !.polling = @ \ {peer},
                       !.dispatches = @ \o (IF issued = {} THEN <<>>
                                            ELSE <<CHOOSE d \in issued : TRUE>>),
                       !.worked = @ \/ issued # {}]
  /\ UNCHANGED <<peerVars, pending_sends, recordVars, timeVars, deliveryVars, todo,
                 netVars, events>>

Sending == Draining /\ round.polling = {} /\ (round.routes # {} \/ round.dispatches # <<>>)
Target == IF round.routes # {} THEN Least(round.routes) ELSE Head(round.dispatches).peer

(* An error that leaves drain_session leaves drain_channel too: the dispatches *)
(* not sent yet and the sessions not drained yet are dropped.                  *)
AbortDrain == round' = Idle /\ todo' = Tail(todo) /\ refused' = TRUE

(* ensure_session_open. *)
SendOpen ==
  /\ Sending /\ Target \notin opened_to[round.message]
  /\ IF CanSend(Target)
     THEN /\ queue' = Enqueued(Target, [kind |-> "open", message |-> round.message])
          /\ opened_to' = [opened_to EXCEPT ![round.message] = @ \cup {Target}]
          /\ UNCHANGED <<round, todo, refused>>
     ELSE AbortDrain /\ UNCHANGED <<queue, opened_to>>
  /\ UNCHANGED <<peerVars, sessions, pending_sends, session_preambles, session_meta,
                 tombstones, parked_chunks, timeVars, deliveryVars, next_peer_id,
                 linked, results, notices, events>>

SendUpdate ==
  /\ Sending /\ round.routes # {} /\ Target \in opened_to[round.message]
  /\ IF CanSend(Target)
     THEN /\ queue' = Enqueued(Target, [kind |-> "update", message |-> round.message])
          /\ round' = [round EXCEPT !.routes = @ \ {Target}]
          /\ UNCHANGED <<todo, refused>>
     ELSE AbortDrain /\ UNCHANGED queue
  /\ UNCHANGED <<peerVars, sessions, pending_sends, recordVars, timeVars, deliveryVars,
                 next_peer_id, linked, results, notices, events>>

(* Mutant: the shard index is remembered in place of the token. *)
PendingByChunk(m, d) == [message |-> m, token |-> d.chunk_id, peer |-> d.peer]

Pending(m, d) == [message |-> m, token |-> d.handle, peer |-> d.peer]

(* A chunk the net takes is pending until its result; a refused one is failed *)
(* at once and stalls the drain.                                              *)
SendChunk ==
  /\ Sending /\ round.routes = {} /\ Target \in opened_to[round.message]
  /\ LET m == round.message  d == Head(round.dispatches) IN
     IF CanSend(d.peer)
     THEN /\ queue' = Enqueued(d.peer, [kind |-> "chunk", message |-> m, token |-> d.handle])
          /\ pending_sends' =
               {e \in pending_sends : e.message # m \/ e.token # d.handle}
                 \cup {Pending(m, d)}
          /\ round' = [round EXCEPT !.dispatches = Tail(@)]
          /\ UNCHANGED <<sessions, refused>>
     ELSE /\ sessions' = [sessions EXCEPT ![m] = ChunkSent(@, d.peer, d.handle, FALSE)]
          /\ round' = [round EXCEPT !.dispatches = Tail(@), !.stalled = TRUE]
          /\ refused' = TRUE
          /\ UNCHANGED <<queue, pending_sends>>
  /\ UNCHANGED <<peerVars, recordVars, timeVars, deliveryVars, todo, next_peer_id,
                 linked, results, notices, events>>

EndRound ==
  /\ Draining /\ round.polling = {} /\ ~Sending
  /\ round' = Idle
  /\ todo' = IF round.worked /\ ~round.stalled THEN todo ELSE Drained(round.message)
  /\ UNCHANGED <<peerVars, sessions, pending_sends, recordVars, timeVars, deliveryVars,
                 netVars, events>>

-----------------------------------------------------------------------------
(* Mutant: only the last replayed chunk counts. *)
LastComplete(sofar, outcome) == outcome

AnyComplete(sofar, outcome) == sofar \/ outcome

(* replay_parked_chunks, one chunk; after the last a drain and, if any of them *)
(* completed the session, the decode.                                          *)
ReplayChunk ==
  /\ Doing("replay")
  /\ LET m     == Head(todo).message
         chunk == Head(parked_chunks[m])
         rest  == Tail(parked_chunks[m])
         complete == AnyComplete(Head(todo).complete,
                                 TakeComplete(sessions[m], chunk.chunk_id, chunk.valid))
     IN /\ sessions' = [sessions EXCEPT ![m] = TakeChunk(@, chunk.chunk_id, chunk.valid)]
        /\ parked_chunks' = [parked_chunks EXCEPT ![m] = rest]
        /\ todo' = IF rest # <<>> THEN [todo EXCEPT ![1].complete = complete]
                   ELSE Drain({m}) \o Deliver(m, complete) \o Tail(todo)
  /\ UNCHANGED <<peerVars, pending_sends, session_preambles, opened_to, session_meta,
                 tombstones, timeVars, deliveryVars, round, netVars, events>>

(* maybe_decode_and_deliver: try_send drops the message when the sink is full. *)
MaybeDecodeAndDeliver ==
  /\ Doing("deliver")
  /\ LET m == Head(todo).message
         decoded == sessions[m].state = "Decoding" /\ sessions[m].decodable
         taken == decoded /\ sink < SinkCap
     IN /\ sessions' = [sessions EXCEPT ![m] = DecodeAndFinish(@)]
        /\ session_meta' = IF session_meta[m].terminal_at # Never THEN session_meta
                           ELSE [session_meta EXCEPT ![m].terminal_at = now]
        /\ sink' = IF taken THEN sink + 1 ELSE sink
        /\ delivered_at' = IF taken THEN [delivered_at EXCEPT ![m] = now] ELSE delivered_at
  /\ todo' = Tail(todo)
  /\ UNCHANGED <<peerVars, pending_sends, session_preambles, opened_to, tombstones,
                 parked_chunks, timeVars, round, netVars, events>>

-----------------------------------------------------------------------------
(* Mutant: only sessions that ended are disposed of. *)
ExpiredTerminalOnly ==
  {m \in DOMAIN session_meta :
     /\ session_meta[m].terminal_at # Never
     /\ now - session_meta[m].terminal_at > ReconstructedLinger}

(* run_cleanup: the sessions it disposes of. *)
Expired ==
  {m \in DOMAIN session_meta :
     \/ now - session_meta[m].created_at > ActiveSessionTtl
     \/ /\ session_meta[m].terminal_at # Never
        /\ now - session_meta[m].terminal_at > ReconstructedLinger}

(* Mutant: opened_to keeps the entries of sessions that are gone. *)
OpenedKept == opened_to

(* dispose_session, for every expired session: what stays of opened_to. *)
StillOpened == [m \in Messages |-> IF m \in Expired THEN {} ELSE opened_to[m]]

(* run_cleanup, with dispose_session for every expired session. *)
RunCleanup ==
  /\ sessions' = Without(sessions, Expired)
  /\ session_meta' = Without(session_meta, Expired)
  /\ session_preambles' = session_preambles \ Expired
  /\ opened_to' = StillOpened
  /\ pending_sends' = {e \in pending_sends : e.message \notin Expired}
  /\ tombstones' =
       [m \in Expired \cup {t \in DOMAIN tombstones : now - tombstones[t] <= TombstoneTtl}
          |-> IF m \in Expired THEN now ELSE tombstones[m]]
  /\ parked_chunks' =
       [m \in Messages |->
          IF m \in Expired THEN <<>>
          ELSE SelectSeq(parked_chunks[m], LAMBDA c : now - c.parked_at <= ParkedChunkTtl)]

(* maybe_run_cleanup, at the end of run_one_step. *)
MaybeRunCleanup ==
  /\ Doing("cleanup")
  /\ todo' = Tail(todo)
  /\ IF now < next_cleanup
     THEN UNCHANGED <<sessions, pending_sends, recordVars, next_cleanup>>
     ELSE RunCleanup /\ next_cleanup' = now + CleanupInterval
  /\ UNCHANGED <<peerVars, now, deliveryVars, round, netVars, events>>

-----------------------------------------------------------------------------
(* The transport's tasks, the application and the clock.  The pump commutes   *)
(* with polling, which touches no queue, and the clock stands still within a  *)
(* handler.                                                                   *)
engineVars == <<peerVars, sessions, pending_sends, recordVars, timeVars, deliveryVars,
                todo, round, refused>>

Pump(peer) ==
  /\ round.polling = {} /\ PeerPump(peer, peer \in linked)
  /\ UNCHANGED <<engineVars, events>>

WriteFails(peer) ==
  /\ round.polling = {} /\ peer \in linked /\ PeerPump(peer, FALSE)
  /\ Head(queue[peer]).kind = "chunk" /\ Spend("write_failure")
  /\ UNCHANGED engineVars

Link(peer) ==
  /\ round.polling = {} /\ RegisterPeer(peer)
  /\ UNCHANGED <<engineVars, events>>

Unlink(peer) ==
  /\ round.polling = {} /\ DeregisterPeer(peer) /\ Spend("unlink")
  /\ UNCHANGED engineVars

Receive ==
  /\ sink > 0 /\ sink' = sink - 1
  /\ UNCHANGED <<peerVars, sessions, pending_sends, recordVars, timeVars, delivered_at,
                 todo, round, netVars, events>>

Tick ==
  /\ Ready /\ now < MaxTime /\ now' = now + 1
  /\ UNCHANGED <<peerVars, sessions, pending_sends, recordVars, next_cleanup, deliveryVars,
                 todo, round, netVars, events>>

Calls ==
  \/ Subscribe
  \/ \E peer \in Peers : Connect(peer)
  \/ \E m \in Messages : Publish(m)

Inbound ==
  \/ \E peer \in Peers :
       \/ OnPeerConnected(peer) \/ OnPeerDisconnected(peer) \/ OnChunkSendResult(peer)
       \/ \E versionOk, advertises \in BOOLEAN : OnHandshake(peer, versionOk, advertises)
       \/ OnSubscribe(peer) \/ OnUnsubscribe(peer)
       \/ \E m \in Messages : OnSessionReset(peer, m)
  \/ \E m \in Messages :
       \/ \E preamble \in Preambles : OnSessionOpen(m, preamble)
       \/ \E idx \in 0 .. NumShards, valid \in BOOLEAN : OnChunk(m, idx, valid)
  \/ OnRoutingUpdate

Steps ==
  \/ AdvertiseTo \/ PublishOpenTo
  \/ StartRound \/ PollChunks \/ SendOpen \/ SendUpdate \/ SendChunk \/ EndRound
  \/ ReplayChunk \/ MaybeDecodeAndDeliver \/ MaybeRunCleanup

Transport ==
  \E peer \in Peers : Pump(peer) \/ WriteFails(peer) \/ Link(peer) \/ Unlink(peer)

Next == Calls \/ Inbound \/ Steps \/ Transport \/ Receive \/ Tick

Spec == Init /\ [][Next]_vars

(* Nothing is left to happen by itself: the running handler is at its end, the  *)
(* queues are pumped, and what the transport reported is handled.               *)
Quiet ==
  /\ Ready
  /\ \A peer \in Peers : queue[peer] = <<>> /\ results[peer] = <<>> /\ notices[peer] = <<>>

(* The runtime runs every task that is ready, and there is one unless everything  *)
(* is quiet.  Nothing more is assumed, in particular not which task runs.         *)
Fair == []<>Quiet \/ []<><<TRUE>>_vars
FairSpec == Spec /\ Fair

-----------------------------------------------------------------------------
SessionMeta == [created_at : Nat, terminal_at : Nat \cup {Never}]
ParkedChunk == [chunk_id : 0 .. NumShards, valid : BOOLEAN, parked_at : Nat]
PendingSend == [message : Messages, token : Nat, peer : Peers]
Round == [message : Messages \cup {Never}, polling : SUBSET Peers, routes : SUBSET Peers,
          dispatches : Seq(ChunkDispatch), worked : BOOLEAN, stalled : BOOLEAN]
Task == [op : {"cleanup"}]
          \cup [op : {"drain"}, messages : SUBSET Messages]
          \cup [op : {"deliver"}, message : Messages]
          \cup [op : {"replay"}, message : Messages, complete : BOOLEAN]
          \cup [op : {"advertise"}, peers : SUBSET Peers]
          \cup [op : {"publish"}, message : Messages, peers : SUBSET Peers]

(* Type invariant of the engine and its net. *)
TypeOK ==
  /\ hosted \in BOOLEAN /\ connected \subseteq Peers /\ subscribers \subseteq Peers
  /\ DOMAIN sessions \subseteq Messages
  /\ \A m \in DOMAIN sessions : SessionOK(sessions[m])
  /\ pending_sends \subseteq PendingSend
  /\ session_preambles \subseteq Messages
  /\ opened_to \in [Messages -> SUBSET Peers]
  /\ DOMAIN session_meta \subseteq Messages
  /\ \A m \in DOMAIN session_meta : session_meta[m] \in SessionMeta
  /\ DOMAIN tombstones \subseteq Messages
  /\ \A m \in DOMAIN tombstones : tombstones[m] \in Nat
  /\ parked_chunks \in [Messages -> Seq(ParkedChunk)]
  /\ now \in 0 .. MaxTime /\ next_cleanup \in Nat
  /\ sink \in 0 .. SinkCap /\ delivered_at \in [Messages -> Nat \cup {Never}]
  /\ todo \in Seq(Task) /\ round \in Round
  /\ untold \subseteq Peers /\ refused \in BOOLEAN
  /\ NetTypeOK
  /\ events \in 0 .. MaxEvents

(* The engine's tables are keyed alike: a session, its meta data and its        *)
(* preamble appear and go together, and nothing is kept for one that is gone,   *)
(* so that dispose_session frees everything and drain_session finds a preamble. *)
TablesAgree ==
  /\ DOMAIN session_meta = DOMAIN sessions /\ session_preambles = DOMAIN sessions
  /\ \A m \in Messages \ DOMAIN sessions : opened_to[m] = {}
  /\ \A e \in pending_sends : e.message \in DOMAIN sessions

(* No session serves a peer that is not subscribed: whatever the order of     *)
(* subscriptions, departures and new sessions, a peer that left is served by  *)
(* none (subscribe_peer, unsubscribe_peer, open_session, start_origin_session). *)
AttachedAreSubscribers ==
  \A m \in DOMAIN sessions : sessions[m].attached_peers \subseteq subscribers

(* The chunks of a message whose outcome the engine has not been told yet. *)
Outstanding(peer) ==
  {<<f.message, f.token>> : f \in {g \in Range(queue[peer]) : g.kind = "chunk"}}
    \cup {<<r.message, r.token>> : r \in Range(results[peer])}

(* Every entry of pending_sends still has its ChunkSendResult to come, so none *)
(* stays for ever: sends, disconnections and disposals keep the two in step.   *)
PendingAwaitsResult ==
  \A e \in pending_sends : <<e.message, e.token>> \in Outstanding(e.peer)

(* The debug assertion of RsStrategy::chunk_sent, "chunk_sent peer mismatch for *)
(* handle": a result that will be resolved names the peer its dispatch was for. *)
ResultsNameTheirSend ==
  \A peer \in Peers : \A o \in Outstanding(peer) :
    (\E e \in pending_sends : e.message = o[1] /\ e.token = o[2]) =>
      \A d \in sessions[o[1]].in_flight : d.handle = o[2] => d.peer = peer

(* Every session keeps the invariant of its planner and handles (budget, heap,  *)
(* marks) although the engine refuses, loses and re-plans sends, and drops the  *)
(* rest of a drain on an error.                                                 *)
SessionsSound == \A m \in DOMAIN sessions : SessionInv(sessions[m])

(* A chunk goes only to a peer that was sent the SessionOpen: ensure_session_open *)
(* "Ensure the receiver has an open session before its chunks arrive".            *)
ChunksFollowOpen == \A e \in pending_sends : e.peer \in opened_to[e.message]

(* A handler leaves no session in Decoding: a chunk that completes a session is  *)
(* followed by its decode in the same handler, also when it was parked and       *)
(* replayed among others, and also when the drain between the two fails.         *)
DecodedByTheSameHandler ==
  Ready => \A m \in DOMAIN sessions :
    /\ sessions[m].state # "Decoding"
    /\ session_meta[m].terminal_at # Never <=> sessions[m].state \in {"Reconstructed", "Failed"}

(* After a sweep nothing is over its age; the last sweep was at next_cleanup -  *)
(* CleanupInterval (run_cleanup).  So memory is bounded by the traffic of one   *)
(* time to live and one interval.                                               *)
SweptOnTime ==
  LET swept == next_cleanup - CleanupInterval IN
  /\ \A m \in DOMAIN session_meta :
       /\ swept - session_meta[m].created_at <= ActiveSessionTtl
       /\ session_meta[m].terminal_at # Never =>
            swept - session_meta[m].terminal_at <= ReconstructedLinger
  /\ \A m \in DOMAIN tombstones : swept - tombstones[m] <= TombstoneTtl
  /\ \A m \in Messages : \A c \in Range(parked_chunks[m]) :
       swept - c.parked_at <= ParkedChunkTtl

(* Chunks are parked only for a message without a session, or for one that was  *)
(* published here after they came; the buffer holds at most MaxParked of them,  *)
(* in the order of their arrival (park_chunk, replay_parked_chunks).            *)
ParkedInOrder ==
  \A m \in Messages :
    /\ Len(parked_chunks[m]) <= MaxParked
    /\ Ready /\ parked_chunks[m] # <<>> /\ m \in DOMAIN sessions =>
         sessions[m].state = "Origin"
    /\ \A i, j \in DOMAIN parked_chunks[m] :
         i < j => parked_chunks[m][i].parked_at <= parked_chunks[m][j].parked_at

(* The application is not given a message again before the tombstone of the      *)
(* session that delivered it has run out, whatever opens, chunks and publishes   *)
(* come ("Prevents a straggling relay from resurrecting a finished session").    *)
NoRedelivery ==
  [][\A m \in Messages :
       delivered_at'[m] # delivered_at[m] =>
         delivered_at[m] = Never \/ now - delivered_at[m] > TombstoneTtl]_vars

(* An origin has sent every shard to every peer it serves. *)
AllServed ==
  \A m \in DOMAIN sessions :
    sessions[m].state = "Origin" =>
      \A peer \in sessions[m].attached_peers : sessions[m].planner.havelist[peer] = Shards

(* When everything is quiet, origins have sent every shard to every peer they    *)
(* serve: no failed write, lost connection, departure or new subscriber leaves   *)
(* one that no later drain will send.  This is claimed while the net takes what  *)
(* drain_session and publish send; what a refused frame leaves behind is the     *)
(* subject of EveryDispatchResolved and StallLeavesPending.                      *)
QuietMeansServed == Quiet /\ ~refused => AllServed

(* However long a chain of failed writes, departures and re-subscriptions makes  *)
(* an origin send again, it catches up with the peers it serves, unless the net  *)
(* refuses a frame (drain_session, resolve_chunk_send).                          *)
EventuallyServed == []<>(AllServed \/ refused)

(* Engine::subscribe, "All connected peers receive a `Subscribe` frame", and the  *)
(* transport on a full queue: "control frames are likewise refused and retried on *)
(* the engine's next drain".  So when everything is quiet, a connected peer that  *)
(* publish and later drains have sent a session, with room for all their frames,  *)
(* has been sent our subscription.                                                *)
SubscriptionsAnnounced ==
  Quiet /\ ~refused => \A m \in Messages : untold \cap connected \cap opened_to[m] = {}

(* Strategy::poll_chunks, "Each returned dispatch will receive exactly one       *)
(* chunk_sent callback": when everything is quiet and all subscribers are        *)
(* connected, no dispatch still waits for its callback.                          *)
EveryDispatchResolved ==
  Quiet /\ subscribers \subseteq linked =>
    \A m \in DOMAIN sessions : sessions[m].in_flight = {}

(* drain_session, on a refused chunk: it "is retried on the next drain, which    *)
(* the pending chunks trigger as they ack (there is always at least one, since   *)
(* the queue must fill before it rejects)".                                      *)
StallLeavesPending ==
  round.stalled => \E e \in pending_sends : e.message = round.message
=============================================================================
