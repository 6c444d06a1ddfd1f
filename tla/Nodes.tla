------------------------------- MODULE Nodes -------------------------------
(***************************************************************************)
(* Several engines (ethp2p-broadcast/src/engine.rs) on one in-process net. *)
(* Both nets answer a send at once and every driver of them is one thread, *)
(* so a handler is one step here: an operator on the world                 *)
(*   engines   per node, the part of its Engine one channel needs          *)
(*   hub       the MemoryNet or SimNet hub                                 *)
(*   ok        the result of the last fallible call                        *)
(*   stalled   whether the drain met a refused chunk                       *)
(* Module Engine has the same handlers broken into steps, with the         *)
(* transport's queues and the cleanup sweep; the default time-to-live of a *)
(* session is longer than any run of these nets, so that no sweep disposes *)
(* of anything here.                                                       *)
(***************************************************************************)
EXTENDS RsStrategy, Sequences, SequencesExt

CONSTANTS Messages,     \* message identifiers, ordered
          SinkCap,      \* capacity of an engine's delivery channel
          MaxParked     \* MAX_PARKED_CHUNKS_PER_MESSAGE

ASSUME MessagesAssumption == Messages \subseteq Nat /\ IsFiniteSet(Messages)
ASSUME CapsAssumption == SinkCap \in Nat /\ MaxParked \in Nat \ {0}

Mem == INSTANCE MemoryNet
Sim == INSTANCE SimNet

(* Engine::with_config.  fib is the node's seed; the last two fields are       *)
(* history: what was received from the sink, and the connected peers that      *)
(* hosted the channel when this node subscribed to it again.                   *)
NewEngine(fib) ==
  [hosted |-> FALSE, connected |-> {}, subscribers |-> {}, sessions |-> << >>,
   opened_to |-> [m \in Messages |-> {}], pending_sends |-> {},
   parked_chunks |-> [m \in Messages |-> <<>>], sink |-> {}, fib |-> fib,
   received |-> {}, reannounced |-> {}]

InOrder(S) == SetToSortSeq(S, <)
Ok(w) == [w EXCEPT !.ok = TRUE]
Put(f, k, v) == [x \in DOMAIN f \cup {k} |-> IF x = k THEN v ELSE f[x]]

(* Op(v), with v computed once. *)
With(v, Op(_)) == CHOOSE r \in {Op(x) : x \in {v}} : TRUE

(* What follows a fallible call: the ? of the code, and what it skips. *)
Then(w, Op(_)) == With(w, LAMBDA v : IF v.ok THEN Op(v) ELSE v)

(* Net::send.  Every node has an inbox in the simulator, so no send fails. *)
Send(w, n, frame) ==
  IF "registered" \in DOMAIN w.hub
  THEN With(Mem!MemorySend(w.hub, n, frame),
            LAMBDA sent : [w EXCEPT !.hub = sent.hub, !.ok = sent.ok])
  ELSE [w EXCEPT !.hub = Sim!SubmitSend(w.hub, n, frame), !.ok = TRUE]

-----------------------------------------------------------------------------
(* ensure_session_open. *)
EnsureSessionOpen(w, n, m, peer) ==
  IF peer \in w.engines[n].opened_to[m] THEN Ok(w)
  ELSE Then(Send(w, n, [kind |-> "open", to |-> peer, message |-> m]),
            LAMBDA sent : [sent EXCEPT !.engines[n].opened_to[m] = @ \cup {peer}])

(* drain_session, the routing update: an error ends the drain. *)
SendUpdates(w, n, m) ==
  FoldLeft(LAMBDA v, peer :
             Then(Then(v, LAMBDA u : EnsureSessionOpen(u, n, m, peer)),
                  LAMBDA opened :
                    Send(opened, n, [kind |-> "update", to |-> peer, message |-> m])),
           Ok(w), InOrder(w.engines[n].subscribers))

(* drain_session, one dispatch: a refused chunk is failed at once and stalls. *)
SendDispatch(v, n, m, d) ==
  LET chunk == [kind |-> "chunk", to |-> d.peer, message |-> m,
                chunk_id |-> d.chunk_id, token |-> d.handle]
  IN Then(EnsureSessionOpen(v, n, m, d.peer), LAMBDA opened :
       With(Send(opened, n, chunk), LAMBDA sent :
         IF sent.ok
         THEN [sent EXCEPT !.engines[n].pending_sends =
                             @ \cup {[message |-> m, token |-> d.handle, peer |-> d.peer]}]
         ELSE [sent EXCEPT !.engines[n].sessions[m] = ChunkSent(@, d.peer, d.handle, FALSE),
                           !.ok = TRUE, !.stalled = TRUE]))

SendDispatches(w, n, m, dispatches) ==
  FoldLeft(LAMBDA v, d : Then(v, LAMBDA u : SendDispatch(u, n, m, d)), w, dispatches)

(* Session::poll: the session it leaves and the dispatches. *)
Poll(s) ==
  FoldLeft(LAMBDA polled, peer :
             [session |-> PollPeer(polled.session, peer),
              dispatches |-> polled.dispatches
                               \o SetToSeq(PolledDispatches(polled.session, peer))],
           [session |-> PollRouting(s), dispatches |-> <<>>], InOrder(s.attached_peers))

RECURSIVE DrainSession(_, _, _)
(* drain_session: until there is no work, a send was refused or an error. *)
DrainSession(w, n, m) ==
  IF m \notin DOMAIN w.engines[n].sessions THEN Ok(w)
  ELSE LET due == RoutingDue(w.engines[n].sessions[m]) IN
       With(Poll(w.engines[n].sessions[m]), LAMBDA work :
         With([Ok(w) EXCEPT !.engines[n].sessions[m] = work.session], LAMBDA polled :
           IF ~due /\ work.dispatches = <<>> THEN polled
           ELSE With(Then(IF due THEN SendUpdates(polled, n, m) ELSE polled,
                          LAMBDA updated : SendDispatches(updated, n, m, work.dispatches)),
                     LAMBDA sent : IF ~sent.ok \/ sent.stalled
                                   THEN [sent EXCEPT !.stalled = FALSE]
                                   ELSE DrainSession(sent, n, m))))

(* drain_channel: an error leaves the sessions after it undrained. *)
DrainChannel(w, n) ==
  FoldLeft(LAMBDA v, m : Then(v, LAMBDA u : DrainSession(u, n, m)),
           Ok(w), InOrder(DOMAIN w.engines[n].sessions))

(* maybe_decode_and_deliver: a full sink drops the message; the openers are *)
(* told either way.                                                         *)
MaybeDecodeAndDeliver(w, n, m) ==
  LET e == w.engines[n]
      decoded == e.sessions[m].state = "Decoding" /\ e.sessions[m].decodable
      finished == [w EXCEPT
        !.engines[n].sessions[m] = DecodeAndFinish(@),
        !.engines[n].sink = IF decoded /\ Cardinality(@) < SinkCap THEN @ \cup {m} ELSE @]
  IN IF decoded THEN Send(finished, n, [kind |-> "reconstructed", message |-> m])
     ELSE finished

(* Mutant: the chunk that completes the session is not forwarded. *)
TakeThenDecode(w, n, m, chunks) ==
  LET s == w.engines[n].sessions[m]
      taken == [w EXCEPT !.engines[n].sessions[m] = TakeChunk(s, Head(chunks), TRUE)]
  IN IF TakeComplete(s, Head(chunks), TRUE) THEN MaybeDecodeAndDeliver(taken, n, m)
     ELSE DrainSession(taken, n, m)

(* take_chunk, then the drain and, if the session is complete, the decode. *)
TakeThen(w, n, m, chunks) ==
  LET taken == FoldLeft(LAMBDA t, c :
                          [session |-> TakeChunk(t.session, c, TRUE),
                           complete |-> t.complete \/ TakeComplete(t.session, c, TRUE)],
                        [session |-> w.engines[n].sessions[m], complete |-> FALSE], chunks)
  IN With(taken, LAMBDA t :
       With(DrainSession([w EXCEPT !.engines[n].sessions[m] = t.session], n, m),
            LAMBDA v : IF t.complete THEN MaybeDecodeAndDeliver(v, n, m) ELSE v))

-----------------------------------------------------------------------------
(* Mutant: a channel that is hosted already is not announced again. *)
SubscribeOnce(w, n) ==
  LET e == w.engines[n]
      told == FoldLeft(LAMBDA v, peer :
                         Then(v, LAMBDA u : Send(u, n, [kind |-> "subscribe", to |-> peer])),
                       Ok(w), IF e.hosted THEN <<>> ELSE InOrder(e.connected))
  IN [told EXCEPT
       !.engines[n].hosted = TRUE,
       !.engines[n].reannounced =
          IF e.hosted THEN {p \in e.connected : w.engines[p].hosted} ELSE {}]

(* Engine::subscribe: an error leaves the peers after it untold; a channel that *)
(* is hosted already is announced again.                                        *)
Subscribe(w, n) ==
  LET e == w.engines[n]
      told == FoldLeft(LAMBDA v, peer :
                         Then(v, LAMBDA u : Send(u, n, [kind |-> "subscribe", to |-> peer])),
                       Ok(w), InOrder(e.connected))
  IN [told EXCEPT
       !.engines[n].hosted = TRUE,
       !.engines[n].reannounced =
          IF e.hosted THEN {p \in e.connected : w.engines[p].hosted} ELSE {}]

(* Engine::connect: register_peer_and_handshake. *)
Connect(w, n, peer) ==
  IF peer \in w.engines[n].connected THEN Ok(w)
  ELSE Send([w EXCEPT !.engines[n].connected = @ \cup {peer}], n,
            [kind |-> "handshake", to |-> peer, advertises |-> w.engines[n].hosted])

(* Engine::publish. *)
Publish(w, n, m) ==
  LET e == w.engines[n]
      started == [Ok(w) EXCEPT !.engines[n].sessions =
                                 Put(@, m, NewOrigin(e.fib, e.subscribers))]
      opened == FoldLeft(LAMBDA v, peer :
                           Then(v, LAMBDA u : EnsureSessionOpen(u, n, m, peer)),
                         started, InOrder(e.subscribers))
  IN IF ~e.hosted \/ m \in DOMAIN e.sessions THEN [w EXCEPT !.ok = FALSE]
     ELSE Then(opened, LAMBDA v : DrainSession(v, n, m))

-----------------------------------------------------------------------------
(* Channel::subscribe_peer, then drain_channel. *)
SubscribePeer(w, n, peer) ==
  LET e == w.engines[n] IN
  IF ~e.hosted THEN w
  ELSE DrainChannel(
         [w EXCEPT
           !.engines[n].subscribers = @ \cup {peer},
           !.engines[n].sessions = IF peer \in e.subscribers THEN @
                                   ELSE [m \in DOMAIN @ |-> AttachPeer(@[m], peer)]], n)

(* Mutant: every handshake is answered by one. *)
OnHandshakeAnswers(w, n, e) ==
  Send([w EXCEPT !.engines[n].connected = @ \cup {e.peer}], n,
       [kind |-> "handshake", to |-> e.peer, advertises |-> FALSE])

(* Handshake: the peer counts as connected, so a later connect does not greet it. *)
OnHandshake(w, n, e) ==
  LET heard == [w EXCEPT !.engines[n].connected = @ \cup {e.peer}]
  IN IF e.advertises THEN SubscribePeer(heard, n, e.peer) ELSE heard

(* SessionOpen: with replay_parked_chunks. *)
OnSessionOpen(w, n, e) ==
  LET m == e.message
      self == w.engines[n]
      opened == [w EXCEPT !.engines[n].sessions =
                            Put(@, m, NewRelay(self.fib, TRUE, self.subscribers))]
  IN IF ~self.hosted \/ m \in DOMAIN self.sessions THEN w
     ELSE With(DrainSession(opened, n, m), LAMBDA drained :
            IF self.parked_chunks[m] = <<>> THEN drained
            ELSE TakeThen([drained EXCEPT !.engines[n].parked_chunks[m] = <<>>], n, m,
                          self.parked_chunks[m]))

(* Mutant: the buffer of early chunks may exceed its bound by one. *)
OnChunkOneMore(w, n, e) ==
  LET parked == w.engines[n].parked_chunks[e.message] IN
  IF e.message \in DOMAIN w.engines[n].sessions
  THEN TakeThen(w, n, e.message, <<e.chunk_id>>)
  ELSE [w EXCEPT !.engines[n].parked_chunks[e.message] =
                   Append(IF Len(parked) > MaxParked THEN Tail(parked) ELSE parked,
                          e.chunk_id)]

(* Mutant: a chunk without a session is dropped. *)
OnChunkDrops(w, n, e) ==
  IF e.message \in DOMAIN w.engines[n].sessions
  THEN TakeThen(w, n, e.message, <<e.chunk_id>>) ELSE w

(* Chunk: parked, the oldest making room, while there is no session. *)
OnChunk(w, n, e) ==
  LET parked == w.engines[n].parked_chunks[e.message] IN
  IF e.message \in DOMAIN w.engines[n].sessions
  THEN TakeThen(w, n, e.message, <<e.chunk_id>>)
  ELSE [w EXCEPT !.engines[n].parked_chunks[e.message] =
                   Append(IF Len(parked) >= MaxParked THEN Tail(parked) ELSE parked,
                          e.chunk_id)]

(* resolve_chunk_send. *)
OnChunkSendResult(w, n, e) ==
  LET found == {s \in w.engines[n].pending_sends :
                  s.message = e.message /\ s.token = e.token}
  IN IF found = {} THEN w
     ELSE DrainSession(
            [w EXCEPT !.engines[n].pending_sends = @ \ found,
                      !.engines[n].sessions[e.message] =
                        ChunkSent(@, e.peer, e.token, e.ok)], n, e.message)

(* PeerReconstructed: detach_session_peer. *)
OnPeerReconstructed(w, n, e) ==
  IF e.message \notin DOMAIN w.engines[n].sessions THEN w
  ELSE [w EXCEPT !.engines[n].sessions[e.message] = DetachPeer(@, e.peer)]

(* handle_event, for the events these nets carry. *)
HandleEvent(w, n, e) ==
  CASE e.kind = "handshake" -> OnHandshake(w, n, e)
    [] e.kind = "subscribe" -> SubscribePeer(w, n, e.peer)
    [] e.kind = "open" -> OnSessionOpen(w, n, e)
    [] e.kind = "chunk" -> OnChunk(w, n, e)
    [] e.kind = "update" -> w
    [] e.kind = "result" -> OnChunkSendResult(w, n, e)
    [] e.kind = "peer_reconstructed" -> OnPeerReconstructed(w, n, e)

(* run_one_step, on an inbox that is not empty. *)
RunOneStep(w, n) ==
  HandleEvent([w EXCEPT !.hub.inbox[n] = Tail(@)], n, Head(w.hub.inbox[n]))

(* SimRunner::take_deliveries, and a receiver of the channel elsewhere. *)
TakeDeliveries(w, n) ==
  [w EXCEPT !.engines[n].received = @ \cup w.engines[n].sink, !.engines[n].sink = {}]
=============================================================================
