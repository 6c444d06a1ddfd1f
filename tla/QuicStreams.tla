---------------------------- MODULE QuicStreams ----------------------------
(***************************************************************************)
(* One direction of one QUIC connection of QuicNet                         *)
(* (ethp2p-transport/src/lib.rs).  The sending node's pump turns the       *)
(* frames of its outbound queue into unidirectional streams; the receiving *)
(* node reads each stream in a task of its own and stops the SESS streams  *)
(* of messages it has reconstructed, which a watcher task at the sender    *)
(* reports as PeerReconstructed.                                           *)
(*                                                                         *)
(* Stream s of the connection is the record streams[s]:                    *)
(*   proto    the selector: "bcast", "sess" or "chunk"                     *)
(*   message  the session of a "sess" stream, else NoMessage               *)
(*   frames   written and not read yet                                     *)
(*   fin      the sender finished or reset it, or dropped its SendStream   *)
(*   stop     the code of the receiver's STOP_SENDING, or NoCode           *)
(*   heard    whether that stop reached the sender: "no", "yes", or        *)
(*            "late" when the stream was already finished and acknowledged *)
(*   reader   where the receiver's task is; "checking" and "waiting" are   *)
(*            inside wait_reconstructed, before and after its check        *)
(*   known    the reader has seen the session's Open                       *)
(*   woken    notify_waiters came after the reader registered              *)
(***************************************************************************)
EXTENDS Integers, Sequences, FiniteSets, Functions

CONSTANTS NumMessages,    \* how many messages are sent
          QueueCap,       \* PER_PEER_OUTBOUND_QUEUE
          MaxUniStreams,  \* MAX_CONCURRENT_UNI_STREAMS
          MaxTracked,     \* MAX_RECONSTRUCTED_TRACKED
          MaxSends,       \* bound on the frames the engine sends
          MaxFaults       \* bound on lost connections, unreadable frames and
                          \* chunks over MAX_CHUNK_DATA_BYTES

Messages == 1 .. NumMessages

ASSUME LimitsAssumption == {QueueCap, MaxUniStreams, MaxTracked} \subseteq Nat \ {0}
ASSUME BoundsAssumption == {NumMessages, MaxSends, MaxFaults} \subseteq Nat

VARIABLES
  conn,           \* "up" or "lost"
  registered,     \* the sender has the peer in peer_senders
  queue,          \* the peer's outbound queue
  opened,         \* Engine::opened_to at the sender
  sends, faults,  \* frames sent and faults so far
  ctrl, sess,     \* PeerStreams: the streams the pump keeps, or NoStream
  streams,
  results,        \* ChunkSendResults reported to the sender's engine
  told,           \* per message, what the watchers reported to it
  reset,          \* history: a write failed and the pump dropped its streams
  mismatch,       \* the handshake read asserted another identity than the pinned one
  tracker,        \* ReconstructedTracker::order; its set holds the same keys
  reconstructed,  \* history: all keys recorded there, in order
  received        \* events surfaced to the receiver's engine

senderVars   == <<registered, queue, opened, sends, ctrl, sess, results, told, reset>>
receiverVars == <<mismatch, tracker, reconstructed, received>>
vars == <<conn, senderVars, streams, receiverVars, faults>>

NoStream == 0
NoMessage == 0
NoCode == -1
ErrReconstructed == 1
Control == [kind : {"handshake", "subscribe"}]
Frame == Control \cup [kind : {"open", "update"}, message : Messages]
                 \cup [kind : {"chunk"}, message : Messages, token : Nat]
StreamIds == DOMAIN streams

Stream ==
  [proto : {"bcast", "sess", "chunk"}, message : Messages \cup {NoMessage},
   frames : Seq(Frame), fin : BOOLEAN, stop : {NoCode, 0, ErrReconstructed},
   heard : {"no", "yes", "late"}, watched : BOOLEAN, known : BOOLEAN, woken : BOOLEAN,
   reader : {"reading", "checking", "waiting", "done"}]

NewStream(proto, message, frames, fin) ==
  [proto |-> proto, message |-> message, frames |-> frames, fin |-> fin,
   stop |-> NoCode, heard |-> "no", watched |-> proto = "sess", known |-> FALSE,
   woken |-> FALSE, reader |-> "reading"]

Init ==
  /\ conn = "up" /\ registered = TRUE
  /\ queue = <<>> /\ opened = {} /\ sends = 0 /\ faults = 0
  /\ ctrl = NoStream /\ sess = [m \in Messages |-> NoStream]
  /\ streams = <<>> /\ results = <<>> /\ told = [m \in Messages |-> "nothing"]
  /\ reset = FALSE
  /\ mismatch = FALSE /\ tracker = <<>> /\ reconstructed = <<>> /\ received = {}

-----------------------------------------------------------------------------
(* The sender's engine: a handshake first, one SessionOpen per message before *)
(* the updates and chunks of its session; messages are named in the order of  *)
(* their opening.                                                             *)
EngineFrames ==
  IF sends = 0 THEN {[kind |-> "handshake"]}
  ELSE {[kind |-> "subscribe"]}
         \cup [kind : {"open"}, message : {m \in Messages : m - 1 = Cardinality(opened)}]
         \cup [kind : {"update"}, message : opened]
         \cup [kind : {"chunk"}, message : opened, token : {sends}]

(* QuicNet::send for a frame with a destination. *)
Send(frame) ==
  /\ sends < MaxSends /\ frame \in EngineFrames
  /\ registered /\ Len(queue) < QueueCap
  /\ queue' = Append(queue, frame)
  /\ sends' = sends + 1
  /\ opened' = IF frame.kind = "open" THEN opened \cup {frame.message} ELSE opened
  /\ UNCHANGED <<conn, registered, ctrl, sess, results, told, reset, streams,
                 receiverVars, faults>>

(* Readers registered with the Notify: wait_reconstructed enables its future *)
(* before it looks.                                                          *)
Waiters == {s \in StreamIds : streams[s].reader \in {"checking", "waiting"}}

(* Mutant: nothing is evicted. *)
RecordedUnbounded(m) == IF m \in Range(tracker) THEN tracker ELSE Append(tracker, m)

(* ResetState::record: the queue of keys it leaves. *)
Recorded(m) ==
  LET longer == Append(tracker, m) IN
  IF m \in Range(tracker) THEN tracker
  ELSE IF Len(longer) > MaxTracked THEN Tail(longer) ELSE longer

(* QuicNet::send of the receiver's SessionReconstructed: record and wake. *)
Record(m) ==
  /\ m \notin Range(reconstructed)
  /\ tracker' = Recorded(m)
  /\ reconstructed' = Append(reconstructed, m)
  /\ streams' = [s \in StreamIds |-> [streams[s] EXCEPT !.woken = @ \/ s \in Waiters]]
  /\ UNCHANGED <<conn, senderVars, mismatch, received, faults>>

-----------------------------------------------------------------------------
(* Mutant: a stream never returns its credit. *)
OutstandingOpened == StreamIds

(* Streams the receiver's transport still counts against its credit: a stream *)
(* ends for it when the sender has finished or reset it and nobody reads it.   *)
Outstanding == {s \in StreamIds : ~(streams[s].fin /\ streams[s].reader = "done")}
CanOpen == Cardinality(Outstanding) < MaxUniStreams

Kept == ({ctrl} \cup Range(sess)) \ {NoStream}
Writable(s) == conn = "up" /\ streams[s].heard # "yes"
Written(s, frame) == [streams EXCEPT ![s].frames = Append(@, frame)]

Fault == faults < MaxFaults /\ faults' = faults + 1
Taking(kinds) == queue # <<>> /\ Head(queue).kind \in kinds /\ queue' = Tail(queue)

(* peer_pump when write_outbound failed: streams = PeerStreams::default(), and *)
(* a dropped SendStream is finished, or reset if it was stopped.               *)
ResetStreams ==
  /\ streams' = [s \in StreamIds |-> [streams[s] EXCEPT !.fin = @ \/ s \in Kept]]
  /\ ctrl' = NoStream /\ sess' = [m \in Messages |-> NoStream]
  /\ reset' = TRUE

(* Handshake and Subscribe, on the stream of ensure_ctrl. *)
WriteControl ==
  /\ Taking({"handshake", "subscribe"})
  /\ \/ ctrl # NoStream /\ Writable(ctrl)
        /\ streams' = Written(ctrl, Head(queue))
        /\ UNCHANGED <<ctrl, sess, reset>>
     \/ ctrl = NoStream /\ conn = "up" /\ CanOpen
        /\ streams' = Append(streams, NewStream("bcast", NoMessage, <<Head(queue)>>, FALSE))
        /\ ctrl' = Len(streams) + 1
        /\ UNCHANGED <<sess, reset>>
     \/ (ctrl # NoStream \/ conn = "lost") /\ ~Writable(ctrl) /\ ResetStreams
  /\ UNCHANGED <<conn, registered, opened, sends, results, told, receiverVars, faults>>

(* SessionOpen: a stream of its own, watched for the receiver's stop. *)
WriteOpen ==
  /\ Taking({"open"})
  /\ LET m == Head(queue).message IN
     \/ conn = "up" /\ CanOpen
        /\ streams' = Append(streams, NewStream("sess", m, <<Head(queue)>>, FALSE))
        /\ sess' = [sess EXCEPT ![m] = Len(streams) + 1]
        /\ UNCHANGED <<ctrl, reset>>
     \/ conn = "lost" /\ ResetStreams
  /\ UNCHANGED <<conn, registered, opened, sends, results, told, receiverVars, faults>>

(* RoutingUpdate: on the session's stream, or dropped if there is none. *)
WriteUpdate ==
  /\ Taking({"update"})
  /\ LET s == sess[Head(queue).message] IN
     \/ s = NoStream /\ UNCHANGED <<streams, ctrl, sess, reset>>
     \/ s # NoStream /\ Writable(s)
        /\ streams' = Written(s, Head(queue)) /\ UNCHANGED <<ctrl, sess, reset>>
     \/ s # NoStream /\ ~Writable(s) /\ ResetStreams
  /\ UNCHANGED <<conn, registered, opened, sends, results, told, receiverVars, faults>>

(* The stream of one chunk, empty if write_chunk refused its size. *)
ChunkStream(ok) ==
  Append(streams, NewStream("chunk", NoMessage, IF ok THEN <<Head(queue)>> ELSE <<>>, TRUE))
ChunkSendResult(ok) ==
  Append(results, [message |-> Head(queue).message, token |-> Head(queue).token, ok |-> ok])

(* Mutant: a chunk that finds the connection gone is dropped like an update. *)
WriteChunkSilently ==
  /\ Taking({"chunk"})
  /\ \/ conn = "lost" /\ UNCHANGED <<streams, results, faults>>
     \/ conn = "up" /\ CanOpen /\ UNCHANGED faults
        /\ streams' = ChunkStream(TRUE) /\ results' = ChunkSendResult(TRUE)
  /\ UNCHANGED <<conn, registered, opened, sends, ctrl, sess, told, reset, receiverVars>>

(* Mutant: a refused chunk is reported as sent. *)
WriteChunkOk ==
  /\ Taking({"chunk"})
  /\ \/ conn = "lost" /\ UNCHANGED <<streams, faults>>
     \/ conn = "up" /\ CanOpen /\ streams' = ChunkStream(TRUE) /\ UNCHANGED faults
     \/ conn = "up" /\ CanOpen /\ streams' = ChunkStream(FALSE) /\ Fault
  /\ results' = ChunkSendResult(TRUE)
  /\ UNCHANGED <<conn, registered, opened, sends, ctrl, sess, told, reset, receiverVars>>

(* Chunk: send_chunk opens, writes and finishes a stream, and reports how it *)
(* went; a failure leaves the other streams alone.                           *)
WriteChunk ==
  /\ Taking({"chunk"})
  /\ \E ok \in BOOLEAN :
       /\ \/ conn = "lost" /\ ~ok /\ UNCHANGED <<streams, faults>>
          \/ conn = "up" /\ CanOpen /\ streams' = ChunkStream(ok)
             /\ IF ok THEN UNCHANGED faults ELSE Fault
       /\ results' = ChunkSendResult(ok)
  /\ UNCHANGED <<conn, registered, opened, sends, ctrl, sess, told, reset, receiverVars>>

(* Mutant: every stop is taken for a reconstruction. *)
WatchIgnoresCode(s) ==
  /\ streams[s].watched /\ streams[s].heard = "yes"
  /\ streams' = [streams EXCEPT ![s].watched = FALSE]
  /\ told' = [told EXCEPT ![streams[s].message] = "reconstructed"]
  /\ UNCHANGED <<conn, registered, queue, opened, sends, ctrl, sess, results, reset,
                 receiverVars, faults>>

(* spawn_sess_reset_watcher, once the stream's stop has come in. *)
Watch(s) ==
  /\ streams[s].watched /\ streams[s].heard = "yes"
  /\ streams' = [streams EXCEPT ![s].watched = FALSE]
  /\ told' = [told EXCEPT ![streams[s].message] =
                IF streams[s].stop = ErrReconstructed THEN "reconstructed" ELSE "closed"]
  /\ UNCHANGED <<conn, registered, queue, opened, sends, ctrl, sess, results, reset,
                 receiverVars, faults>>

-----------------------------------------------------------------------------
(* Mutant: the connection is closed but the handshake is surfaced. *)
ReadControlSurfaces(s) ==
  /\ streams[s].proto = "bcast" /\ streams[s].reader = "reading"
  /\ streams[s].frames # <<>>
  /\ received' = received \cup {Head(streams[s].frames)}
  /\ streams' = [streams EXCEPT ![s].frames = Tail(@)]
  /\ \/ Head(streams[s].frames).kind = "handshake"
        /\ mismatch' = TRUE /\ conn' = "lost"
     \/ UNCHANGED <<mismatch, conn>>
  /\ UNCHANGED <<senderVars, tracker, reconstructed, faults>>

(* read_stream, a Bcast frame.  A peer dialed with connect_expecting may assert *)
(* another identity than the pinned one; its handshake closes the connection    *)
(* and is not surfaced.                                                         *)
ReadControl(s) ==
  /\ streams[s].proto = "bcast" /\ streams[s].reader = "reading"
  /\ streams[s].frames # <<>>
  /\ LET frame == Head(streams[s].frames) IN
     \/ frame.kind = "handshake"
        /\ mismatch' = TRUE /\ conn' = "lost"
        /\ streams' = [streams EXCEPT ![s].frames = Tail(@), ![s].reader = "done"]
        /\ UNCHANGED received
     \/ received' = received \cup {frame}
        /\ streams' = [streams EXCEPT ![s].frames = Tail(@)]
        /\ UNCHANGED <<conn, mismatch>>
  /\ UNCHANGED <<senderVars, tracker, reconstructed, faults>>

(* read_stream, a Sess frame: select! drops the wait and starts over; sess_event *)
(* surfaces nothing for a routing update.                                        *)
ReadSess(s) ==
  /\ streams[s].proto = "sess" /\ streams[s].reader \in {"reading", "waiting"}
  /\ streams[s].frames # <<>>
  /\ LET frame == Head(streams[s].frames) IN
     /\ received' = IF frame.kind = "open" THEN received \cup {frame} ELSE received
     /\ streams' = [streams EXCEPT ![s].frames = Tail(@), ![s].reader = "reading",
                                   ![s].woken = FALSE,
                                   ![s].known = @ \/ frame.kind = "open"]
  /\ UNCHANGED <<conn, senderVars, mismatch, tracker, reconstructed, faults>>

(* read_stream, a whole chunk. *)
ReadChunk(s) ==
  /\ streams[s].proto = "chunk" /\ streams[s].reader = "reading"
  /\ streams[s].frames # <<>>
  /\ received' = received \cup {Head(streams[s].frames)}
  /\ streams' = [streams EXCEPT ![s].frames = <<>>, ![s].reader = "done"]
  /\ UNCHANGED <<conn, senderVars, mismatch, tracker, reconstructed, faults>>

(* A step of a reader that touches nothing but its stream. *)
Poll(s, stream) ==
  /\ streams' = [streams EXCEPT ![s] = stream]
  /\ UNCHANGED <<conn, senderVars, receiverVars, faults>>

IsReconstructed(s) == streams[s].message \in Range(tracker)
Stopped(s) == [streams[s] EXCEPT !.reader = "done", !.stop = ErrReconstructed]
Registered(s, reader) == [streams[s] EXCEPT !.reader = reader, !.woken = FALSE]

(* Mutant: the task looks before it registers. *)
WaitReconstructedLate(s) ==
  /\ streams[s].proto = "sess" /\ streams[s].known
  /\ \/ streams[s].reader = "reading" /\ IsReconstructed(s) /\ Poll(s, Stopped(s))
     \/ streams[s].reader = "reading" /\ ~IsReconstructed(s)
        /\ Poll(s, [streams[s] EXCEPT !.reader = "checking"])
     \/ streams[s].reader = "checking" /\ Poll(s, Registered(s, "waiting"))
     \/ streams[s].reader = "waiting" /\ streams[s].woken
        /\ Poll(s, [streams[s] EXCEPT !.reader = "reading"])

(* wait_reconstructed, polled once the session is known: register for the wake, *)
(* then look, and stop the stream or wait, and start over when woken.           *)
WaitReconstructed(s) ==
  /\ streams[s].proto = "sess" /\ streams[s].known
  /\ \/ streams[s].reader = "reading" /\ Poll(s, Registered(s, "checking"))
     \/ streams[s].reader = "checking" /\ IsReconstructed(s) /\ Poll(s, Stopped(s))
     \/ streams[s].reader = "checking" /\ ~IsReconstructed(s)
        /\ Poll(s, [streams[s] EXCEPT !.reader = "waiting"])
     \/ streams[s].reader = "waiting" /\ streams[s].woken
        /\ Poll(s, [streams[s] EXCEPT !.reader = "reading"])

(* End of stream.  On a lost connection what has arrived may still be read, so *)
(* the task may end after any frame.                                           *)
ReadEnd(s) ==
  /\ \/ streams[s].reader \in {"reading", "waiting"} /\ streams[s].fin
        /\ streams[s].frames = <<>>
     \/ streams[s].reader \in {"reading", "waiting"} /\ conn = "lost"
  /\ streams' = [streams EXCEPT ![s].reader = "done"]
  /\ UNCHANGED <<conn, senderVars, receiverVars, faults>>

(* A frame that does not decode ends the task with an error; the dropped *)
(* RecvStream stops the sender with code 0.                              *)
ReadFails(s) ==
  /\ Fault
  /\ conn = "up" /\ streams[s].frames # <<>>
  /\ streams[s].reader \in {"reading", "waiting"}
  /\ streams' = [streams EXCEPT ![s].reader = "done", ![s].stop = 0]
  /\ UNCHANGED <<conn, senderVars, receiverVars>>

(* QUIC carries the stop to the sender; one that crosses the acknowledgement of *)
(* the stream's end is not reported.                                            *)
StopArrives(s) ==
  /\ conn = "up" /\ streams[s].stop # NoCode /\ streams[s].heard = "no"
  /\ \E h \in IF streams[s].fin THEN {"yes", "late"} ELSE {"yes"} :
       streams' = [streams EXCEPT ![s].heard = h]
  /\ UNCHANGED <<conn, senderVars, receiverVars, faults>>

LoseConnection ==
  /\ Fault
  /\ conn = "up" /\ conn' = "lost"
  /\ UNCHANGED <<senderVars, streams, receiverVars>>

(* spawn_conn_reader at the sender on connection loss. *)
Deregister ==
  /\ conn = "lost" /\ registered
  /\ registered' = FALSE
  /\ UNCHANGED <<conn, queue, opened, sends, ctrl, sess, results, told, reset,
                 streams, receiverVars, faults>>

-----------------------------------------------------------------------------
Pump == WriteControl \/ WriteOpen \/ WriteUpdate \/ WriteChunk
Read(s) ==
  \/ ReadControl(s) \/ ReadSess(s) \/ ReadChunk(s)
  \/ WaitReconstructed(s) \/ ReadEnd(s)

Next ==
  \/ \E frame \in EngineFrames : Send(frame)
  \/ \E m \in Messages : Record(m)
  \/ Pump
  \/ \E s \in StreamIds : Read(s) \/ ReadFails(s) \/ StopArrives(s) \/ Watch(s)
  \/ LoseConnection \/ Deregister

Spec == Init /\ [][Next]_vars

(* Some task of the two nodes that can run is polled, and QUIC delivers stops  *)
(* while the connection is up.  Each task ends or waits, so that no fairness   *)
(* between them is needed.                                                     *)
Tasks ==
  \/ Pump \/ Deregister
  \/ \E s \in StreamIds : Read(s) \/ StopArrives(s) \/ Watch(s)

Fairness == WF_vars(Tasks)

FairSpec == Spec /\ Fairness

-----------------------------------------------------------------------------
TypeOK ==
  /\ conn \in {"up", "lost"} /\ {registered, reset} \subseteq BOOLEAN
  /\ queue \in Seq(Frame) /\ Len(queue) <= QueueCap
  /\ opened \subseteq Messages /\ sends \in 0 .. MaxSends /\ faults \in 0 .. MaxFaults
  /\ streams \in Seq(Stream)
  /\ ctrl \in StreamIds \cup {NoStream}
  /\ sess \in [Messages -> StreamIds \cup {NoStream}]
  /\ results \in Seq([message : Messages, token : Nat, ok : BOOLEAN])
  /\ told \in [Messages -> {"nothing", "reconstructed", "closed"}]
  /\ mismatch \in BOOLEAN
  /\ tracker \in Seq(Messages) /\ Len(tracker) <= MaxTracked
  /\ reconstructed \in Seq(Messages) /\ received \subseteq Frame

(* PeerReconstructed reaches the sender's engine only for a message that the *)
(* receiver has reconstructed, and no other stop is taken for one, whatever  *)
(* the order of frames, stops and stream resets.                             *)
ToldTruthfully == \A m \in Messages : told[m] = "reconstructed" => m \in Range(reconstructed)

(* A peer without the pinned identity is cut off at its handshake: neither the *)
(* handshake nor a control frame sent after it is surfaced.  Only when the     *)
(* stream with the handshake failed may a later control frame come in, on the  *)
(* stream that replaces it.                                                    *)
PinHolds ==
  mismatch =>
    [kind |-> "handshake"] \notin received /\ (received \cap Control # {} => reset)

(* MaxTracked newer keys have pushed m out of the tracker. *)
Evicted(m) ==
  \E i \in DOMAIN reconstructed :
    reconstructed[i] = m /\ Len(reconstructed) - i >= MaxTracked

(* No wakeup is lost: a message the receiver has reconstructed, before or after *)
(* the session's stream came in, is in the end reported to the sender that      *)
(* opened a session for it.  What can prevent it is listed: the connection is   *)
(* lost, a failed write dropped the sender's streams, or the key was evicted.   *)
OpenerTold ==
  \A m \in Messages :
    (m \in Range(reconstructed) /\ sess[m] # NoStream)
      ~> (told[m] # "nothing" \/ conn = "lost" \/ reset \/ Evicted(m))

(* Every chunk reported as sent reaches the receiver's engine, unless the *)
(* connection is lost or a stream cannot be read.                         *)
ChunksArrive ==
  []<>(\/ \A r \in Range(results) :
            r.ok => [kind |-> "chunk", message |-> r.message, token |-> r.token] \in received
       \/ conn = "lost"
       \/ \E s \in StreamIds : streams[s].proto = "chunk" /\ streams[s].stop = 0)

(* The streams that keep the pump waiting for credit are all streams it keeps. *)
Starved == Cardinality(Kept) >= MaxUniStreams /\ conn = "up"

(* The pump empties its queue: a slow reader delays it, and only the streams *)
(* the pump itself never finishes can stop it.                               *)
PumpMoves == queue # <<>> ~> (queue = <<>> \/ Starved)

-----------------------------------------------------------------------------
(* The transport as the engine model sees it: PeerQueues, for this peer. *)
Queues == INSTANCE PeerQueues
  WITH Peers <- {1}, next_peer_id <- 2, linked <- IF registered THEN {1} ELSE {},
       queue <- <<queue>>, results <- <<results>>,
       notices <- <<IF registered THEN <<>> ELSE <<"disconnected">>>>

(* The pump, its streams and the connection's end do what PeerQueues promises *)
(* the engine: frames leave the queue in order and each chunk yields one      *)
(* result, also when the connection is gone.                                  *)
ImplementsPeerQueues ==
  [][\/ Queues!PeerPump(1, TRUE) \/ Queues!PeerPump(1, FALSE)
     \/ Queues!DeregisterPeer(1)
     \/ /\ Queues!CanSend(1)
        /\ \E frame \in EngineFrames : <<queue>>' = Queues!Enqueued(1, frame)
        /\ UNCHANGED <<registered, results>>]_<<registered, queue, results>>

-----------------------------------------------------------------------------
(* What the comment in peer_pump says of a failed write: "drop the stream     *)
(* state so streams reopen on next use".  A routing update, the next use of a *)
(* session's stream, opens one if it finds none.  It does not hold: only      *)
(* SessionOpen opens a SESS stream, and the engine sends that once per        *)
(* session and peer, so the update is dropped.                                *)
StreamsReopen ==
  [][\A m \in Messages :
       Taking({"update"}) /\ Head(queue).message = m /\ conn = "up" /\ sess[m] = NoStream
         => sess'[m] # NoStream]_vars
=============================================================================
