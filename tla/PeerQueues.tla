----------------------------- MODULE PeerQueues -----------------------------
(***************************************************************************)
(* What the engine sees of its Net (QuicNet, ethp2p-transport/src/lib.rs): *)
(* per peer a bounded outbound queue that a pump task empties, and the     *)
(* events the transport reports about its own work.  A queued chunk yields *)
(* exactly one ChunkSendResult, in queue order; the other frames yield     *)
(* nothing.                                                                *)
(***************************************************************************)
EXTENDS Integers, Sequences, Functions

CONSTANTS Peers, Messages,
          QueueCap   \* PER_PEER_OUTBOUND_QUEUE

VARIABLES next_peer_id,
          linked,   \* peers with an entry in peer_senders
          queue,    \* per peer, the frames its pump has not taken yet
          results,  \* per peer, ChunkSendResults not handled yet
          notices   \* per peer, PeerConnected and PeerDisconnected not handled yet

Frame == [kind : {"handshake", "subscribe"}]
           \cup [kind : {"open", "update"}, message : Messages]
           \cup [kind : {"chunk"}, message : Messages, token : Nat]
Result == [message : Messages, token : Nat, ok : BOOLEAN]
Notice == {"connected", "disconnected"}

NetTypeOK ==
  /\ next_peer_id \in Nat
  /\ linked \subseteq Peers
  /\ queue \in [Peers -> Seq(Frame)]
  /\ results \in [Peers -> Seq(Result)]
  /\ notices \in [Peers -> Seq(Notice)]

NetInit ==
  /\ next_peer_id = 1
  /\ linked = {}
  /\ queue = [p \in Peers |-> <<>>]
  /\ results = [p \in Peers |-> <<>>]
  /\ notices = [p \in Peers |-> <<>>]

-----------------------------------------------------------------------------
(* Net::send succeeds; otherwise it returns PeerNotFound or Backpressure. *)
CanSend(p) == p \in linked /\ Len(queue[p]) < QueueCap

Enqueued(p, frame) == [queue EXCEPT ![p] = Append(@, frame)]

(* dial and the accept loop give every connection an id of its own, so a peer *)
(* that comes back is another peer; register_peer announces it.               *)
RegisterPeer(p) ==
  /\ p = next_peer_id
  /\ next_peer_id' = next_peer_id + 1
  /\ linked' = linked \cup {p}
  /\ notices' = [notices EXCEPT ![p] = Append(@, "connected")]
  /\ UNCHANGED <<queue, results>>

(* What is read from a connection is reported after its PeerConnected. *)
Announced(p) == p < next_peer_id /\ "connected" \notin Range(notices[p])

(* spawn_conn_reader on connection loss. *)
DeregisterPeer(p) ==
  /\ p \in linked
  /\ linked' = linked \ {p}
  /\ notices' = [notices EXCEPT ![p] = Append(@, "disconnected")]
  /\ UNCHANGED <<next_peer_id, queue, results>>

(* peer_pump takes the next frame and writes it; without a connection every *)
(* write fails.                                                             *)
PeerPump(p, ok) ==
  /\ queue[p] # <<>>
  /\ ok => p \in linked
  /\ queue' = [queue EXCEPT ![p] = Tail(@)]
  /\ LET frame == Head(queue[p]) IN
     results' = IF frame.kind # "chunk" THEN results
                ELSE [results EXCEPT ![p] =
                        Append(@, [message |-> frame.message,
                                   token |-> frame.token, ok |-> ok])]
  /\ UNCHANGED <<next_peer_id, linked, notices>>
=============================================================================
