----------------------------- MODULE MemoryNet -----------------------------
(***************************************************************************)
(* The in-process net (ethp2p-broadcast/src/runtime/memory_net.rs).  A hub *)
(* is a record and each of its methods an operator on it:                  *)
(*   inbox            per endpoint, the events its engine has not taken    *)
(*   registered       the endpoints in SenderMap                           *)
(*   inbound_openers  OpenerMap: per receiver and message, who opened a    *)
(*                    session to it                                        *)
(* A frame is a NetSend record with the field "to"; SessionReconstructed   *)
(* has no destination.                                                     *)
(***************************************************************************)
EXTENDS Integers, Sequences

CONSTANTS Peers, Messages

NewMemoryHub ==
  [inbox |-> [p \in Peers |-> <<>>],
   registered |-> Peers,
   inbound_openers |-> [p \in Peers |-> [m \in Messages |-> {}]]]

(* The event the destination sees: the frame, with its sender. *)
EventOf(src, frame) == [x \in (DOMAIN frame \ {"to"}) \cup {"peer"} |->
                          IF x = "peer" THEN src ELSE frame[x]]

Inboxed(hub, dst, event) == [hub EXCEPT !.inbox[dst] = Append(@, event)]

(* Mutant: the openers are forgotten before they are told. *)
NotifyNobody(hub, src, m) == [hub EXCEPT !.inbound_openers[src][m] = {}]

(* send of SessionReconstructed: the openers leave the table, and those still *)
(* registered are told.                                                       *)
NotifyOpeners(hub, src, m) ==
  LET told == hub.inbound_openers[src][m] \cap hub.registered
      event == [kind |-> "peer_reconstructed", peer |-> src, message |-> m]
  IN [hub EXCEPT
       !.inbound_openers[src][m] = {},
       !.inbox = [p \in Peers |-> IF p \in told THEN Append(@[p], event) ELSE @[p]]]

(* send of a frame: an open is noted before the destination is looked up; a *)
(* chunk that was put into the inbox is acknowledged to its sender.         *)
Noted(hub, src, frame) ==
  IF frame.kind = "open"
  THEN [hub EXCEPT !.inbound_openers[frame.to][frame.message] = @ \cup {src}]
  ELSE hub

Acknowledged(hub, src, frame) ==
  IF frame.kind = "chunk" /\ src \in hub.registered
  THEN Inboxed(hub, src, [kind |-> "result", peer |-> frame.to, ok |-> TRUE,
                          message |-> frame.message, token |-> frame.token])
  ELSE hub

MemorySend(hub, src, frame) ==
  IF frame.kind = "reconstructed"
  THEN [hub |-> NotifyOpeners(hub, src, frame.message), ok |-> TRUE]
  ELSE LET noted == Noted(hub, src, frame) IN
       IF frame.to \notin hub.registered THEN [hub |-> noted, ok |-> FALSE]
       ELSE [hub |-> Acknowledged(Inboxed(noted, frame.to, EventOf(src, frame)), src, frame),
             ok  |-> TRUE]

(* disconnect: nothing more can be sent to the endpoint; what is in its inbox *)
(* can still be taken.                                                        *)
HubDisconnect(hub, p) == [hub EXCEPT !.registered = @ \ {p}]
=============================================================================
