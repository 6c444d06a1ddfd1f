-------------------------- MODULE QuicStreamsProofs --------------------------
(***************************************************************************)
(* PeerReconstructed is truthful for every number of messages, every       *)
(* limit of the transport and every interleaving of the tasks.             *)
(***************************************************************************)
EXTENDS QuicStreams, SequenceTheorems, TLAPS

(* What a watcher reports rests on the code of the stop, and that on the *)
(* tracker, which forgets keys but never invents one.                    *)
StopsTruthful ==
  \A s \in StreamIds :
    streams[s].stop = ErrReconstructed => streams[s].message \in Range(reconstructed)
Inv ==
  TypeOK /\ Range(tracker) \subseteq Range(reconstructed) /\ StopsTruthful /\ ToldTruthfully

-----------------------------------------------------------------------------
(* The elements of a queue after a push and after a pop. *)
LEMMA AppendRange ==
  ASSUME NEW S, NEW q \in Seq(S), NEW x \in S
  PROVE  Append(q, x) \in Seq(S) /\ Range(Append(q, x)) = Range(q) \cup {x}
<1>1. /\ Append(q, x) \in Seq(S) /\ DOMAIN Append(q, x) = 1 .. (Len(q) + 1)
      /\ DOMAIN q = 1 .. Len(q) /\ Len(q) \in Nat
      /\ Append(q, x)[Len(q) + 1] = x
      /\ \A i \in 1 .. Len(q) : Append(q, x)[i] = q[i]
  OBVIOUS
<1>2. Range(q) \cup {x} \subseteq Range(Append(q, x))
  BY <1>1 DEF Range
<1>3. ASSUME NEW i \in DOMAIN Append(q, x)
      PROVE  Append(q, x)[i] \in Range(q) \cup {x}
  <2>1. CASE i = Len(q) + 1
    BY <1>1, <2>1
  <2>2. CASE i # Len(q) + 1
    <3>1. i \in 1 .. Len(q)
      BY <1>1, <2>2
    <3> QED BY <1>1, <3>1 DEF Range
  <2> QED BY <2>1, <2>2
<1> QED BY <1>1, <1>2, <1>3 DEF Range

(* The tail of a queue holds members of the queue. *)
LEMMA TailRange ==
  ASSUME NEW S, NEW q \in Seq(S), q # <<>>
  PROVE  /\ Head(q) \in S /\ Tail(q) \in Seq(S) /\ Len(Tail(q)) = Len(q) - 1
         /\ Range(Tail(q)) \subseteq Range(q)
<1>1. /\ Head(q) \in S /\ Tail(q) \in Seq(S) /\ Len(Tail(q)) = Len(q) - 1
      /\ \A i \in 1 .. Len(Tail(q)) : Tail(q)[i] = q[i + 1]
  BY HeadTailProperties
<1>2. Len(q) \in Nat /\ DOMAIN q = 1 .. Len(q) /\ DOMAIN Tail(q) = 1 .. Len(Tail(q))
  BY <1>1, LenProperties
<1>3. \A i \in DOMAIN Tail(q) : i + 1 \in DOMAIN q /\ Tail(q)[i] = q[i + 1]
  BY <1>1, <1>2
<1> QED BY <1>1, <1>3 DEF Range

(* A new stream carries no stop. *)
LEMMA NewStreamOK ==
  ASSUME NEW proto \in {"bcast", "sess", "chunk"}, NEW m \in Messages \cup {NoMessage},
         NEW fs \in Seq(Frame), NEW fin \in BOOLEAN
  PROVE  /\ NewStream(proto, m, fs, fin) \in Stream
         /\ NewStream(proto, m, fs, fin).stop # ErrReconstructed
BY DEF NewStream, Stream, NoCode, ErrReconstructed

(* Opening a stream. *)
LEMMA AddStream ==
  ASSUME Inv, NEW t \in Stream, t.stop # ErrReconstructed,
         streams' = Append(streams, t), UNCHANGED reconstructed
  PROVE  /\ streams' \in Seq(Stream) /\ StreamIds' = StreamIds \cup {Len(streams) + 1}
         /\ StopsTruthful'
<1>1. streams \in Seq(Stream)
  BY DEF Inv, TypeOK
<1>2. /\ streams' \in Seq(Stream) /\ DOMAIN streams' = 1 .. (Len(streams) + 1)
      /\ DOMAIN streams = 1 .. Len(streams) /\ Len(streams) \in Nat
      /\ streams'[Len(streams) + 1] = t
      /\ \A i \in 1 .. Len(streams) : streams'[i] = streams[i]
  BY <1>1
<1>3. StreamIds' = StreamIds \cup {Len(streams) + 1}
  BY <1>2 DEF StreamIds
<1>4. StopsTruthful'
  <2> SUFFICES ASSUME NEW s \in StreamIds', streams'[s].stop = ErrReconstructed
               PROVE  streams'[s].message \in Range(reconstructed)'
    BY DEF StopsTruthful
  <2>1. s \in StreamIds /\ streams'[s] = streams[s]
    BY <1>2, <1>3 DEF StreamIds
  <2> QED BY <2>1 DEF Inv, StopsTruthful
<1> QED BY <1>2, <1>3, <1>4

(* Changing one stream, other than by a stop for a reconstruction. *)
LEMMA SetStream ==
  ASSUME Inv, NEW s \in StreamIds, NEW t \in Stream, streams' = [streams EXCEPT ![s] = t],
         UNCHANGED reconstructed,
         t.stop = ErrReconstructed => t.message \in Range(reconstructed)
  PROVE  /\ streams' \in Seq(Stream) /\ StreamIds' = StreamIds
         /\ StopsTruthful'
<1>1. streams \in Seq(Stream) /\ s \in 1 .. Len(streams) /\ StreamIds = 1 .. Len(streams)
  BY LenProperties DEF Inv, TypeOK, StreamIds
<1>2. /\ streams' \in Seq(Stream) /\ Len(streams') = Len(streams)
      /\ \A j \in 1 .. Len(streams) : streams'[j] = IF j = s THEN t ELSE streams[j]
  BY <1>1, ExceptSeq
<1>3. StreamIds' = StreamIds
  BY <1>1, <1>2, LenProperties DEF StreamIds
<1> QED BY <1>1, <1>2, <1>3 DEF Inv, StopsTruthful

(* Changing all streams, in nothing that a watcher looks at. *)
LEMMA SetAllStreams ==
  ASSUME Inv, DOMAIN streams' = StreamIds, streams' = [s \in StreamIds |-> streams'[s]],
         \A s \in StreamIds :
           /\ streams'[s] \in Stream /\ streams'[s].stop = streams[s].stop
           /\ streams'[s].message = streams[s].message,
         Range(reconstructed) \subseteq Range(reconstructed)'
  PROVE  streams' \in Seq(Stream) /\ StreamIds' = StreamIds /\ StopsTruthful'
<1>1. Len(streams) \in Nat /\ StreamIds = 1 .. Len(streams)
  BY LenProperties DEF Inv, TypeOK, StreamIds
<1>2. streams' \in [1 .. Len(streams) -> Stream]
  BY <1>1
<1>3. streams' \in Seq(Stream)
  BY <1>1, <1>2, SeqDef
<1>4. StreamIds' = StreamIds
  BY DEF StreamIds
<1> QED BY <1>3, <1>4 DEF Inv, StopsTruthful

-----------------------------------------------------------------------------
(* Initially nothing is open, recorded or told. *)
LEMMA InitInv == Init => Inv
<1> SUFFICES ASSUME Init PROVE Inv
  OBVIOUS
<1>1. StreamIds = {} /\ Range(tracker) = {}
  BY DEF Init, StreamIds, Range
<1>2. \A S : <<>> \in Seq(S) /\ Len(<<>>) = 0
  OBVIOUS
<1>3. /\ queue \in Seq(Frame) /\ streams \in Seq(Stream) /\ tracker \in Seq(Messages)
      /\ reconstructed \in Seq(Messages)
      /\ results \in Seq([message : Messages, token : Nat, ok : BOOLEAN])
      /\ Len(queue) <= QueueCap /\ Len(tracker) <= MaxTracked
  BY <1>2, LimitsAssumption DEF Init
<1>4. sends \in 0 .. MaxSends /\ faults \in 0 .. MaxFaults
  BY BoundsAssumption DEF Init
<1>5. TypeOK
  BY <1>1, <1>3, <1>4 DEF Init, TypeOK
<1> QED BY <1>1, <1>5 DEF Init, Inv, StopsTruthful, ToldTruthfully

(* QuicNet::send of a frame. *)
LEMMA SendInv == ASSUME Inv, NEW frame \in EngineFrames, Send(frame) PROVE Inv'
<1>1. TypeOK
  BY DEF Inv
<1>2. frame \in Frame
  <2>1. sends \in Nat /\ opened \subseteq Messages
    BY <1>1, BoundsAssumption DEF TypeOK
  <2> QED BY <2>1 DEF EngineFrames, Frame, Control
<1>3. frame.kind = "open" => frame.message \in Messages
  BY <1>2 DEF Frame, Control
<1>4. queue' \in Seq(Frame) /\ Len(queue') <= QueueCap
  BY <1>1, <1>2, LimitsAssumption DEF Send, TypeOK
<1>5. sends' \in 0 .. MaxSends
  BY <1>1, BoundsAssumption DEF Send, TypeOK
<1>6. opened' \subseteq Messages
  BY <1>1, <1>3 DEF Send, TypeOK
<1>7. /\ UNCHANGED <<conn, registered, ctrl, sess, results, told, reset, streams, faults>>
      /\ UNCHANGED <<mismatch, tracker, reconstructed, received>>
  BY DEF Send, receiverVars
<1> QED BY <1>1, <1>4, <1>5, <1>6, <1>7
        DEF Inv, TypeOK, StopsTruthful, ToldTruthfully, StreamIds

(* ResetState::record evicts the oldest key and adds the new one. *)
LEMMA RecordInv == ASSUME Inv, NEW m \in Messages, Record(m) PROVE Inv'
<1>1. TypeOK /\ tracker \in Seq(Messages) /\ reconstructed \in Seq(Messages)
  BY DEF Inv, TypeOK
<1>2. /\ reconstructed' \in Seq(Messages)
      /\ Range(reconstructed)' = Range(reconstructed) \cup {m}
  BY <1>1, AppendRange DEF Record
<1>3. /\ tracker' \in Seq(Messages) /\ Len(tracker') <= MaxTracked
      /\ Range(tracker)' \subseteq Range(tracker) \cup {m}
  <2> DEFINE longer == Append(tracker, m)
  <2>1. /\ longer \in Seq(Messages) /\ Range(longer) = Range(tracker) \cup {m}
        /\ longer # <<>> /\ Len(longer) = Len(tracker) + 1
    BY <1>1, AppendRange
  <2>2. /\ Tail(longer) \in Seq(Messages) /\ Len(Tail(longer)) = Len(longer) - 1
        /\ Range(Tail(longer)) \subseteq Range(longer)
    BY <2>1, TailRange
  <2>3. /\ Len(tracker) \in Nat /\ MaxTracked \in Nat /\ Len(tracker) <= MaxTracked
    BY <1>1, LimitsAssumption, LenProperties DEF TypeOK
  <2>4. tracker' \in {tracker, longer, Tail(longer)}
        /\ (tracker' = longer => Len(longer) <= MaxTracked)
    <3>1. tracker' = IF m \in Range(tracker) THEN tracker
                     ELSE IF Len(longer) > MaxTracked THEN Tail(longer) ELSE longer
      BY DEF Record, Recorded
    <3>2. Len(longer) \in Nat
      BY <2>1, LenProperties
    <3> HIDE DEF longer
    <3>3. CASE m \in Range(tracker)
      BY <2>1, <2>3, <3>1, <3>3
    <3>4. CASE m \notin Range(tracker)
      BY <2>1, <2>2, <2>3, <3>1, <3>2, <3>4
    <3> QED BY <3>3, <3>4
  <2> HIDE DEF longer
  <2>5. CASE tracker' = tracker
    BY <1>1, <2>3, <2>5
  <2>6. CASE tracker' = longer
    BY <2>1, <2>4, <2>6
  <2>7. CASE tracker' = Tail(longer)
    BY <2>1, <2>2, <2>3, <2>7
  <2> QED BY <2>4, <2>5, <2>6, <2>7
<1>4. \A s \in StreamIds : streams[s] \in Stream
  BY <1>1, ElementOfSeq, LenProperties DEF TypeOK, StreamIds
<1>5. /\ streams' = [s \in StreamIds |-> streams'[s]] /\ DOMAIN streams' = StreamIds
      /\ \A s \in StreamIds : streams'[s] = [streams[s] EXCEPT !.woken = @ \/ s \in Waiters]
  BY DEF Record
<1>6. \A s \in StreamIds :
        /\ streams'[s] \in Stream /\ streams'[s].stop = streams[s].stop
        /\ streams'[s].message = streams[s].message
  <2> SUFFICES ASSUME NEW s \in StreamIds
               PROVE  /\ streams'[s] \in Stream /\ streams'[s].stop = streams[s].stop
                      /\ streams'[s].message = streams[s].message
    OBVIOUS
  <2> DEFINE w == streams[s].woken \/ s \in Waiters
  <2>1. w \in BOOLEAN /\ streams'[s] = [streams[s] EXCEPT !.woken = w]
    BY <1>5
  <2> HIDE DEF w
  <2> QED BY <1>4, <2>1 DEF Stream
<1>7. streams' \in Seq(Stream) /\ StreamIds' = StreamIds /\ StopsTruthful'
  BY <1>2, <1>5, <1>6, SetAllStreams
<1>8. /\ UNCHANGED <<conn, registered, queue, opened, sends, ctrl, sess, results, told, reset>>
      /\ UNCHANGED <<mismatch, received, faults>>
  BY DEF Record, senderVars
<1>9. TypeOK'
  BY <1>1, <1>2, <1>3, <1>7, <1>8 DEF TypeOK
<1> QED BY <1>2, <1>3, <1>7, <1>8, <1>9 DEF Inv, ToldTruthfully

-----------------------------------------------------------------------------
(* The pump.  What it takes off the queue is a frame. *)
LEMMA Taken ==
  ASSUME TypeOK, NEW kinds, Taking(kinds)
  PROVE  /\ Head(queue) \in Frame /\ Head(queue).kind \in kinds
         /\ queue' \in Seq(Frame) /\ Len(queue') <= QueueCap
<1>1. queue \in Seq(Frame) /\ queue # <<>> /\ Len(queue) <= QueueCap
  BY DEF TypeOK, Taking
<1>2. Head(queue) \in Frame /\ Tail(queue) \in Seq(Frame) /\ Len(Tail(queue)) = Len(queue) - 1
  BY <1>1, TailRange
<1>3. Len(queue) \in Nat /\ QueueCap \in Nat
  BY <1>1, LenProperties, LimitsAssumption
<1> QED BY <1>1, <1>2, <1>3 DEF Taking

(* A frame written to a stream that is kept. *)
LEMMA WrittenStream ==
  ASSUME Inv, NEW s \in StreamIds, NEW frame \in Frame, streams' = Written(s, frame),
         UNCHANGED reconstructed
  PROVE  streams' \in Seq(Stream) /\ StreamIds' = StreamIds /\ StopsTruthful'
<1> DEFINE t == [streams[s] EXCEPT !.frames = Append(@, frame)]
<1>1. streams[s] \in Stream
  BY ElementOfSeq, LenProperties DEF Inv, TypeOK, StreamIds
<1>2. Append(streams[s].frames, frame) \in Seq(Frame)
  BY <1>1 DEF Stream
<1>3. /\ t \in Stream /\ t.stop = streams[s].stop /\ t.message = streams[s].message
      /\ streams' = [streams EXCEPT ![s] = t]
  BY <1>1, <1>2 DEF Written, Stream
<1>4. t.stop = ErrReconstructed => t.message \in Range(reconstructed)
  BY <1>3 DEF Inv, StopsTruthful
<1> HIDE DEF t
<1> QED BY <1>3, <1>4, SetStream

(* Dropping the kept streams. *)
LEMMA ResetStreamsInv ==
  ASSUME Inv, ResetStreams, UNCHANGED reconstructed
  PROVE  /\ streams' \in Seq(Stream) /\ StreamIds' = StreamIds /\ StopsTruthful'
         /\ ctrl' = NoStream /\ sess' = [m \in Messages |-> NoStream] /\ reset' = TRUE
<1>1. \A s \in StreamIds : streams[s] \in Stream
  BY ElementOfSeq, LenProperties DEF Inv, TypeOK, StreamIds
<1>2. /\ streams' = [s \in StreamIds |-> streams'[s]] /\ DOMAIN streams' = StreamIds
      /\ \A s \in StreamIds : streams'[s] = [streams[s] EXCEPT !.fin = @ \/ s \in Kept]
  BY DEF ResetStreams
<1>3. \A s \in StreamIds :
        /\ streams'[s] \in Stream /\ streams'[s].stop = streams[s].stop
        /\ streams'[s].message = streams[s].message
  <2> SUFFICES ASSUME NEW s \in StreamIds
               PROVE  /\ streams'[s] \in Stream /\ streams'[s].stop = streams[s].stop
                      /\ streams'[s].message = streams[s].message
    OBVIOUS
  <2> DEFINE f == streams[s].fin \/ s \in Kept
  <2>1. f \in BOOLEAN /\ streams'[s] = [streams[s] EXCEPT !.fin = f]
    BY <1>2
  <2> HIDE DEF f
  <2> QED BY <1>1, <2>1 DEF Stream
<1>4. streams' \in Seq(Stream) /\ StreamIds' = StreamIds /\ StopsTruthful'
  BY <1>2, <1>3, SetAllStreams
<1> QED BY <1>4 DEF ResetStreams

(* A step of the pump keeps the invariant if its streams are in order. *)
LEMMA PumpStep ==
  ASSUME Inv, queue' \in Seq(Frame), Len(queue') <= QueueCap,
         streams' \in Seq(Stream), StopsTruthful',
         ctrl' \in StreamIds' \cup {NoStream},
         sess' \in [Messages -> StreamIds' \cup {NoStream}],
         results' \in Seq([message : Messages, token : Nat, ok : BOOLEAN]),
         reset' \in BOOLEAN, faults' \in 0 .. MaxFaults,
         UNCHANGED <<conn, registered, opened, sends, told, receiverVars>>
  PROVE  Inv'
<1>1. UNCHANGED <<conn, registered, opened, sends, told>>
      /\ UNCHANGED <<mismatch, tracker, reconstructed, received>>
  BY DEF receiverVars
<1>2. TypeOK'
  BY <1>1 DEF Inv, TypeOK
<1> QED BY <1>1, <1>2 DEF Inv, ToldTruthfully

(* Handshake and Subscribe. *)
LEMMA WriteControlInv == ASSUME Inv, WriteControl PROVE Inv'
<1>1. TypeOK /\ reset \in BOOLEAN
  BY DEF Inv, TypeOK
<1>2. /\ Head(queue) \in Frame /\ queue' \in Seq(Frame) /\ Len(queue') <= QueueCap
  BY <1>1, Taken DEF WriteControl
<1>3. UNCHANGED <<conn, registered, opened, sends, told, receiverVars>>
      /\ UNCHANGED <<results, faults>> /\ UNCHANGED reconstructed
  BY DEF WriteControl, receiverVars
<1>4. /\ results' \in Seq([message : Messages, token : Nat, ok : BOOLEAN])
      /\ faults' \in 0 .. MaxFaults
  BY <1>1, <1>3 DEF TypeOK
<1>5. CASE /\ ctrl # NoStream /\ streams' = Written(ctrl, Head(queue))
           /\ UNCHANGED <<ctrl, sess, reset>>
  <2>1. ctrl \in StreamIds
    BY <1>1, <1>5 DEF TypeOK
  <2>2. streams' \in Seq(Stream) /\ StreamIds' = StreamIds /\ StopsTruthful'
    BY <1>2, <1>3, <1>5, <2>1, WrittenStream
  <2> QED BY <1>1, <1>2, <1>3, <1>4, <1>5, <2>2, PumpStep DEF TypeOK
<1>6. CASE /\ streams' = Append(streams, NewStream("bcast", NoMessage, <<Head(queue)>>, FALSE))
           /\ ctrl' = Len(streams) + 1 /\ UNCHANGED <<sess, reset>>
  <2>1. <<Head(queue)>> \in Seq(Frame)
    BY <1>2
  <2> DEFINE t == NewStream("bcast", NoMessage, <<Head(queue)>>, FALSE)
  <2>2. t \in Stream /\ t.stop # ErrReconstructed
    BY <2>1, NewStreamOK
  <2> HIDE DEF t
  <2>3. streams' \in Seq(Stream) /\ StreamIds' = StreamIds \cup {Len(streams) + 1}
        /\ StopsTruthful'
    BY <1>3, <1>6, <2>2, AddStream DEF t
  <2>4. sess' \in [Messages -> StreamIds' \cup {NoStream}]
    BY <1>1, <1>6, <2>3 DEF TypeOK
  <2> QED BY <1>1, <1>2, <1>3, <1>4, <1>6, <2>3, <2>4, PumpStep
<1>7. CASE ResetStreams
  BY <1>2, <1>3, <1>4, <1>7, ResetStreamsInv, PumpStep
<1> QED BY <1>5, <1>6, <1>7 DEF WriteControl

(* SessionOpen. *)
LEMMA WriteOpenInv == ASSUME Inv, WriteOpen PROVE Inv'
<1> DEFINE m == Head(queue).message
<1>1. TypeOK /\ reset \in BOOLEAN
  BY DEF Inv, TypeOK
<1>2. /\ Head(queue) \in Frame /\ Head(queue).kind = "open"
      /\ queue' \in Seq(Frame) /\ Len(queue') <= QueueCap
  BY <1>1, Taken DEF WriteOpen
<1>3. UNCHANGED <<conn, registered, opened, sends, told, receiverVars>>
      /\ UNCHANGED <<results, faults>> /\ UNCHANGED reconstructed
  BY DEF WriteOpen, receiverVars
<1>4. /\ results' \in Seq([message : Messages, token : Nat, ok : BOOLEAN])
      /\ faults' \in 0 .. MaxFaults /\ m \in Messages
  BY <1>1, <1>2, <1>3 DEF TypeOK, Frame, Control
<1> DEFINE t == NewStream("sess", m, <<Head(queue)>>, FALSE)
<1>5. CASE /\ streams' = Append(streams, t)
           /\ sess' = [sess EXCEPT ![m] = Len(streams) + 1] /\ UNCHANGED <<ctrl, reset>>
  <2>1. <<Head(queue)>> \in Seq(Frame)
    BY <1>2
  <2>2. t \in Stream /\ t.stop # ErrReconstructed
    BY <1>4, <2>1, NewStreamOK
  <2> HIDE DEF t
  <2>3. streams' \in Seq(Stream) /\ StreamIds' = StreamIds \cup {Len(streams) + 1}
        /\ StopsTruthful'
    BY <1>3, <1>5, <2>2, AddStream
  <2>4. sess' \in [Messages -> StreamIds' \cup {NoStream}]
    BY <1>1, <1>4, <1>5, <2>3 DEF TypeOK
  <2>5. ctrl' \in StreamIds' \cup {NoStream}
    BY <1>1, <1>5, <2>3 DEF TypeOK
  <2> QED BY <1>1, <1>2, <1>3, <1>4, <1>5, <2>3, <2>4, <2>5, PumpStep
<1>6. CASE ResetStreams
  BY <1>2, <1>3, <1>4, <1>6, ResetStreamsInv, PumpStep
<1> QED BY <1>5, <1>6 DEF WriteOpen

(* RoutingUpdate. *)
LEMMA WriteUpdateInv == ASSUME Inv, WriteUpdate PROVE Inv'
<1> DEFINE s == sess[Head(queue).message]
<1>1. TypeOK /\ reset \in BOOLEAN
  BY DEF Inv, TypeOK
<1>2. /\ Head(queue) \in Frame /\ Head(queue).kind = "update"
      /\ queue' \in Seq(Frame) /\ Len(queue') <= QueueCap
  BY <1>1, Taken DEF WriteUpdate
<1>3. UNCHANGED <<conn, registered, opened, sends, told, receiverVars>>
      /\ UNCHANGED <<results, faults>> /\ UNCHANGED reconstructed
  BY DEF WriteUpdate, receiverVars
<1>4. /\ results' \in Seq([message : Messages, token : Nat, ok : BOOLEAN])
      /\ faults' \in 0 .. MaxFaults /\ Head(queue).message \in Messages
  BY <1>1, <1>2, <1>3 DEF TypeOK, Frame, Control
<1>5. CASE UNCHANGED <<streams, ctrl, sess, reset>>
  <2>1. streams' \in Seq(Stream) /\ StreamIds' = StreamIds /\ StopsTruthful'
    BY <1>1, <1>3, <1>5 DEF Inv, TypeOK, StopsTruthful, StreamIds
  <2> QED BY <1>1, <1>2, <1>3, <1>4, <1>5, <2>1, PumpStep DEF TypeOK
<1>6. CASE /\ s # NoStream /\ streams' = Written(s, Head(queue))
           /\ UNCHANGED <<ctrl, sess, reset>>
  <2>1. s \in StreamIds
    BY <1>1, <1>4, <1>6 DEF TypeOK
  <2> HIDE DEF s
  <2>2. streams' \in Seq(Stream) /\ StreamIds' = StreamIds /\ StopsTruthful'
    BY <1>2, <1>3, <1>6, <2>1, WrittenStream
  <2> QED BY <1>1, <1>2, <1>3, <1>4, <1>6, <2>2, PumpStep DEF TypeOK
<1>7. CASE ResetStreams
  BY <1>2, <1>3, <1>4, <1>7, ResetStreamsInv, PumpStep
<1> QED BY <1>5, <1>6, <1>7 DEF WriteUpdate

(* Chunk. *)
LEMMA WriteChunkInv == ASSUME Inv, WriteChunk PROVE Inv'
<1>1. TypeOK /\ reset \in BOOLEAN
  BY DEF Inv, TypeOK
<1>2. /\ Head(queue) \in Frame /\ Head(queue).kind = "chunk"
      /\ queue' \in Seq(Frame) /\ Len(queue') <= QueueCap
  BY <1>1, Taken DEF WriteChunk
<1>3. UNCHANGED <<conn, registered, opened, sends, told, receiverVars>>
      /\ UNCHANGED <<ctrl, sess, reset>> /\ UNCHANGED reconstructed
  BY DEF WriteChunk, receiverVars
<1>4. PICK ok \in BOOLEAN :
        /\ \/ UNCHANGED <<streams, faults>>
           \/ streams' = ChunkStream(ok) /\ (UNCHANGED faults \/ Fault)
        /\ results' = ChunkSendResult(ok)
  BY DEF WriteChunk
<1>5. faults' \in 0 .. MaxFaults
  BY <1>1, <1>4, BoundsAssumption DEF TypeOK, Fault
<1>6. results' \in Seq([message : Messages, token : Nat, ok : BOOLEAN])
  <2>1. Head(queue).message \in Messages /\ Head(queue).token \in Nat
    BY <1>2 DEF Frame, Control
  <2>2. [message |-> Head(queue).message, token |-> Head(queue).token, ok |-> ok]
          \in [message : Messages, token : Nat, ok : BOOLEAN]
    BY <2>1
  <2> QED BY <1>1, <1>4, <2>2, AppendRange DEF ChunkSendResult, TypeOK
<1>7. /\ streams' \in Seq(Stream) /\ StreamIds \subseteq StreamIds' /\ StopsTruthful'
  <2>1. CASE UNCHANGED streams
    BY <1>1, <1>3, <2>1 DEF Inv, TypeOK, StopsTruthful, StreamIds
  <2>2. CASE streams' = ChunkStream(ok)
    <3> DEFINE fs == IF ok THEN <<Head(queue)>> ELSE <<>>
               t == NewStream("chunk", NoMessage, fs, TRUE)
    <3>1. fs \in Seq(Frame)
      BY <1>2
    <3> HIDE DEF fs
    <3>2. t \in Stream /\ t.stop # ErrReconstructed
      BY <3>1, NewStreamOK
    <3>3. streams' = Append(streams, t)
      BY <2>2 DEF ChunkStream, fs
    <3> HIDE DEF t
    <3> QED BY <1>3, <3>2, <3>3, AddStream
  <2> QED BY <1>4, <2>1, <2>2
<1>8. ctrl' \in StreamIds' \cup {NoStream} /\ sess' \in [Messages -> StreamIds' \cup {NoStream}]
  BY <1>1, <1>3, <1>7 DEF TypeOK
<1> QED BY <1>1, <1>2, <1>3, <1>5, <1>6, <1>7, <1>8, PumpStep

(* spawn_sess_reset_watcher reports what the code of the stop says. *)
LEMMA WatchInv == ASSUME Inv, NEW s \in StreamIds, Watch(s) PROVE Inv'
<1> DEFINE t == [streams[s] EXCEPT !.watched = FALSE]
<1>1. TypeOK /\ streams[s] \in Stream
  BY ElementOfSeq, LenProperties DEF Inv, TypeOK, StreamIds
<1>2. UNCHANGED <<conn, registered, queue, opened, sends, ctrl, sess, results, reset, faults>>
      /\ UNCHANGED <<mismatch, tracker, reconstructed, received>>
  BY DEF Watch, receiverVars
<1>3. /\ t \in Stream /\ t.stop = streams[s].stop /\ t.message = streams[s].message
      /\ streams' = [streams EXCEPT ![s] = t]
  BY <1>1 DEF Watch, Stream
<1>4. t.stop = ErrReconstructed => t.message \in Range(reconstructed)
  BY <1>3 DEF Inv, StopsTruthful
<1> HIDE DEF t
<1>5. streams' \in Seq(Stream) /\ StreamIds' = StreamIds /\ StopsTruthful'
  BY <1>2, <1>3, <1>4, SetStream
<1>6. told' = [told EXCEPT ![streams[s].message] =
                 IF streams[s].stop = ErrReconstructed THEN "reconstructed" ELSE "closed"]
  BY DEF Watch
<1>7. told' \in [Messages -> {"nothing", "reconstructed", "closed"}]
  BY <1>1, <1>6 DEF TypeOK
<1>8. ToldTruthfully'
  BY <1>1, <1>2, <1>6 DEF Inv, TypeOK, ToldTruthfully, StopsTruthful
<1>9. TypeOK'
  BY <1>1, <1>2, <1>5, <1>7 DEF TypeOK
<1> QED BY <1>2, <1>5, <1>8, <1>9 DEF Inv

-----------------------------------------------------------------------------
(* The readers.  A step of one changes its stream, what was surfaced and perhaps *)
(* the connection; only a stop for a reconstruction needs the tracker.           *)
LEMMA ReaderStep ==
  ASSUME Inv, NEW s \in StreamIds, NEW t \in Stream, streams' = [streams EXCEPT ![s] = t],
         t.message = streams[s].message,
         t.stop = ErrReconstructed =>
           streams[s].stop = ErrReconstructed \/ streams[s].message \in Range(tracker),
         conn' \in {"up", "lost"}, mismatch' \in BOOLEAN, received' \subseteq Frame,
         faults' \in 0 .. MaxFaults, UNCHANGED <<senderVars, tracker, reconstructed>>
  PROVE  Inv'
<1>1. UNCHANGED <<registered, queue, opened, sends, ctrl, sess, results, told, reset>>
      /\ UNCHANGED <<tracker, reconstructed>>
  BY DEF senderVars
<1>2. t.stop = ErrReconstructed => t.message \in Range(reconstructed)
  BY DEF Inv, StopsTruthful
<1>3. streams' \in Seq(Stream) /\ StreamIds' = StreamIds /\ StopsTruthful'
  BY <1>1, <1>2, SetStream
<1>4. TypeOK'
  BY <1>1, <1>3 DEF Inv, TypeOK
<1> QED BY <1>1, <1>3, <1>4 DEF Inv, ToldTruthfully

(* A stream and its next frame. *)
LEMMA StreamTyped ==
  ASSUME TypeOK, NEW s \in StreamIds
  PROVE  /\ streams[s] \in Stream
         /\ streams[s].frames # <<>> =>
              Head(streams[s].frames) \in Frame /\ Tail(streams[s].frames) \in Seq(Frame)
<1>1. streams[s] \in Stream
  BY ElementOfSeq, LenProperties DEF TypeOK, StreamIds
<1>2. streams[s].frames \in Seq(Frame)
  BY <1>1 DEF Stream
<1> QED BY <1>1, <1>2, TailRange

(* A BCAST frame is surfaced, or its handshake refused. *)
LEMMA ReadControlInv == ASSUME Inv, NEW s \in StreamIds, ReadControl(s) PROVE Inv'
<1>1. /\ TypeOK /\ streams[s] \in Stream /\ Head(streams[s].frames) \in Frame
      /\ Tail(streams[s].frames) \in Seq(Frame)
  BY StreamTyped DEF Inv, ReadControl
<1>2. UNCHANGED <<senderVars, tracker, reconstructed>> /\ UNCHANGED faults
  BY DEF ReadControl
<1>3. \E t \in Stream :
        /\ streams' = [streams EXCEPT ![s] = t]
        /\ t.message = streams[s].message /\ t.stop = streams[s].stop
  <2>1. CASE streams' = [streams EXCEPT ![s].frames = Tail(@), ![s].reader = "done"]
    <3> DEFINE t == [streams[s] EXCEPT !.frames = Tail(@), !.reader = "done"]
    <3>1. /\ t \in Stream /\ t.message = streams[s].message /\ t.stop = streams[s].stop
      BY <1>1 DEF Stream
    <3>2. streams' = [streams EXCEPT ![s] = t]
      BY <1>1, <2>1 DEF TypeOK
    <3> QED BY <3>1, <3>2
  <2>2. CASE streams' = [streams EXCEPT ![s].frames = Tail(@)]
    <3> DEFINE t == [streams[s] EXCEPT !.frames = Tail(@)]
    <3>1. /\ t \in Stream /\ t.message = streams[s].message /\ t.stop = streams[s].stop
      BY <1>1 DEF Stream
    <3>2. streams' = [streams EXCEPT ![s] = t]
      BY <2>2
    <3> QED BY <3>1, <3>2
  <2> QED BY <2>1, <2>2 DEF ReadControl
<1>4. /\ conn' \in {"up", "lost"} /\ mismatch' \in BOOLEAN /\ received' \subseteq Frame
      /\ faults' \in 0 .. MaxFaults
  BY <1>1, <1>2 DEF ReadControl, TypeOK
<1> QED BY <1>2, <1>3, <1>4, ReaderStep

(* A Sess frame: only the reader's own state moves. *)
LEMMA ReadSessInv == ASSUME Inv, NEW s \in StreamIds, ReadSess(s) PROVE Inv'
<1> DEFINE k == streams[s].known \/ Head(streams[s].frames).kind = "open"
           t == [streams[s] EXCEPT !.frames = Tail(@), !.reader = "reading",
                                   !.woken = FALSE, !.known = k]
<1>1. /\ TypeOK /\ streams[s] \in Stream /\ Head(streams[s].frames) \in Frame
      /\ Tail(streams[s].frames) \in Seq(Frame)
  BY StreamTyped DEF Inv, ReadSess
<1>2. UNCHANGED <<senderVars, tracker, reconstructed>> /\ UNCHANGED <<conn, mismatch, faults>>
  BY DEF ReadSess
<1>3. streams' = [streams EXCEPT ![s] = t]
  BY <1>1 DEF ReadSess, TypeOK
<1>4. k \in BOOLEAN
  BY <1>1 DEF Stream
<1> HIDE DEF k
<1>5. t \in Stream /\ t.message = streams[s].message /\ t.stop = streams[s].stop
  BY <1>1, <1>4 DEF Stream
<1> HIDE DEF t
<1>6. /\ conn' \in {"up", "lost"} /\ mismatch' \in BOOLEAN /\ faults' \in 0 .. MaxFaults
  BY <1>1, <1>2 DEF TypeOK
<1>7. received' \subseteq Frame
  BY <1>1 DEF ReadSess, TypeOK
<1> QED BY <1>2, <1>3, <1>5, <1>6, <1>7, ReaderStep

(* A whole chunk is surfaced and its stream is done. *)
LEMMA ReadChunkInv == ASSUME Inv, NEW s \in StreamIds, ReadChunk(s) PROVE Inv'
<1> DEFINE t == [streams[s] EXCEPT !.frames = <<>>, !.reader = "done"]
<1>1. /\ TypeOK /\ streams[s] \in Stream /\ Head(streams[s].frames) \in Frame
  BY StreamTyped DEF Inv, ReadChunk
<1>2. UNCHANGED <<senderVars, tracker, reconstructed>> /\ UNCHANGED <<conn, mismatch, faults>>
  BY DEF ReadChunk
<1>3. streams' = [streams EXCEPT ![s] = t]
  BY <1>1 DEF ReadChunk, TypeOK
<1>4. t \in Stream /\ t.message = streams[s].message /\ t.stop = streams[s].stop
  <2>1. <<>> \in Seq(Frame)
    OBVIOUS
  <2> DEFINE fs == <<>>
  <2>2. fs \in Seq(Frame) /\ t = [streams[s] EXCEPT !.frames = fs, !.reader = "done"]
    BY <2>1
  <2> HIDE DEF fs, t
  <2> QED BY <1>1, <2>2 DEF Stream
<1> HIDE DEF t
<1>5. /\ conn' \in {"up", "lost"} /\ mismatch' \in BOOLEAN /\ faults' \in 0 .. MaxFaults
      /\ received' \subseteq Frame
  BY <1>1, <1>2 DEF ReadChunk, TypeOK
<1> QED BY <1>2, <1>3, <1>4, <1>5, ReaderStep

(* A reader step that touches only its stream, and stops it for a reconstruction *)
(* only when the tracker has the message.                                        *)
LEMMA QuietReader ==
  ASSUME Inv, NEW s \in StreamIds, NEW t \in Stream, streams' = [streams EXCEPT ![s] = t],
         t.message = streams[s].message,
         t.stop = ErrReconstructed =>
           streams[s].stop = ErrReconstructed \/ streams[s].message \in Range(tracker),
         faults' \in 0 .. MaxFaults, UNCHANGED <<conn, senderVars, receiverVars>>
  PROVE  Inv'
<1>1. UNCHANGED <<senderVars, tracker, reconstructed>> /\ UNCHANGED <<conn, mismatch, received>>
  BY DEF receiverVars
<1>2. conn' \in {"up", "lost"} /\ mismatch' \in BOOLEAN /\ received' \subseteq Frame
  BY <1>1 DEF Inv, TypeOK
<1> QED BY <1>1, <1>2, ReaderStep

(* wait_reconstructed stops the stream only after it saw the key in the tracker. *)
LEMMA WaitReconstructedInv == ASSUME Inv, NEW s \in StreamIds, WaitReconstructed(s) PROVE Inv'
<1>1. streams[s] \in Stream /\ faults \in 0 .. MaxFaults
  BY StreamTyped DEF Inv, TypeOK
<1>2. PICK t : Poll(s, t) /\ (\/ t \in {Registered(s, "checking"),
                                        [streams[s] EXCEPT !.reader = "waiting"],
                                        [streams[s] EXCEPT !.reader = "reading"]}
                              \/ IsReconstructed(s) /\ t = Stopped(s))
  BY DEF WaitReconstructed
<1>3. /\ t \in Stream /\ t.message = streams[s].message
      /\ t.stop = ErrReconstructed =>
           streams[s].stop = ErrReconstructed \/ streams[s].message \in Range(tracker)
  BY <1>1, <1>2 DEF Registered, Stopped, IsReconstructed, Stream
<1>4. /\ streams' = [streams EXCEPT ![s] = t] /\ faults' \in 0 .. MaxFaults
      /\ UNCHANGED <<conn, senderVars, receiverVars>>
  BY <1>1, <1>2 DEF Poll
<1> QED BY <1>3, <1>4, QuietReader

(* A task that ends or fails, and a stop on its way, keep the code of the stop *)
(* or make it 0.                                                               *)
LEMMA StreamEndsInv ==
  ASSUME Inv, NEW s \in StreamIds, ReadEnd(s) \/ ReadFails(s) \/ StopArrives(s)
  PROVE  Inv'
<1>1. streams[s] \in Stream /\ faults \in 0 .. MaxFaults
  BY StreamTyped DEF Inv, TypeOK
<1>2. faults' \in 0 .. MaxFaults /\ UNCHANGED <<conn, senderVars, receiverVars>>
  BY <1>1, BoundsAssumption DEF ReadEnd, ReadFails, StopArrives, Fault
<1>3. \E t \in Stream : /\ streams' = [streams EXCEPT ![s] = t]
                        /\ t.message = streams[s].message
                        /\ t.stop \in {streams[s].stop, 0}
  <2>1. CASE ReadEnd(s)
    <3> DEFINE t == [streams[s] EXCEPT !.reader = "done"]
    <3>1. streams' = [streams EXCEPT ![s] = t]
      BY <2>1 DEF ReadEnd
    <3>2. t \in Stream /\ t.message = streams[s].message /\ t.stop = streams[s].stop
      BY <1>1 DEF Stream
    <3> QED BY <3>1, <3>2
  <2>2. CASE ReadFails(s)
    <3> DEFINE t == [streams[s] EXCEPT !.reader = "done", !.stop = 0]
    <3>1. streams' = [streams EXCEPT ![s] = t]
      BY <2>2 DEF ReadFails, Inv, TypeOK
    <3>2. t \in Stream /\ t.message = streams[s].message /\ t.stop = 0
      BY <1>1 DEF Stream
    <3> QED BY <3>1, <3>2
  <2>3. CASE StopArrives(s)
    <3>1. PICK h \in {"yes", "late"} : streams' = [streams EXCEPT ![s].heard = h]
      BY <2>3 DEF StopArrives
    <3> DEFINE t == [streams[s] EXCEPT !.heard = h]
    <3>2. streams' = [streams EXCEPT ![s] = t]
      BY <3>1
    <3>3. t \in Stream /\ t.message = streams[s].message /\ t.stop = streams[s].stop
      BY <1>1 DEF Stream
    <3> QED BY <3>2, <3>3
  <2> QED BY <2>1, <2>2, <2>3
<1>4. ErrReconstructed # 0
  BY DEF ErrReconstructed
<1> QED BY <1>2, <1>3, <1>4, QuietReader

(* The loss of the connection and its notice at the sender. *)
LEMMA ConnectionInv == ASSUME Inv, LoseConnection \/ Deregister PROVE Inv'
<1>1. UNCHANGED <<queue, opened, sends, ctrl, sess, results, told, reset, streams>>
      /\ UNCHANGED <<mismatch, tracker, reconstructed, received>>
  BY DEF LoseConnection, Deregister, senderVars, receiverVars
<1>2. conn' \in {"up", "lost"} /\ registered' \in BOOLEAN /\ faults' \in 0 .. MaxFaults
  <2>1. registered \in BOOLEAN /\ conn \in {"up", "lost"} /\ faults \in 0 .. MaxFaults
    BY DEF Inv, TypeOK
  <2>2. CASE LoseConnection
    BY <2>1, <2>2, BoundsAssumption DEF LoseConnection, Fault, senderVars
  <2>3. CASE Deregister
    BY <2>1, <2>3 DEF Deregister
  <2> QED BY <2>2, <2>3
<1>3. TypeOK'
  BY <1>1, <1>2 DEF Inv, TypeOK, StreamIds
<1> QED BY <1>1, <1>3 DEF Inv, StopsTruthful, ToldTruthfully, StreamIds

-----------------------------------------------------------------------------
(* Every step of the two nodes keeps the invariant. *)
LEMMA NextInv == ASSUME Inv, [Next]_vars PROVE Inv'
<1>1. CASE \E frame \in EngineFrames : Send(frame)
  BY <1>1, SendInv
<1>2. CASE \E m \in Messages : Record(m)
  BY <1>2, RecordInv
<1>3. CASE Pump
  BY <1>3, WriteControlInv, WriteOpenInv, WriteUpdateInv, WriteChunkInv DEF Pump
<1>4. CASE \E s \in StreamIds : Read(s) \/ ReadFails(s) \/ StopArrives(s) \/ Watch(s)
  BY <1>4, ReadControlInv, ReadSessInv, ReadChunkInv, WaitReconstructedInv, StreamEndsInv,
     WatchInv DEF Read
<1>5. CASE LoseConnection \/ Deregister
  BY <1>5, ConnectionInv
<1>6. CASE UNCHANGED vars
  <2>1. UNCHANGED <<conn, registered, queue, opened, sends, ctrl, sess, results, told, reset>>
        /\ UNCHANGED <<streams, mismatch, tracker, reconstructed, received, faults>>
    BY <1>6 DEF vars, senderVars, receiverVars
  <2> QED BY <2>1 DEF Inv, TypeOK, StopsTruthful, ToldTruthfully, StreamIds
<1> QED BY <1>1, <1>2, <1>3, <1>4, <1>5, <1>6 DEF Next

(* The tracker, the codes of the stops and the reports agree in every reachable *)
(* state, for any number of messages, frames and faults.                        *)
THEOREM InvAlways == Spec => []Inv
  BY InitInv, NextInv, PTL DEF Spec

(* The transport's tables keep their types and limits: the outbound queue stays *)
(* within PER_PEER_OUTBOUND_QUEUE, the tracker within MAX_RECONSTRUCTED_TRACKED *)
(* and the kept streams are streams of the connection.                          *)
THEOREM TypeCorrect == Spec => []TypeOK
<1>1. Inv => TypeOK
  BY DEF Inv
<1> QED BY <1>1, InvAlways, PTL

(* The engine is told PeerReconstructed only for what the peer reconstructed. *)
THEOREM ReportsTruthful == Spec => []ToldTruthfully
<1>1. Inv => ToldTruthfully
  BY DEF Inv
<1> QED BY <1>1, InvAlways, PTL

-----------------------------------------------------------------------------
(* The peer is deregistered only after its connection was lost. *)
UpIsRegistered == conn = "up" => registered

(* One queue as the function of peers that PeerQueues has. *)
LEMMA OneQueue ==
  ASSUME NEW q, NEW r
  PROVE  <<q>>[1] = q /\ [<<q>> EXCEPT ![1] = r] = <<r>>
OBVIOUS

(* The readers of the streams and the watchers do not touch the queue and never *)
(* bring a lost connection back.                                                *)
LEMMA StreamFrames ==
  ASSUME NEW s \in StreamIds, Read(s) \/ ReadFails(s) \/ StopArrives(s) \/ Watch(s)
  PROVE  UNCHANGED <<registered, queue, results>> /\ (conn' = "up" => conn = "up")
<1>1. CASE ReadControl(s) \/ ReadSess(s) \/ ReadChunk(s)
  BY <1>1 DEF ReadControl, ReadSess, ReadChunk, senderVars
<1>2. CASE WaitReconstructed(s) \/ ReadEnd(s)
  BY <1>2 DEF WaitReconstructed, Poll, ReadEnd, senderVars
<1>3. CASE ReadFails(s) \/ StopArrives(s) \/ Watch(s)
  BY <1>3 DEF ReadFails, StopArrives, Watch, senderVars
<1> QED BY <1>1, <1>2, <1>3 DEF Read

(* Only a loss of the connection, a refused handshake and the notice of the loss *)
(* change the two.                                                               *)
LEMMA RegisteredStep == UpIsRegistered /\ [Next]_vars => UpIsRegistered'
<1> SUFFICES ASSUME UpIsRegistered, [Next]_vars PROVE UpIsRegistered'
  OBVIOUS
<1> USE DEF UpIsRegistered
<1>1. CASE \E frame \in EngineFrames : Send(frame)
  BY <1>1 DEF Send
<1>2. CASE \E m \in Messages : Record(m)
  BY <1>2 DEF Record, senderVars
<1>3. CASE Pump
  BY <1>3 DEF Pump, WriteControl, WriteOpen, WriteUpdate, WriteChunk
<1>4. CASE \E s \in StreamIds : Read(s) \/ ReadFails(s) \/ StopArrives(s) \/ Watch(s)
  BY <1>4, StreamFrames
<1>5. CASE LoseConnection \/ Deregister
  BY <1>5 DEF LoseConnection, Deregister
<1>6. CASE UNCHANGED vars
  BY <1>6 DEF vars, senderVars
<1> QED BY <1>1, <1>2, <1>3, <1>4, <1>5, <1>6 DEF Next

(* A frame that is not a chunk leaves the queue, whatever became of its stream. *)
LEMMA ControlPumps ==
  ASSUME WriteControl \/ WriteOpen \/ WriteUpdate PROVE Queues!PeerPump(1, FALSE)
<1>1. /\ queue # <<>> /\ queue' = Tail(queue) /\ Head(queue).kind # "chunk"
      /\ UNCHANGED <<registered, results>>
  BY DEF WriteControl, WriteOpen, WriteUpdate, Taking
<1> QED BY <1>1, OneQueue DEF Queues!PeerPump

(* A chunk leaves the queue with one result, which is good only while the *)
(* connection is up.                                                      *)
LEMMA ChunkPumps ==
  ASSUME UpIsRegistered, WriteChunk
  PROVE  Queues!PeerPump(1, TRUE) \/ Queues!PeerPump(1, FALSE)
<1>1. /\ queue # <<>> /\ queue' = Tail(queue) /\ Head(queue).kind = "chunk"
      /\ UNCHANGED registered
  BY DEF WriteChunk, Taking
<1>2. PICK ok \in BOOLEAN : results' = ChunkSendResult(ok) /\ (ok => registered)
  BY DEF WriteChunk, UpIsRegistered
<1>3. Queues!PeerPump(1, ok)
  BY <1>1, <1>2, OneQueue DEF Queues!PeerPump, ChunkSendResult
<1> QED BY <1>2, <1>3

(* Each step of the transport is a step of PeerQueues or does not touch it. *)
LEMMA StepRefines ==
  ASSUME UpIsRegistered, [Next]_vars
  PROVE  \/ Queues!PeerPump(1, TRUE) \/ Queues!PeerPump(1, FALSE)
         \/ Queues!DeregisterPeer(1)
         \/ /\ Queues!CanSend(1)
            /\ \E frame \in EngineFrames : <<queue>>' = Queues!Enqueued(1, frame)
            /\ UNCHANGED <<registered, results>>
         \/ UNCHANGED <<registered, queue, results>>
<1>1. ASSUME NEW frame \in EngineFrames, Send(frame)
      PROVE  /\ Queues!CanSend(1) /\ <<queue>>' = Queues!Enqueued(1, frame)
             /\ UNCHANGED <<registered, results>>
  BY <1>1, OneQueue DEF Send, Queues!CanSend, Queues!Enqueued
<1>2. CASE \E m \in Messages : Record(m)
  BY <1>2 DEF Record, senderVars
<1>3. CASE Pump
  BY <1>3, ControlPumps, ChunkPumps DEF Pump
<1>4. CASE \E s \in StreamIds : Read(s) \/ ReadFails(s) \/ StopArrives(s) \/ Watch(s)
  BY <1>4, StreamFrames
<1>5. CASE LoseConnection
  BY <1>5 DEF LoseConnection, senderVars
<1>6. CASE Deregister
  <2>1. registered /\ ~registered' /\ UNCHANGED <<queue, results>>
    BY <1>6 DEF Deregister
  <2>2. Append(<<>>, "disconnected") = <<"disconnected">>
    OBVIOUS
  <2>3. Queues!DeregisterPeer(1)
    <3>1. /\ (IF registered THEN {1} ELSE {}) = {1}
          /\ (IF registered THEN {1} ELSE {})' = {}
      BY <2>1
    <3>2. /\ <<IF registered THEN <<>> ELSE <<"disconnected">>>> = <<<<>>>>
          /\ <<IF registered THEN <<>> ELSE <<"disconnected">>>>' = <<<<"disconnected">>>>
      BY <2>1
    <3>3. [<<<<>>>> EXCEPT ![1] = Append(<<<<>>>>[1], "disconnected")] = <<<<"disconnected">>>>
      BY <2>2, OneQueue
    <3> QED BY <2>1, <3>1, <3>2, <3>3 DEF Queues!DeregisterPeer
  <2> QED BY <2>3
<1>7. CASE UNCHANGED vars
  BY <1>7 DEF vars, senderVars
<1> QED BY <1>1, <1>2, <1>3, <1>4, <1>5, <1>6, <1>7 DEF Next

(* The transport implements what the engine model assumes of it: frames are   *)
(* taken in order, each chunk yields one result, a good one only while the    *)
(* peer is registered, and the peer is given up once.                         *)
THEOREM QueueRefinement == Spec => ImplementsPeerQueues
<1>1. Init => UpIsRegistered
  BY DEF Init, UpIsRegistered
<1>2. UpIsRegistered /\ [Next]_vars =>
        [\/ Queues!PeerPump(1, TRUE) \/ Queues!PeerPump(1, FALSE)
         \/ Queues!DeregisterPeer(1)
         \/ /\ Queues!CanSend(1)
            /\ \E frame \in EngineFrames : <<queue>>' = Queues!Enqueued(1, frame)
            /\ UNCHANGED <<registered, results>>]_<<registered, queue, results>>
  BY StepRefines
<1> QED BY <1>1, <1>2, RegisteredStep, PTL DEF Spec, ImplementsPeerQueues
=============================================================================
