------------------------------- MODULE RsCodec -------------------------------
(***************************************************************************)
(* One publication from the payload to the payload: RsConfig::new and      *)
(* encode (strategy/config.rs, rs/encode.rs) at the origin, a CHUNK stream *)
(* per shard (chunk.rs, wire.rs, selector.rs), and validate_preamble,      *)
(* verify_chunk and decode (rs/verify.rs, rs/decode.rs) with the havelist  *)
(* (bitmap.rs) at the receiver.                                            *)
(*                                                                         *)
(* Byte i of the payload is the number i, padding is 0, and every byte of  *)
(* a parity shard is a number of its own.  SHA-256 has no collisions: a    *)
(* hash is the bytes it was made of.  The streams are read by tasks that   *)
(* share only the engine's event queue, where a chunk is put when its      *)
(* stream was read to the end; so one stream is read at a time, in any     *)
(* order of the shards.                                                    *)
(***************************************************************************)
EXTENDS BitMap, TLC

CONSTANTS Configs,         \* the arguments of RsConfig::new considered
          Lengths,         \* the payload lengths considered
          Variants,        \* how the preamble in the SessionOpen may differ
          MaxLength,       \* i32::MAX, the largest length a preamble can state
          MaxTotalShards,  \* the limit of the Reed-Solomon library, 256
          MaxChunkData,    \* MAX_CHUNK_DATA_BYTES
          MaxCuts          \* bound: streams that end early

VARIABLES config, length,  \* the inputs of the publication
          origin,          \* what encode returned
          preamble,        \* the preamble the receiver holds, or NoPreamble
          unsent,          \* shards not yet written
          refused,         \* history: whether write_chunk refused a shard
          stream,          \* the CHUNK stream being read, or NoStream
          cut,             \* history: the shards whose stream ended early
          chunks,          \* the shards the receiver's strategy holds
          outcome          \* what decode returned, or Pending

vars == <<config, length, origin, preamble, unsent, refused, stream, cut, chunks, outcome>>

NoPreamble == [num_data |-> -1]
NoStream == [at |-> "none"]
Pending == [ok |-> FALSE, error |-> "pending"]
Failed(error) == [ok |-> FALSE, error |-> error]
Payload(len) == [i \in 1 .. len |-> i]

-----------------------------------------------------------------------------
(* RsConfig::new. *)
ConfigValid(c) == c.data_shards # 0 /\ c.bitmap_threshold <= 100

(* Mutant: the division rounds down. *)
ShapeRoundedDown(len, c) ==
  IF c.chunk_len > 0
  THEN LET k == len \div c.chunk_len IN [data |-> k, parity |-> k, chunk_len |-> c.chunk_len]
  ELSE [data |-> c.data_shards, parity |-> c.parity_shards, chunk_len |-> len \div c.data_shards]

ResolveShape(len, c) ==
  IF c.chunk_len > 0
  THEN LET k == DivCeil(len, c.chunk_len)
       IN [data |-> k, parity |-> k, chunk_len |-> c.chunk_len]
  ELSE [data |-> c.data_shards, parity |-> c.parity_shards,
        chunk_len |-> DivCeil(len, c.data_shards)]

(* ReedSolomon::new of the library. *)
RsAccepts(data, parity) == data > 0 /\ parity > 0 /\ data + parity <= MaxTotalShards

(* The data shards: pieces of the payload, padded with zeros. *)
DataShard(i, len, chunk_len) ==
  [j \in 1 .. chunk_len |-> IF i * chunk_len + j <= len THEN i * chunk_len + j ELSE 0]

(* ReedSolomon::encode of the library: new bytes. *)
ParityShard(i, chunk_len) == [j \in 1 .. chunk_len |-> 100 * (i + 1) + j]

Encode(len, c) ==
  LET shape == ResolveShape(len, c)
      total == shape.data + shape.parity
      shards == [i \in 0 .. (total - 1) |->
                   IF i < shape.data THEN DataShard(i, len, shape.chunk_len)
                   ELSE ParityShard(i, shape.chunk_len)]
  IN IF len = 0 THEN Failed("empty_payload")
     ELSE IF ~RsAccepts(shape.data, shape.parity) THEN Failed("rs")
     ELSE IF len > MaxLength THEN Failed("overflow")
     ELSE [ok |-> TRUE, shards |-> shards,
           preamble |-> [num_data |-> shape.data, num_parity |-> shape.parity,
                         length |-> len, hashes |-> [i \in 1 .. total |-> shards[i - 1]],
                         hash |-> Payload(len)]]

(* validate_preamble; a hash is 32 bytes or it is absent. *)
ValidatePreamble(p) ==
  /\ p.num_data >= 0 /\ p.num_parity >= 0 /\ p.length >= 0
  /\ Len(p.hashes) = p.num_data + p.num_parity

VerifyChunk(p, idx, data) == idx < p.num_data + p.num_parity /\ p.hashes[idx + 1] = data

(* ReedSolomon::reconstruct_data of the library: any num_data shards of one *)
(* codeword give its data shards.                                           *)
ReconstructData(p) == [i \in 0 .. (p.num_data - 1) |-> origin.shards[i]]

Joined(shards, k) == FoldLeft(LAMBDA out, i : out \o shards[i - 1], <<>>, [i \in 1 .. k |-> i])

(* Mutant: the padding is not cut off. *)
DecodeUncut(p, held) ==
  [ok |-> TRUE, payload |-> Joined(ReconstructData(p), p.num_data)]

Decode(p, held) ==
  LET shard_len == Len(held[Min(DOMAIN held)])
      out == Joined(ReconstructData(p), p.num_data)
  IN IF ~ValidatePreamble(p) THEN Failed("preamble")
     ELSE IF DOMAIN held = {} THEN Failed("too_few_shards")
     ELSE IF \E i \in DOMAIN held : i >= p.num_data + p.num_parity THEN Failed("index")
     ELSE IF \E i \in DOMAIN held : Len(held[i]) # shard_len THEN Failed("shard_length")
     ELSE IF ~RsAccepts(p.num_data, p.num_parity) THEN Failed("rs")
     ELSE IF Cardinality(DOMAIN held) < p.num_data THEN Failed("too_few_shards")
     ELSE IF p.length > Len(out) THEN Failed("length")
     ELSE IF SubSeq(out, 1, p.length) # p.hash THEN Failed("message_hash")
     ELSE [ok |-> TRUE, payload |-> SubSeq(out, 1, p.length)]

-----------------------------------------------------------------------------
Init ==
  /\ config \in Configs /\ length \in Lengths
  /\ origin = Pending /\ preamble = NoPreamble /\ outcome = Pending
  /\ unsent = {} /\ refused = FALSE /\ stream = NoStream /\ cut = {} /\ chunks = << >>

(* RsConfig::new and RsStrategy::new_origin. *)
Publish ==
  /\ origin = Pending
  /\ origin' = IF ConfigValid(config) THEN Encode(length, config) ELSE Failed("config")
  /\ unsent' = IF origin'.ok THEN DOMAIN origin'.shards ELSE {}
  /\ UNCHANGED <<config, length, preamble, refused, stream, cut, chunks, outcome>>

(* A preamble the receiver may see. *)
Variant(p, v) ==
  CASE v = "as_encoded" -> p
    [] v = "longer" -> [p EXCEPT !.length = @ * 3]
    [] v = "other_hash" -> [p EXCEPT !.hash = Append(@, 0)]
    [] v = "fewer_hashes" -> [p EXCEPT !.hashes = Front(@)]
    [] v = "negative" -> [p EXCEPT !.num_parity = -1]

(* The SessionOpen at the receiver: RsStrategy::new_relay. *)
Open(v) ==
  /\ origin.ok /\ preamble = NoPreamble /\ outcome = Pending
  /\ LET p == Variant(origin.preamble, v) IN
     IF ValidatePreamble(p) THEN preamble' = p /\ UNCHANGED outcome
     ELSE outcome' = Failed("preamble") /\ UNCHANGED preamble
  /\ UNCHANGED <<config, length, origin, unsent, refused, stream, cut, chunks>>

-----------------------------------------------------------------------------
(* A CHUNK stream is the selector, the header's length prefix and body, and the *)
(* payload.  arrives says how many of these the receiver will get.              *)
HeaderEnd == 3
NewStream(i, arrives) ==
  [at |-> "selector", selector |-> "chunk", arrives |-> arrives,
   header |-> [chunk_id |-> i, data_length |-> Len(origin.shards[i])],
   payload |-> origin.shards[i]]

Writable(i) == preamble # NoPreamble /\ stream = NoStream /\ i \in unsent
Written(i) ==
  /\ \E arrives \in 0 .. (HeaderEnd + Len(origin.shards[i])), failed \in BOOLEAN :
       /\ arrives < HeaderEnd + Len(origin.shards[i]) => Cardinality(cut) < MaxCuts
       /\ failed => arrives < HeaderEnd + Len(origin.shards[i])
       /\ unsent' = IF failed THEN unsent ELSE unsent \ {i}
       /\ stream' = NewStream(i, arrives)
  /\ UNCHANGED <<config, length, origin, preamble, refused, cut, chunks, outcome>>

(* Mutant: the size is not checked. *)
WriteChunkUnchecked(i) == Writable(i) /\ Written(i)

(* write_chunk.  A shard that is refused, or whose write fails on the way, is *)
(* reported as not sent and planned again; a stream may also end early without *)
(* its sender noticing.                                                        *)
WriteChunk(i) ==
  /\ Writable(i)
  /\ \/ Len(origin.shards[i]) <= MaxChunkData /\ Written(i)
     \/ /\ Len(origin.shards[i]) > MaxChunkData
        /\ refused' = TRUE
        /\ UNCHANGED <<config, length, origin, preamble, unsent, stream, cut, chunks, outcome>>

Reading(at) == stream # NoStream /\ stream.at = at
ReadOn(s) ==
  stream' = s /\ UNCHANGED <<config, length, origin, preamble, unsent, refused, cut,
                             chunks, outcome>>

ReadSelector ==
  /\ Reading("selector") /\ stream.arrives >= 1 /\ stream.selector # "unspecified"
  /\ ReadOn([stream EXCEPT !.at = "header"])

(* read_chunk_stream: the framed header, whose length is checked again. *)
ReadChunkStream ==
  /\ Reading("header") /\ stream.arrives >= HeaderEnd
  /\ stream.header.data_length <= MaxChunkData
  /\ ReadOn([at |-> "payload", got |-> <<>>, remaining |-> stream.header.data_length] @@ stream)

Available == stream.arrives - HeaderEnd - Len(stream.got)

(* Mutant: the end of the stream is the end of the payload. *)
PollReadToEof ==
  /\ Reading("payload") /\ stream.remaining > 0
  /\ ReadOn([stream EXCEPT !.got = SubSeq(stream.payload, 1, Available), !.remaining = 0])

(* ChunkPayloadReader::poll_read: at most remaining, and what is there. *)
PollRead ==
  /\ Reading("payload") /\ stream.remaining > 0
  /\ \E n \in 1 .. Min({stream.remaining, Available}) :
       ReadOn([stream EXCEPT
                !.got = @ \o SubSeq(stream.payload, Len(@) + 1, Len(@) + n),
                !.remaining = @ - n])

(* read_exact and poll_read fail at an early end; the chunk does not surface. *)
ReadFails ==
  /\ \/ Reading("selector") /\ stream.arrives < 1
     \/ Reading("header") /\ stream.arrives < HeaderEnd
     \/ Reading("payload") /\ stream.remaining > 0 /\ Available = 0
  /\ stream' = NoStream
  /\ cut' = cut \cup {stream.header.chunk_id}
  /\ UNCHANGED <<config, length, origin, preamble, unsent, refused, chunks, outcome>>

(* The payload was read to its end: Session::take_chunk and, once num_data *)
(* shards are held, decode_and_finish.  After that chunks are refused.     *)
TakeChunk ==
  /\ Reading("payload") /\ stream.remaining = 0
  /\ LET idx == stream.header.chunk_id
         held == IF outcome = Pending /\ VerifyChunk(preamble, idx, stream.got)
                 THEN (idx :> stream.got) @@ chunks ELSE chunks
     IN /\ chunks' = held
        /\ outcome' = IF outcome = Pending /\ Cardinality(DOMAIN held) >= preamble.num_data
                      THEN Decode(preamble, held) ELSE outcome
  /\ stream' = NoStream
  /\ UNCHANGED <<config, length, origin, preamble, unsent, refused, cut>>

(* local_havelist. *)
LocalHavelist ==
  FoldSet(LAMBDA i, b : SetBit(b, i),
          WithCapacity(preamble.num_data + preamble.num_parity), DOMAIN chunks)

Next ==
  \/ Publish
  \/ \E v \in Variants : Open(v)
  \/ \E i \in unsent : WriteChunk(i)
  \/ ReadSelector \/ ReadChunkStream \/ PollRead \/ ReadFails \/ TakeChunk

Spec == Init /\ [][Next]_vars

-----------------------------------------------------------------------------
Total == preamble.num_data + preamble.num_parity

(* Type invariant; no stream carries more than MAX_CHUNK_DATA_BYTES. *)
TypeOK ==
  /\ config \in Configs /\ length \in Lengths /\ refused \in BOOLEAN
  /\ {origin.ok, outcome.ok} \subseteq BOOLEAN
  /\ preamble # NoPreamble =>
       /\ unsent \cup cut \cup DOMAIN chunks \subseteq 0 .. (Total - 1)
       /\ \A i, j \in DOMAIN chunks : Len(chunks[i]) = Len(chunks[j])
  /\ stream # NoStream => stream.header.data_length \in 1 .. MaxChunkData

(* However the stream is cut into reads and wherever it ends, a chunk surfaces *)
(* with exactly the bytes its header declares, and only with these is it held  *)
(* (ChunkPayloadReader, read_framed, verify_chunk).                            *)
WholeChunks ==
  /\ stream # NoStream /\ stream.at = "payload" =>
       stream.remaining + Len(stream.got) = Len(stream.payload)
  /\ \A i \in DOMAIN chunks : chunks[i] = origin.shards[i]

(* For every shape that encode accepts, short last shards and shards of nothing *)
(* but padding included: what is delivered is the payload, and with the         *)
(* origin's preamble it is delivered from any num_data shards in any order, as  *)
(* long as no more than num_parity streams break.  encode accepts shapes whose  *)
(* shards write_chunk refuses; then no shard at all is ever written.            *)
DecodesToPayload ==
  /\ outcome.ok => outcome.payload = Payload(length)
  /\ preamble # NoPreamble /\ preamble = origin.preamble =>
       /\ outcome.ok \/ outcome = Pending
       /\ stream = NoStream /\ (unsent = {} \/ refused) /\ Cardinality(cut) <= preamble.num_parity
            => outcome.ok \/ unsent = DOMAIN origin.shards

(* The havelist in a routing update says what is held: across the boundaries of *)
(* bytes and limbs, through as_bytes and from_bytes, and also when the bits     *)
(* past the last shard come in set.                                             *)
HavelistFaithful ==
  preamble # NoPreamble =>
    LET local == LocalHavelist
        sent == AsBytes(local)
        stray == [sent EXCEPT ![Len(sent)] =
                    @ \cup {b \in 0 .. (ByteBits - 1) : (Len(sent) - 1) * ByteBits + b >= Total}]
    IN /\ CountOnes(local) = Cardinality(DOMAIN chunks)
       /\ \A bytes \in {sent, stray} :
            LET parsed == FromBytes(bytes, Total) IN
            /\ {i \in 0 .. Total : GetBit(parsed, i)} = DOMAIN chunks
            /\ CountOnes(parsed) = Cardinality(DOMAIN chunks)
            /\ OrMerge(WithCapacity(Total), parsed) = local
=============================================================================
