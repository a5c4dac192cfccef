-------------------------------- MODULE Wire --------------------------------
(***************************************************************************)
(* The bytes between the server and the Go client: the packing of frames  *)
(* into stream writes and datagram payloads (golem/net/payload.go), the    *)
(* datagram packet (datagram_codec.go) and the client's readers of both    *)
(* (golem-go-client/framing.go, webtransport.go, golem/pb).                *)
(*                                                                         *)
(* A byte is a pair <<kind, value>>; a header field is written as so many  *)
(* copies of one, so sizes add up as in the code, with small numbers for   *)
(* its sizes.  Packet numbers and acknowledgement masks are left to        *)
(* DatagramLink.                                                           *)
(***************************************************************************)
EXTENDS Naturals, Sequences, FiniteSets, SequencesExt

CONSTANTS
    MaxMessage, MaxChunk, MaxDatagram,      \* maxReliableMessageBytes, maxReliableChunkBytes,
                                            \* maxWebTransportDatagramBytes
    Prefix,                                 \* reliableFrameHeaderBytes
    PacketHeader, MessageID, OrderedSeq, Token, AckHeader      \* the other headers

ASSUME WireAssumption ==
    /\ {MaxMessage, MaxChunk, MaxDatagram, Prefix, PacketHeader, MessageID, OrderedSeq,
        Token, AckHeader} \subseteq Nat \ {0}
    /\ PacketHeader + 1 + MessageID + OrderedSeq + Token < MaxDatagram

Datagrams == {"unreliable", "unordered", "ordered", "eventual", "raw"}
Lanes == Datagrams \cup {"stream"}
Reliable == {"unordered", "ordered"}

Fill(kind, v, n) == [i \in 1 .. n |-> <<kind, v>>]
Flatten(seqs) == FoldLeft(LAMBDA a, s : a \o s, <<>>, seqs)

-----------------------------------------------------------------------------
(* Packing frames (payload.go). *)

\* WrapEntityUpdate: the envelope's tag and length.
wrap(frame) == <<<<"tag", 1>>, <<"size", Len(frame)>>>> \o frame

\* The two encoders: raw (prefix 0) and length-prefixed.
encodedLen(frame, prefix) == prefix + Len(frame)
appendFrame(dst, frame, prefix) == dst \o Fill("len", Len(frame), prefix) \o frame

\* The frames that go out before the first one that is too large, in chunks.
PackUntil(frames, max, prefix, largest) ==
    LET Add(st, frame) ==
          IF st.err \/ Len(frame) > largest THEN [st EXCEPT !.err = TRUE]
          ELSE IF st.buf # <<>> /\ Len(st.buf) + encodedLen(frame, prefix) > max
          THEN [st EXCEPT !.chunks = Append(@, st.buf), !.buf = appendFrame(<<>>, frame, prefix)]
          ELSE [st EXCEPT !.buf = appendFrame(@, frame, prefix)]
    IN  FoldLeft(Add, [chunks |-> <<>>, buf |-> <<>>, err |-> FALSE], frames)

Flushed(st) == IF st.buf = <<>> THEN st.chunks ELSE Append(st.chunks, st.buf)

TooLarge(frame) == Len(frame) > MaxMessage

\* Datagram payloads: a frame that does not fit is an error.
chunkFrames(frames, max, prefix) ==
    LET st == PackUntil(frames, max, prefix, IF max - prefix < MaxMessage THEN max - prefix ELSE MaxMessage)
    IN  [err |-> st.err, chunks |-> IF st.err THEN <<>> ELSE Flushed(st)]

\* Stream writes: a frame larger than the chunk goes out alone; what was packed
\* before an error is already written.
writeReliableFrameChunks(frames, max, prefix) ==
    LET st == PackUntil(frames, max, prefix, MaxMessage)
    IN  [err |-> st.err, chunks |-> IF st.err THEN st.chunks ELSE Flushed(st)]

countReliableFrameChunks(frames, max, prefix) ==
    LET Add(st, frame) ==
          LET len == encodedLen(frame, prefix)
          IN  IF st.pending > 0 /\ st.pending + len > max
              THEN [chunks |-> st.chunks + 1, pending |-> len]
              ELSE [st EXCEPT !.pending = @ + len]
        end == FoldLeft(Add, [chunks |-> 0, pending |-> 0], frames)
    IN  end.chunks + (IF end.pending > 0 THEN 1 ELSE 0)

\* What the statistics count: the writes of a batch on a stream.
ReliableStreamWriteChunkCount(wt, frames) ==
    IF wt THEN countReliableFrameChunks(frames, MaxChunk, Prefix)
    ELSE countReliableFrameChunks(frames, MaxMessage, 0)

\* It starts at one payload and never closes the last.
UnreliableStateDatagramPayloadCount(frames) ==
    LET Add(st, frame) ==
          LET len == encodedLen(frame, Prefix)
          IN  IF st.pending > 0 /\ st.pending + len > MaxDatagram
              THEN [payloads |-> st.payloads + 1, pending |-> len]
              ELSE [st EXCEPT !.pending = @ + len]
    IN  FoldLeft(Add, [payloads |-> 1, pending |-> 0], frames).payloads

-----------------------------------------------------------------------------
(* Datagram packets (datagram_codec.go). *)

LaneHeader(lane) ==
    CASE lane = "unordered" -> MessageID
      [] lane = "ordered" -> MessageID + OrderedSeq
      [] lane = "eventual" -> Token
      [] OTHER -> 0

\* maxUnreliableDatagramPayloadBytes and its siblings.
MaxPayload(lane) ==
    IF lane = "raw" THEN MaxDatagram ELSE MaxDatagram - PacketHeader - 1 - LaneHeader(lane)

\* The header carries what the sender has received (ack).
appendDatagramPacket(lane, payload, ack) ==
    IF lane = "raw" THEN payload
    ELSE Fill("header", ack, PacketHeader) \o <<<<"lane", lane>>>>
         \o Fill("lane header", 0, LaneHeader(lane)) \o payload

\* validateReliableDatagramMessageSize and its siblings
Oversized(lane, payload) == Len(payload) > MaxPayload(lane)
validateDatagramSize(data) == Len(data) <= MaxDatagram

\* The client's encoder, which leaves the sizes to its callers.
encodeDatagramPacket(lane, payload, ack) ==
    Fill("header", ack, PacketHeader) \o <<<<"lane", lane>>>>
    \o Fill("lane header", 0, LaneHeader(lane)) \o payload

\* The Go client's decoder reads a raw state datagram, which has no packet
\* header, as if it had one.
decodeDatagramPacket(data) ==
    IF Len(data) < PacketHeader + 1 THEN [ok |-> FALSE]
    ELSE IF data[PacketHeader + 1][1] # "lane" THEN [ok |-> FALSE]
    ELSE LET lane == data[PacketHeader + 1][2]
             start == PacketHeader + 2 + LaneHeader(lane)
         IN  IF Len(data) < start - 1 THEN [ok |-> FALSE]
             ELSE [ok |-> TRUE, lane |-> lane, ack |-> data[1][2], payload |-> SubSeq(data, start, Len(data))]

\* The server's decoder also looks at the payload's size; an acknowledgement
\* alone has no lane.
decodeOnServer(data) ==
    IF Len(data) = PacketHeader THEN [ok |-> FALSE, ack |-> data[1][2], err |-> FALSE]
    ELSE LET in == decodeDatagramPacket(data)
         IN  [ok |-> in.ok, ack |-> data[1][2],
              err |-> ~in.ok \/ Oversized(in.lane, in.payload),
              payload |-> IF in.ok THEN in.payload ELSE <<>>]

-----------------------------------------------------------------------------
(* The client's readers (framing.go, the envelope reader of golem/pb). *)

RECURSIVE decodeLengthPrefixedFrames(_)
decodeLengthPrefixedFrames(data) ==
    IF Len(data) < Prefix THEN <<>>
    ELSE LET n == data[1][2]
         IN  IF Len(data) - Prefix < n THEN <<>>
             ELSE <<SubSeq(data, Prefix + 1, Prefix + n)>>
                  \o decodeLengthPrefixedFrames(SubSeq(data, Prefix + n + 1, Len(data)))

\* One message of the stream, as far as it has arrived.
readReliableFrame(bytes) ==
    IF Len(bytes) < Prefix THEN [ok |-> FALSE, err |-> FALSE]
    ELSE LET n == bytes[1][2]
         IN  IF n > MaxMessage THEN [ok |-> FALSE, err |-> TRUE]
             ELSE IF Len(bytes) < Prefix + n THEN [ok |-> FALSE, err |-> FALSE]
             ELSE [ok |-> TRUE, err |-> FALSE, data |-> SubSeq(bytes, Prefix + 1, Prefix + n),
                   rest |-> SubSeq(bytes, Prefix + n + 1, Len(bytes))]

RECURSIVE decodeServerMessages(_)
decodeServerMessages(data) ==
    IF data = <<>> THEN <<>>
    ELSE LET n == data[2][2]
         IN  <<SubSeq(data, 3, 2 + n)>> \o decodeServerMessages(SubSeq(data, 3 + n, Len(data)))

=============================================================================
