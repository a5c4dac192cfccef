------------------------------ MODULE SendPath ------------------------------
(***************************************************************************)
(* The way of a frame from the game on the server to the game on a Go      *)
(* client: the listener's send and broadcast calls and their size checks   *)
(* (golem/net/listener.go), the session's queues (session.go), the writes  *)
(* of the pump, the client's readers; and back, the client's commands, the *)
(* acknowledgements that ride on its stream, and its closing frame.        *)
(*                                                                         *)
(* Loss, order and retries of datagrams are DatagramLink's subject, the    *)
(* pumps and the close protocol SessionLifecycle's: here what is written   *)
(* arrives, and a session that is closing is not looked at any more.       *)
(***************************************************************************)
EXTENDS Wire

CONSTANTS
    Sessions,
    SendBuf,                                \* sendBufSize
    Sizes, MaxFrames, MaxBatch, MaxCalls    \* bounds: sizes of frames, frames in all
                                            \* and in a batch, calls

ASSUME SendPathAssumption == SendBuf \in Nat \ {0} /\ MaxBatch <= MaxFrames

VARIABLES
    webTransport,   \* ListenerConfig.Transport
    sess,           \* the sessions and their queues
    client,         \* per session: the channel's unread stream and datagrams, what the
                    \* managers were given by lane, the datagrams seen,
                    \* and whether an acknowledgement is due
    server,         \* per session: unread stream and datagrams, what was handled, and
                    \* how many datagrams are acknowledged
    batch, made,    \* the frames the game is about to send, and all it made
    calls,
    due, said,      \* history: frames accepted for a client, by lane; commands accepted
    err             \* the last call returned an error

vars == <<webTransport, sess, client, server, batch, made, calls, due, said, err>>

NoLanes == [l \in Lanes |-> <<>>]

\* A listener for WebTransport also serves WebSocket.
Init ==
    /\ webTransport \in BOOLEAN
    /\ sess \in [Sessions -> [wt : {webTransport, FALSE}, closing : {FALSE}, broken : {FALSE},
                              queue : {NoLanes}]]
    /\ client = [s \in Sessions |-> [stream |-> <<>>, air |-> <<>>, got |-> NoLanes, seen |-> 0, ackDirty |-> FALSE]]
    /\ server = [s \in Sessions |-> [stream |-> <<>>, air |-> <<>>, handled |-> <<>>, acked |-> 0]]
    /\ batch = <<>> /\ made = 0 /\ calls = 0
    /\ due = [s \in Sessions |-> NoLanes] /\ said = [s \in Sessions |-> <<>>]
    /\ err = FALSE

\* The game prepares one more frame.
Prepare(n) ==
    /\ made < MaxFrames /\ Len(batch) < MaxBatch /\ calls < MaxCalls
    /\ made' = made + 1
    /\ batch' = Append(batch, Fill("byte", made', n))
    /\ UNCHANGED <<webTransport, sess, client, server, calls, due, said, err>>

-----------------------------------------------------------------------------
(* Session: its queues. *)

queueStream(r, frames) ==
    IF r.closing THEN r
    ELSE IF Len(r.queue["stream"]) = SendBuf THEN [r EXCEPT !.closing = TRUE]
    ELSE [r EXCEPT !.queue["stream"] = Append(@, frames)]

\* SendUnreliable, sendUnreliableStateOwned, sendEventualStateOwned: a full
\* queue closes the session and is no error.
queueLossy(r, lane, payload) ==
    IF r.closing THEN [r |-> r, err |-> FALSE]
    ELSE IF Oversized(lane, payload) THEN [r |-> r, err |-> TRUE]
    ELSE IF Len(r.queue[lane]) = SendBuf THEN [r |-> [r EXCEPT !.closing = TRUE], err |-> FALSE]
    ELSE [r |-> [r EXCEPT !.queue[lane] = Append(@, payload)], err |-> FALSE]

\* Any error of enqueueReliable closes the session.
queueReliable(r, lane, payload) ==
    IF r.closing THEN [r |-> r, err |-> FALSE]
    ELSE IF Oversized(lane, payload) \/ Len(r.queue[lane]) = SendBuf
    THEN [r |-> [r EXCEPT !.closing = TRUE], err |-> TRUE]
    ELSE [r |-> [r EXCEPT !.queue[lane] = Append(@, payload)], err |-> FALSE]

queue(r, lane, payload) ==
    IF lane \in Reliable THEN queueReliable(r, lane, payload) ELSE queueLossy(r, lane, payload)

QueueAll(r, lane, payloads) ==
    FoldLeft(LAMBDA st, p : IF st.err THEN st ELSE queue(st.r, lane, p),
             [r |-> r, err |-> FALSE], payloads)

-----------------------------------------------------------------------------
(* Listener: the calls of the game.  frames is what the game wants a client   *)
(* to see; due follows what the calls promise: a call without an error        *)
(* reaches every target that is open and can take it.                         *)

Called(frames, e) ==
    /\ calls < MaxCalls /\ frames # <<>>
    /\ calls' = calls + 1 /\ batch' = <<>> /\ err' = e
    /\ UNCHANGED <<webTransport, client, server, made, said>>

Owed(targets, lane, frames, e) ==
    due' = [s \in Sessions |->
        IF (s \in targets /\ ~e) \/ sess'[s].queue # sess[s].queue
        THEN [due[s] EXCEPT ![lane] = @ \o frames] ELSE due[s]]

\* Mutant: the frames before one that is too large are sent.
StreamUntilError(targets, frames) ==
    LET wrapped == [i \in DOMAIN frames |-> wrap(frames[i])]
        good == SelectSeq(wrapped, LAMBDA f : ~TooLarge(f))
        e == Len(good) < Len(wrapped)
    IN  /\ Called(frames, e)
        /\ sess' = [s \in Sessions |-> IF s \in targets THEN queueStream(sess[s], good) ELSE sess[s]]
        /\ Owed({s \in targets : ~sess[s].closing}, "stream", frames, e)

Stream(targets, frames) ==
    LET wrapped == [i \in DOMAIN frames |-> wrap(frames[i])]
        e == \E i \in DOMAIN wrapped : TooLarge(wrapped[i])
    IN  /\ Called(frames, e)
        /\ sess' = [s \in Sessions |-> IF s \in targets /\ ~e THEN queueStream(sess[s], wrapped) ELSE sess[s]]
        /\ Owed({s \in targets : ~sess[s].closing}, "stream", frames, e)

Send(s) == Len(batch) = 1 /\ Stream({s}, batch)
SendWrapped(s) == Len(batch) = 1 /\ Stream({s}, batch)
SendBatch(s) == Stream({s}, batch)
BroadcastRaw == Len(batch) = 1 /\ Stream(Sessions, batch)
Broadcast == Stream(Sessions, batch)
BroadcastBatch == Stream(Sessions, batch)

Capable(s) == sess[s].wt

\* A call on a datagram lane to one session.
DatagramTo(s, lane, frames, packed) ==
    LET done == QueueAll(sess[s], lane, packed.chunks)
        e == ~webTransport \/ ~Capable(s) \/ packed.err \/ done.err
    IN  /\ Called(frames, e)
        /\ sess' = IF webTransport /\ Capable(s) /\ ~packed.err THEN [sess EXCEPT ![s] = done.r] ELSE sess
        /\ Owed({c \in {s} : ~sess[c].closing}, lane, frames, e)

\* Mutant: a broadcast stops at the first session without datagrams.
BroadcastStops(lane, frames, packed) ==
    LET order == CHOOSE o \in SetToSeqs(Sessions) : TRUE
        Visit(st, s) ==
            IF st.err \/ ~Capable(s) THEN [st EXCEPT !.err = TRUE]
            ELSE LET done == QueueAll(st.sess[s], lane, packed.chunks)
                 IN  [sess |-> [st.sess EXCEPT ![s] = done.r], err |-> done.err]
        end == FoldLeft(Visit, [sess |-> sess, err |-> FALSE], order)
        e == ~webTransport \/ packed.err
    IN  /\ Called(frames, e)
        /\ sess' = IF webTransport /\ ~packed.err THEN end.sess ELSE sess
        /\ Owed({s \in Sessions : Capable(s) /\ ~sess[s].closing}, lane, frames, e)

\* A broadcast on a datagram lane, to the sessions in any order; it returns at
\* the first error and leaves the rest out.
DatagramToAll(lane, frames, packed) ==
    \E order \in SetToSeqs(Sessions) :
        LET Visit(st, s) ==
                IF st.err \/ ~Capable(s) THEN st
                ELSE LET done == QueueAll(st.sess[s], lane, packed.chunks)
                     IN  [sess |-> [st.sess EXCEPT ![s] = done.r], err |-> done.err]
            end == FoldLeft(Visit, [sess |-> sess, err |-> FALSE], order)
            e == ~webTransport \/ packed.err \/ end.err
        IN  /\ Called(frames, e)
            /\ sess' = IF webTransport /\ ~packed.err THEN end.sess ELSE sess
            /\ Owed({s \in Sessions : Capable(s) /\ ~sess[s].closing}, lane, frames, e)

\* One payload: a frame that the game framed itself (AppendCompactStateDatagramFrame).
Single(limit) ==
    LET payload == appendFrame(<<>>, batch[1], Prefix)
    IN  [err |-> Len(payload) > limit, chunks |-> <<payload>>]
One == Len(batch) = 1

\* SendUnreliable checks the datagram's size here and the payload's in the session.
SendUnreliable(s) == One /\ DatagramTo(s, "unreliable", batch, Single(MaxDatagram))
BroadcastUnreliable == One /\ DatagramToAll("unreliable", batch, Single(MaxDatagram))
SendReliableUnordered(s) == One /\ DatagramTo(s, "unordered", batch, Single(MaxPayload("unordered")))
BroadcastReliableUnordered == One /\ DatagramToAll("unordered", batch, Single(MaxPayload("unordered")))
SendReliableOrdered(s) == One /\ DatagramTo(s, "ordered", batch, Single(MaxPayload("ordered")))
BroadcastReliableOrdered == One /\ DatagramToAll("ordered", batch, Single(MaxPayload("ordered")))
SendEventualState(s) == One /\ DatagramTo(s, "eventual", batch, Single(MaxPayload("eventual")))
SendUnreliableStateOwned(s) == One /\ DatagramTo(s, "raw", batch, Single(MaxDatagram))

\* The batches, packed once for all; broadcasts wrap the frames first.
SendReliableOrderedBatch(s) ==
    DatagramTo(s, "ordered", batch, chunkFrames(batch, MaxPayload("ordered"), Prefix))
SendUnreliableStateBatch(s) ==
    DatagramTo(s, "raw", batch, chunkFrames(batch, MaxDatagram, Prefix))
BroadcastReliableOrderedBatch ==
    LET wrapped == [i \in DOMAIN batch |-> wrap(batch[i])]
    IN  DatagramToAll("ordered", wrapped, chunkFrames(wrapped, MaxPayload("ordered"), Prefix))
BroadcastUnreliableStateBatch ==
    LET wrapped == [i \in DOMAIN batch |-> wrap(batch[i])]
    IN  DatagramToAll("raw", wrapped, chunkFrames(wrapped, MaxDatagram, Prefix))

-----------------------------------------------------------------------------
(* The write pump.  broken: a write or a read failed over a size.             *)

\* tryRecvStream, tryRecvUnreliable, tryRecvRawState; the protocol's own queues alike
tryRecv(s, lane) == ~sess[s].closing /\ sess[s].queue[lane] # <<>>

\* The WriteBatch of either channel
Written(wt, frames) ==
    IF wt THEN writeReliableFrameChunks(frames, MaxChunk, Prefix)
    ELSE writeReliableFrameChunks(frames, MaxMessage, 0)

WriteBatch(s) ==
    LET out == Written(sess[s].wt, Head(sess[s].queue["stream"]))
    IN  /\ tryRecv(s, "stream")
        /\ sess' = [sess EXCEPT ![s].queue["stream"] = Tail(@), ![s].broken = @ \/ out.err]
        /\ client' = [client EXCEPT ![s].stream = @ \o out.chunks]
        /\ UNCHANGED <<webTransport, server, batch, made, calls, due, said, err>>

WriteDatagram(s, lane) ==
    LET packet == appendDatagramPacket(lane, Head(sess[s].queue[lane]), 0) IN
    /\ tryRecv(s, lane)
    /\ sess' = [sess EXCEPT ![s].queue[lane] = Tail(@), ![s].broken = @ \/ ~validateDatagramSize(packet)]
    /\ client' = [client EXCEPT ![s].air = Append(@, packet)]
    /\ UNCHANGED <<webTransport, server, batch, made, calls, due, said, err>>

-----------------------------------------------------------------------------
(* The client's channels and handleMessage, handleCompactStateBatch. *)

\* WebTransportChannel.readLoop
ReadFrame(s) ==
    LET in == readReliableFrame(Flatten(client[s].stream)) IN
    /\ sess[s].wt /\ (in.ok \/ in.err) /\ ~sess[s].broken
    /\ IF in.err THEN sess' = [sess EXCEPT ![s].broken = TRUE] /\ UNCHANGED client
       ELSE /\ client' = [client EXCEPT ![s].stream = <<in.rest>>,
                                        ![s].got["stream"] = @ \o decodeServerMessages(in.data)]
            /\ UNCHANGED sess
    /\ UNCHANGED <<webTransport, server, batch, made, calls, due, said, err>>

\* WebSocketChannel.readLoop, with its read limit
ReadMessage(s) ==
    LET in == client[s].stream IN
    /\ ~sess[s].wt /\ in # <<>>
    /\ sess' = [sess EXCEPT ![s].broken = @ \/ Len(in[1]) > MaxMessage]
    /\ client' = [client EXCEPT ![s].stream = Tail(@),
                                ![s].got["stream"] = @ \o decodeServerMessages(in[1])]
    /\ UNCHANGED <<webTransport, server, batch, made, calls, due, said, err>>

\* datagramProtocol.receive and deliverDatagram, which has no case for the
\* unordered lane.  A datagram without a packet header is misread: it is
\* dropped or, if its bytes say so, ends the connection.
ReceiveDatagram(s) ==
    LET in == decodeDatagramPacket(Head(client[s].air)) IN
    /\ client[s].air # <<>>
    /\ client' = [client EXCEPT
          ![s].air = Tail(@), ![s].ackDirty = @ \/ in.ok, ![s].seen = IF in.ok THEN @ + 1 ELSE @,
          ![s].got = IF in.ok /\ in.lane # "unordered"
                     THEN [@ EXCEPT ![in.lane] = @ \o decodeLengthPrefixedFrames(in.payload)] ELSE @]
    /\ sess' \in {sess} \cup (IF in.ok THEN {} ELSE {[sess EXCEPT ![s].closing = TRUE]})
    /\ UNCHANGED <<webTransport, server, batch, made, calls, due, said, err>>

-----------------------------------------------------------------------------
(* Commands of the client. *)

Said(s, frame, e) ==
    /\ calls < MaxCalls /\ One /\ ~sess[s].closing
    /\ calls' = calls + 1 /\ batch' = <<>> /\ err' = e
    /\ said' = IF e THEN said ELSE [said EXCEPT ![s] = Append(@, frame)]
    /\ UNCHANGED <<webTransport, sess, made, due>>

\* Send and SendOrdered: on a datagram lane, or packed on the stream of a
\* channel that has none.
sendCommand(s, lane) ==
    LET frame == batch[1]
        e == IF sess[s].wt THEN Oversized(lane, frame) ELSE TooLarge(wrap(frame))
    IN  /\ Said(s, frame, e)
        /\ server' = IF e THEN server
                     ELSE IF sess[s].wt
                     THEN [server EXCEPT ![s].air = Append(@, encodeDatagramPacket(lane, frame, client[s].seen))]
                     ELSE [server EXCEPT ![s].stream = Append(@, wrap(frame))]
        /\ client' = IF e THEN client ELSE [client EXCEPT ![s].ackDirty = @ /\ ~sess[s].wt]

\* Mutant: the header is added without a look at the size.
wrapAlways(s, payload) ==
    IF client[s].ackDirty THEN Fill("ack", client[s].seen, AckHeader) \o payload ELSE payload

\* wrapStreamPayload: an acknowledgement that is due goes along if it fits.
wrapStreamPayload(s, payload) ==
    IF client[s].ackDirty /\ Len(payload) + AckHeader <= MaxMessage
    THEN Fill("ack", client[s].seen, AckHeader) \o payload ELSE payload

\* WebTransportChannel.Send of a packet
SendOnStream(s) ==
    LET packet == wrap(batch[1])
        out == wrapStreamPayload(s, packet)
        e == TooLarge(out)
    IN  /\ sess[s].wt
        /\ Said(s, batch[1], e)
        /\ client' = [client EXCEPT ![s].ackDirty = @ /\ out = packet]
        /\ server' = IF e THEN server
                     ELSE [server EXCEPT ![s].stream = Append(@, appendFrame(<<>>, out, Prefix))]

\* sendDueAck: a packet without a lane
sendDueAck(s) ==
    /\ client[s].ackDirty /\ ~sess[s].closing
    /\ client' = [client EXCEPT ![s].ackDirty = FALSE]
    /\ server' = [server EXCEPT ![s].air = Append(@, Fill("ack", client[s].seen, PacketHeader))]
    /\ UNCHANGED <<webTransport, sess, batch, made, calls, due, said, err>>

CloseFrame == <<<<"close", 0>>>>

\* The channel's Close writes the closing frame.
CloseChannel(s) ==
    /\ ~sess[s].closing /\ calls < MaxCalls
    /\ calls' = calls + 1
    /\ server' = [server EXCEPT ![s].stream =
          Append(@, IF sess[s].wt THEN appendFrame(<<>>, CloseFrame, Prefix) ELSE CloseFrame)]
    /\ UNCHANGED <<webTransport, sess, client, batch, made, due, said, err>>

decodeClientReliableAckControlFrame(data) ==
    IF data # <<>> /\ data[1][1] = "ack"
    THEN [ack |-> data[1][2], payload |-> SubSeq(data, AckHeader + 1, Len(data))]
    ELSE [ack |-> 0, payload |-> data]

Larger(a, b) == IF a < b THEN b ELSE a

\* What a message on the stream says about the datagrams that have arrived.
handleReliableAckControlFrame(s, data) ==
    Larger(server[s].acked, decodeClientReliableAckControlFrame(data).ack)

\* readPump's handler of one message; commands come in an envelope.
Handle(s, data, rest) ==
    LET in == decodeClientReliableAckControlFrame(data) IN
    IF data = CloseFrame
    THEN /\ sess' = [sess EXCEPT ![s].closing = TRUE]
         /\ server' = [server EXCEPT ![s].stream = rest]
    ELSE /\ server' = [server EXCEPT ![s].stream = rest,
                                     ![s].acked = handleReliableAckControlFrame(s, data),
                                     ![s].handled = @ \o decodeServerMessages(in.payload)]
         /\ UNCHANGED sess

ServerReads(s) ==
    LET in == IF sess[s].wt THEN readReliableFrame(Flatten(server[s].stream))
              ELSE [ok |-> TRUE, err |-> Len(Head(server[s].stream)) > MaxMessage,
                    data |-> Head(server[s].stream)]
    IN  /\ server[s].stream # <<>> /\ ~sess[s].closing /\ ~sess[s].broken /\ (in.ok \/ in.err)
        /\ IF in.err THEN sess' = [sess EXCEPT ![s].broken = TRUE] /\ UNCHANGED server
           ELSE Handle(s, in.data, IF sess[s].wt THEN <<in.rest>> ELSE Tail(server[s].stream))
        /\ UNCHANGED <<webTransport, client, batch, made, calls, due, said, err>>

\* handleIncomingDatagram; a packet over the limit is a protocol error.
ServerReceives(s) ==
    LET data == Head(server[s].air)
        in == decodeOnServer(data)
    IN  /\ server[s].air # <<>> /\ ~sess[s].closing
        /\ sess' = [sess EXCEPT ![s].broken = @ \/ ~validateDatagramSize(data) \/ in.err]
        /\ server' = [server EXCEPT ![s].air = Tail(@), ![s].acked = Larger(@, in.ack),
                                    ![s].handled = IF in.ok THEN Append(@, in.payload) ELSE @]
        /\ UNCHANGED <<webTransport, client, batch, made, calls, due, said, err>>

-----------------------------------------------------------------------------
ServerCall ==
    \/ \E s \in Sessions :
        \/ Send(s) \/ SendWrapped(s) \/ SendBatch(s)
        \/ SendUnreliable(s) \/ SendReliableUnordered(s) \/ SendReliableOrdered(s)
        \/ SendEventualState(s) \/ SendUnreliableStateOwned(s)
        \/ SendReliableOrderedBatch(s) \/ SendUnreliableStateBatch(s)
    \/ BroadcastRaw \/ Broadcast \/ BroadcastBatch
    \/ BroadcastUnreliable \/ BroadcastReliableUnordered \/ BroadcastReliableOrdered
    \/ BroadcastReliableOrderedBatch \/ BroadcastUnreliableStateBatch

ClientCall ==
    \E s \in Sessions :
        (\E lane \in Reliable : sendCommand(s, lane)) \/ SendOnStream(s) \/ CloseChannel(s)

Transfer(s) ==
    \/ WriteBatch(s) \/ \E lane \in Datagrams : WriteDatagram(s, lane)
    \/ ReadFrame(s) \/ ReadMessage(s) \/ ReceiveDatagram(s)
    \/ sendDueAck(s) \/ ServerReads(s) \/ ServerReceives(s)

Next == (\E n \in Sizes : Prepare(n)) \/ ServerCall \/ ClientCall \/ \E s \in Sessions : Transfer(s)

Spec == Init /\ [][Next]_vars

-----------------------------------------------------------------------------
Live(s) == ~sess[s].closing

Idle(s, lane) ==
    sess[s].queue[lane] = <<>>
    /\ IF lane = "stream" THEN Flatten(client[s].stream) = <<>> ELSE client[s].air = <<>>

\* Every frame that a call took for a session reaches its client whole, once and
\* in the order of the calls; raw state datagrams (which the Go client misreads)
\* and the unordered lane (which it has no handler for) excepted.
FramesArrive ==
    \A s \in Sessions, lane \in Lanes \ {"raw", "unordered"} : Live(s) =>
        /\ IsPrefix(client[s].got[lane], due[s][lane])
        /\ Idle(s, lane) => client[s].got[lane] = due[s][lane]

Limits == {<<MaxMessage, 0>>, <<MaxChunk, Prefix>>, <<MaxPayload("ordered"), Prefix>>,
           <<MaxPayload("eventual"), Prefix>>, <<MaxDatagram, Prefix>>}

\* Fewest chunks: the groups between some cuts, each within the limit or a
\* single frame.
FewestChunks(frames, max, prefix) ==
    LET n == Len(frames)
        Size(a, b) == Len(Flatten([i \in 1 .. (b - a) |-> appendFrame(<<>>, frames[a + i], prefix)]))
        Fits(cuts) == \A a \in cuts, b \in cuts :
            a < b /\ (\A c \in cuts : ~(a < c /\ c < b)) => b = a + 1 \/ Size(a, b) <= max
        Sets == {C \in SUBSET (0 .. n) : {0, n} \subseteq C /\ Fits(C)}
    IN  CHOOSE k \in 0 .. n : (\E C \in Sets : Cardinality(C) = k + 1)
                              /\ \A C \in Sets : Cardinality(C) > k

\* No packing of the frames in order needs fewer writes, no chunk of several
\* frames is over the limit, and the statistics count what is written.
PackingIsTight ==
    batch # <<>> /\ (\A i \in DOMAIN batch : ~TooLarge(batch[i])) =>
        /\ \A wt \in BOOLEAN :
              ReliableStreamWriteChunkCount(wt, batch) = Len(Written(wt, batch).chunks)
        /\ \A l \in Limits :
              LET out == writeReliableFrameChunks(batch, l[1], l[2]).chunks
                  packed == chunkFrames(batch, l[1], l[2])
              IN  /\ l[2] > 0 => Len(out) = FewestChunks(batch, l[1], l[2])
                  /\ ~packed.err =>
                        /\ packed.chunks = out
                        /\ \A i \in DOMAIN out : Len(out[i]) <= l[1]
                        /\ l[1] = MaxDatagram /\ l[2] > 0 =>
                              UnreliableStateDatagramPayloadCount(batch) = Len(out)

\* The way down: what the size checks of the listener let through is never found
\* too large by the write pump or by the reader at the other end (broken), every
\* frame arrives, and the three loops that pack or count frames (payload.go)
\* agree and waste no write.
DownlinkExact == (\A s \in Sessions : ~sess[s].broken) /\ FramesArrive /\ PackingIsTight

\* The way up: every command the client took is handled by the server as it was
\* given, with or without an acknowledgement in front of it; and the
\* acknowledgement of the last datagram is due, on its way (with a command, in
\* front of a message or in a packet of its own), or has arrived.
UplinkExact ==
    \A s \in Sessions : Live(s) =>
        LET seen == client[s].seen IN
        /\ ToSet(server[s].handled) \subseteq ToSet(said[s])
        /\ Flatten(server[s].stream) = <<>> /\ server[s].air = <<>>
             => ToSet(server[s].handled) = ToSet(said[s])
        /\ \/ client[s].ackDirty \/ server[s].acked = seen
           \/ \E i \in DOMAIN server[s].air : server[s].air[i][1][2] = seen
           \/ <<"ack", seen>> \in ToSet(Flatten(server[s].stream))

\* A call that is refused has done nothing, unless it ran into a full queue.
RefusedDoesNothing ==
    [][calls' # calls /\ err' =>
        \/ sess' = sess
        \/ \E s \in Sessions : Live(s) /\ sess'[s].closing
                              /\ \E lane \in Reliable : Len(sess'[s].queue[lane]) = SendBuf]_vars

=============================================================================
