---------------------------- MODULE DatagramLink ----------------------------
(***************************************************************************)
(* The datagram reliability protocol between a server Session              *)
(* (golem/net/datagram_sender.go, datagram_receiver.go) and one client,    *)
(* the Go client (golem-go-client/webtransport.go) or the JavaScript       *)
(* client (golem-js/src/client.ts), over a network that loses, duplicates  *)
(* and reorders datagrams.                                                 *)
(*                                                                         *)
(* Time is abstracted: a retry delay may have passed or not whenever a     *)
(* queue is scanned, and a message's TTL, an ordered gap's timeout or a    *)
(* state datagram's TTL may run out whenever there is such a message, gap  *)
(* or datagram.  A message is its ID, a state update its token.  Both      *)
(* numbers grow with time and do not wrap here, so a queue of messages is  *)
(* a set: the oldest one has the smallest ID.                              *)
(***************************************************************************)
EXTENDS DatagramSeq, Sequences, FiniteSets

CONSTANTS
    RetryLimit,         \* datagramReliableRetryLimit
    EventualLimit,      \* datagramEventualStatePendingLimit
    Scenarios           \* who connects and what both ends send, see below

Ends  == {"server", "client"}
Lanes == {"unordered", "ordered"}
Peer(e) == IF e = "server" THEN "client" ELSE "server"

\* A session to look at: the client that connects, the server's sendBufSize,
\* and the bounds of the model: reliable messages per lane and unreliable
\* datagrams of each end, state updates, and packets either end may send.
\* Packets and messages are few enough not to wrap: SequenceWindow is about
\* wrapping.
ScenarioType ==
    [client : {"go", "js"}, sendBuf : Nat, messages : [Ends -> [Lanes -> Nat]],
     unreliable : [Ends -> Nat], tokens : Nat, packets : 1 .. HalfRange]

ASSUME LinkAssumption ==
    /\ RetryLimit \in Nat /\ EventualLimit \in Nat
    /\ \A s \in Scenarios :
          /\ s \in ScenarioType
          /\ \A e \in Ends : s.messages[e]["ordered"] + s.messages[e]["unordered"] <= HalfRange

VARIABLES
    scenario,           \* chosen once
    net,                \* datagrams ever sent; receiving one does not use it up
    failed,             \* ends that closed the session
    nextPacketSeq, nextMessageID, nextOrderedSeq,
    recvPackets,        \* window over packet numbers
    recvReliableMsgs,   \* window over message IDs
    orderedRecv,        \* [started, nextSeq, pending]
    ackDirty,
    pending,            \* unacknowledged messages, both lanes
    unreliable,         \* unreliable datagrams sent
    nextToken, pendingEventual, inFlightEventual, eventualFeedback, \* server
    received,           \* history: message IDs in packets an end accepted
    delivered,          \* history: messages handed to the application
    pruned,             \* history: [id, packet] dropped as delivered
    gotTokens           \* history: tokens of state datagrams handed over

recvVars  == <<recvPackets, recvReliableMsgs, orderedRecv>>
eventVars == <<nextToken, pendingEventual, inFlightEventual, eventualFeedback>>
histVars  == <<received, delivered, pruned, gotTokens>>
vars == <<scenario, net, failed, nextPacketSeq, nextMessageID, nextOrderedSeq, recvVars,
          ackDirty, pending, unreliable, eventVars, histVars>>

Init ==
    /\ scenario \in Scenarios
    /\ net = {} /\ failed = {}
    /\ nextPacketSeq = [e \in Ends |-> 0]
    /\ nextMessageID = [e \in Ends |-> 0]
    /\ nextOrderedSeq = [e \in Ends |-> 0]
    /\ recvPackets = [e \in Ends |-> EmptyWindow]
    /\ recvReliableMsgs = [e \in Ends |-> EmptyWindow]
    /\ orderedRecv = [e \in Ends |-> [started |-> FALSE, nextSeq |-> 0,
                                      pending |-> {}]]
    /\ ackDirty = [e \in Ends |-> FALSE]
    /\ pending = [e \in Ends |-> {}]
    /\ unreliable = [e \in Ends |-> 0]
    /\ nextToken = 0 /\ pendingEventual = <<>>
    /\ inFlightEventual = {} /\ eventualFeedback = {}
    /\ received = [e \in Ends |-> {}]
    /\ delivered = [e \in Ends |-> <<>>]
    /\ pruned = [e \in Ends |-> {}]
    /\ gotTokens = {}

-----------------------------------------------------------------------------
(* Packets *)

Kind(e) == IF e = "server" THEN "server" ELSE scenario.client

\* newPacket: the header of every packet carries the receive window as it is.
NewPacket(e, kind, id, orderedSeq) ==
    [to |-> Peer(e), seq |-> nextPacketSeq[e],
     ackSeq |-> recvPackets[e].latest, ackMask |-> recvPackets[e].mask,
     kind |-> kind, id |-> id, orderedSeq |-> orderedSeq]

Emit(e, kind, id, orderedSeq) ==
    /\ nextPacketSeq[e] < scenario.packets
    /\ net' = net \cup {NewPacket(e, kind, id, orderedSeq)}
    /\ nextPacketSeq' = [nextPacketSeq EXCEPT ![e] = NextSeq(@)]
    /\ ackDirty' = [ackDirty EXCEPT ![e] = FALSE]

Live(e) == e \notin failed

InLane(q, lane) == {m \in q : m.lane = lane}

-----------------------------------------------------------------------------
(* Sending *)

\* enqueueReliable: the next message ID and, in the ordered lane, the next
\* order number.  The Go client transmits at once.
NewMessage(e, lane) ==
    [id |-> nextMessageID[e], lane |-> lane,
     orderedSeq |-> IF lane = "ordered" THEN nextOrderedSeq[e] ELSE 0,
     last |-> 0, attempts |-> 0, inFlight |-> FALSE]

Number(e, lane) ==
    /\ nextMessageID' = [nextMessageID EXCEPT ![e] = NextSeq(@)]
    /\ nextOrderedSeq' = [nextOrderedSeq EXCEPT ![e] =
                             IF lane = "ordered" THEN NextSeq(@) ELSE @]

Enqueue(e, lane) ==
    /\ Live(e) /\ Kind(e) # "go"
    /\ nextMessageID[e] < scenario.messages[e]["ordered"] + scenario.messages[e]["unordered"]
    /\ lane = "ordered" => nextOrderedSeq[e] < scenario.messages[e]["ordered"]
    /\ lane = "unordered" => nextMessageID[e] - nextOrderedSeq[e]
                               < scenario.messages[e]["unordered"]
    /\ Number(e, lane)
    /\ IF e = "server" /\ Cardinality(InLane(pending[e], lane)) >= scenario.sendBuf
         THEN failed' = failed \cup {e} /\ UNCHANGED pending
         ELSE /\ pending' = [pending EXCEPT ![e] = @ \cup {NewMessage(e, lane)}]
              /\ UNCHANGED failed
    /\ UNCHANGED <<scenario, net, nextPacketSeq, recvVars, ackDirty,
                   unreliable, eventVars, histVars>>

\* sendReliable of the Go client.
SendAtOnce(e, lane) ==
    /\ Live(e) /\ Kind(e) = "go"
    /\ lane = "ordered" => nextOrderedSeq[e] < scenario.messages[e]["ordered"]
    /\ lane = "unordered" => nextMessageID[e] - nextOrderedSeq[e]
                               < scenario.messages[e]["unordered"]
    /\ Number(e, lane)
    /\ LET m == NewMessage(e, lane) IN
       /\ Emit(e, lane, m.id, m.orderedSeq)
       /\ pending' = [pending EXCEPT ![e] =
             @ \cup {[m EXCEPT !.last = nextPacketSeq[e],
                               !.attempts = 1, !.inFlight = TRUE]}]
    /\ UNCHANGED <<scenario, failed, recvVars, unreliable, eventVars,
                   histVars>>

AttemptsLeft(m) == m.attempts < RetryLimit

\* One transmission of a pending message, the first or a resend.
Retransmit(e, m) ==
    /\ Live(e) /\ AttemptsLeft(m)
    /\ Emit(e, m.lane, m.id, m.orderedSeq)
    /\ pending' = [pending EXCEPT ![e] = (@ \ {m}) \cup
          {[m EXCEPT !.inFlight = TRUE, !.attempts = @ + 1, !.last = nextPacketSeq[e]]}]
    /\ UNCHANGED <<scenario, failed, nextMessageID, nextOrderedSeq, recvVars,
                   unreliable, eventVars, histVars>>

EarlierInLane(e, m) == {x \in InLane(pending[e], m.lane) : x.id < m.id}

\* nextReliablePacket of the server: the lane is scanned in order; a message
\* in flight whose retry delay has not passed is skipped.
NextReliablePacket(m) ==
    /\ \A x \in EarlierInLane("server", m) : x.inFlight
    /\ Retransmit("server", m)

\* drainRetries of the Go client visits its map in any order.
DrainRetries(m) == scenario.client = "go" /\ Retransmit("client", m)

\* _sendFromQueue of the JavaScript client: as the server, but a message at
\* its limit closes the session even if its delay has not passed.
SendFromQueue(m) ==
    /\ scenario.client = "js"
    /\ \A x \in EarlierInLane("client", m) : x.inFlight /\ AttemptsLeft(x)
    /\ Retransmit("client", m)

\* An unreliable datagram: it carries an acknowledgement like any packet.
SendUnreliable(e) ==
    /\ Live(e) /\ unreliable[e] < scenario.unreliable[e]
    /\ unreliable' = [unreliable EXCEPT ![e] = @ + 1]
    /\ Emit(e, "unreliable", 0, 0)
    /\ UNCHANGED <<scenario, failed, nextMessageID, nextOrderedSeq, recvVars,
                   pending, eventVars, histVars>>

\* nextAckPacket: ACK-only, once a received packet has made it due.
SendAck(e) ==
    /\ Live(e) /\ ackDirty[e]
    /\ Emit(e, "ack", 0, 0)
    /\ UNCHANGED <<scenario, failed, nextMessageID, nextOrderedSeq, recvVars,
                   pending, unreliable, eventVars, histVars>>

\* wrapStreamPayload: a due acknowledgement rides on a reliable stream frame
\* and uses no packet number.
SendStreamAck ==
    /\ Live("client") /\ ackDirty["client"]
    /\ net' = net \cup {[NewPacket("client", "ack", 0, 0)
                            EXCEPT !.seq = SeqCount]}
    /\ ackDirty' = [ackDirty EXCEPT !["client"] = FALSE]
    /\ UNCHANGED <<scenario, failed, nextPacketSeq, nextMessageID,
                   nextOrderedSeq, recvVars, pending, unreliable, eventVars,
                   histVars>>

\* enqueueEventualState, server only.
EnqueueEventual ==
    /\ Live("server") /\ nextToken < scenario.tokens
    /\ nextToken' = nextToken + 1
    /\ IF Len(pendingEventual) >= scenario.sendBuf
         THEN failed' = failed \cup {"server"} /\ UNCHANGED pendingEventual
         ELSE pendingEventual' = Append(pendingEventual, nextToken)
              /\ UNCHANGED failed
    /\ UNCHANGED <<scenario, net, nextPacketSeq, nextMessageID, nextOrderedSeq,
                   recvVars, ackDirty, pending, unreliable, inFlightEventual,
                   eventualFeedback, histVars>>

TooManyInFlight == Cardinality(inFlightEventual) > EventualLimit

\* nextEventualStatePacket: state updates are never resent as they are.
SendEventual ==
    /\ Live("server") /\ pendingEventual # <<>> /\ ~TooManyInFlight
    /\ Emit("server", "eventual", Head(pendingEventual), 0)
    /\ inFlightEventual' = inFlightEventual \cup
          {[packet |-> nextPacketSeq["server"], token |-> Head(pendingEventual)]}
    /\ pendingEventual' = Tail(pendingEventual)
    /\ UNCHANGED <<scenario, failed, nextMessageID, nextOrderedSeq, recvVars,
                   pending, unreliable, nextToken, eventualFeedback, histVars>>

-----------------------------------------------------------------------------
(* Acknowledgements *)

\* pruneReliableQueue: only messages in flight are looked at.
ServerAck(m, p) ==
    IF m.inFlight THEN packetAckState(m.last, p.ackSeq, p.ackMask) ELSE "pending"

\* applyPeerAcksLocked of the Go client: a loss changes nothing.
GoAck(m, p) ==
    IF ackedGo(m.last, p.ackSeq, p.ackMask) THEN "delivered" ELSE "pending"

\* _pruneQueue of the JavaScript client looks at every queued message.
JsAck(m, p) == packetAckState(m.last, p.ackSeq, p.ackMask)

AckOf(e, m, p) ==
    IF Kind(e) = "server" THEN ServerAck(m, p)
    ELSE IF Kind(e) = "go" THEN GoAck(m, p) ELSE JsAck(m, p)

AfterAck(e, m, p) ==
    IF AckOf(e, m, p) = "lost" THEN [m EXCEPT !.inFlight = FALSE] ELSE m

Keeps(e, m, p) == AckOf(e, m, p) # "delivered"

AckedQueue(e, p) == {AfterAck(e, m, p) : m \in {x \in pending[e] : Keeps(e, x, p)}}

AckedMessages(e, p) ==
    {[id |-> m.id, packet |-> m.last] :
        m \in {x \in pending[e] : ~Keeps(e, x, p)}}

\* pruneReliableQueue gives up as soon as it meets a message at its limit,
\* before it looks at the acknowledgement.
PruneStalls(e) ==
    e = "server" /\ \E m \in pending[e] : ~AttemptsLeft(m)

\* The verdicts pruneEventualState reaches; the entries it settles are
\* forgotten.
VerdictNewest(f, p) ==                              \* mutation: cumulative
    IF seqGreater(f.packet, p.ackSeq) THEN "pending" ELSE "delivered"
Verdict(f, p) == packetAckState(f.packet, p.ackSeq, p.ackMask)

Settled(p) == {f \in inFlightEventual : Verdict(f, p) # "pending"}

Forgotten(p) == Settled(p)

ApplyAcks(e, p) ==
    /\ pending' = [pending EXCEPT ![e] = AckedQueue(e, p)]
    /\ pruned' = [pruned EXCEPT ![e] = @ \cup AckedMessages(e, p)]
    /\ IF e = "server"
         THEN /\ inFlightEventual' = inFlightEventual \ Forgotten(p)
              /\ eventualFeedback' = eventualFeedback \cup
                   {[token |-> f.token, packet |-> f.packet,
                     delivered |-> Verdict(f, p) = "delivered"] :
                        f \in Settled(p)}
         ELSE UNCHANGED <<inFlightEventual, eventualFeedback>>

-----------------------------------------------------------------------------
(* Receiving *)

\* The run of buffered ordered messages that seq completes.
Run(o, seq) ==
    LET ready == {n \in 0 .. Cardinality(o.pending) :
                     \A k \in 1 .. n : \E b \in o.pending : b.seq = seq + k}
    IN CHOOSE n \in ready : \A k \in ready : k <= n

\* orderedReceiveState.accept of the server and OrderedReceiveBuffer.accept
\* of the JavaScript client, from the order number to expect: <<new state,
\* deliveries>>.
AcceptFrom(o, seq, id) ==
    LET n == Run(o, seq)
        item(k) == IF k = 0 THEN [seq |-> seq, id |-> id]
                   ELSE CHOOSE b \in o.pending : b.seq = seq + k
    IN IF seq = o.nextSeq
         THEN <<[o EXCEPT !.nextSeq = seq + n + 1,
                          !.pending = {b \in @ : b.seq > seq + n}],
                [k \in 1 .. n + 1 |->
                    [lane |-> "ordered", id |-> item(k - 1).id,
                     seq |-> item(k - 1).seq]]>>
       ELSE IF seqGreater(seq, o.nextSeq)
         THEN <<[o EXCEPT !.pending =
                    IF \E b \in @ : b.seq = seq THEN @
                    ELSE @ \cup {[seq |-> seq, id |-> id]}], <<>>>>
       ELSE <<o, <<>>>>

StartAtAny(o, seq) == [o EXCEPT !.nextSeq = seq]     \* mutation
\* Where an ordered receiver starts: at zero ...
StartAtZero(o, seq) == o

\* ... except the Go client (deliverOrdered), at the first that arrives.
StartAtFirst(o, seq) ==
    IF o.started THEN o ELSE [o EXCEPT !.started = TRUE, !.nextSeq = seq]

AcceptOrdered(e, o, seq, id) ==
    AcceptFrom(IF Kind(e) = "go" THEN StartAtFirst(o, seq)
                                 ELSE StartAtZero(o, seq), seq, id)

\* Windows, by implementation.
Accepts(e, w, n) == IF Kind(e) = "go" THEN acceptsGo(w, n) ELSE accepts(w, n)
AfterAccept(e, w, n) ==
    IF Kind(e) = "go" THEN afterAcceptGo(w, n) ELSE afterAccept(w, n)

\* The window that deduplicates reliable messages: the Go client applies it to
\* both lanes, the server and the JavaScript client to the unordered one.
Deduplicates(e, lane) == Kind(e) = "go" \/ lane = "unordered"

FreshIfNewest(e, p) ==                      \* mutation: no mask
    Deduplicates(e, p.kind) =>
        ~recvReliableMsgs[e].init \/ seqGreater(p.id, recvReliableMsgs[e].latest)
NoDuplicateCheck(e, p) == TRUE              \* mutation
Fresh(e, p) == Deduplicates(e, p.kind) => Accepts(e, recvReliableMsgs[e], p.id)

\* Lane dispatch of handleIncoming for a packet the packet window accepted.
Dispatch(e, p) ==
    /\ received' = [received EXCEPT ![e] =
          IF p.kind \in Lanes THEN @ \cup {p.id} ELSE @]
    /\ gotTokens' = IF p.kind = "eventual" THEN gotTokens \cup {p.id}
                                           ELSE gotTokens
    /\ recvReliableMsgs' = [recvReliableMsgs EXCEPT ![e] =
          IF p.kind \in Lanes /\ Deduplicates(e, p.kind)
            THEN AfterAccept(e, @, p.id) ELSE @]
    /\ IF p.kind = "ordered" /\ Fresh(e, p)
         THEN LET r == AcceptOrdered(e, orderedRecv[e], p.orderedSeq, p.id) IN
              /\ orderedRecv' = [orderedRecv EXCEPT ![e] = r[1]]
              /\ delivered' = [delivered EXCEPT ![e] = @ \o r[2]]
         ELSE /\ delivered' = [delivered EXCEPT ![e] =
                    IF p.kind = "unordered" /\ Fresh(e, p)
                      THEN Append(@, [lane |-> "unordered", id |-> p.id,
                                      seq |-> 0])
                      ELSE @]
              /\ UNCHANGED orderedRecv

\* handleIncoming / receive: acknowledgements first, then the packet window,
\* then the lane.
Receive(e, p) ==
    /\ p \in net /\ p.to = e /\ Live(e) /\ ~PruneStalls(e)
    /\ ApplyAcks(e, p)
    /\ IF p.kind # "ack" /\ Accepts(e, recvPackets[e], p.seq)
         THEN /\ recvPackets' = [recvPackets EXCEPT ![e] =
                    AfterAccept(e, @, p.seq)]
              /\ ackDirty' = [ackDirty EXCEPT ![e] = TRUE]
              /\ Dispatch(e, p)
         ELSE UNCHANGED <<recvVars, ackDirty, received, delivered, gotTokens>>
    /\ UNCHANGED <<scenario, net, failed, nextPacketSeq, nextMessageID,
                   nextOrderedSeq, unreliable, nextToken, pendingEventual>>

\* The ends give up: a message's TTL or retry limit, an ordered gap's timeout,
\* a state datagram's TTL or too many of them in flight.
MayFail(e) ==
    \/ pending[e] # {}
    \/ orderedRecv[e].pending # {}
    \/ e = "server" /\ inFlightEventual # {}

Fail(e) ==
    /\ Live(e) /\ MayFail(e)
    /\ failed' = failed \cup {e}
    /\ UNCHANGED <<scenario, net, nextPacketSeq, nextMessageID, nextOrderedSeq,
                   recvVars, ackDirty, pending, unreliable, eventVars,
                   histVars>>

-----------------------------------------------------------------------------
Next ==
    \/ \E e \in Ends :
         \/ \E lane \in Lanes : Enqueue(e, lane) \/ SendAtOnce(e, lane)
         \/ SendUnreliable(e) \/ SendAck(e) \/ Fail(e)
         \/ \E p \in net : Receive(e, p)
    \/ \E m \in pending["server"] : NextReliablePacket(m)
    \/ \E m \in pending["client"] : DrainRetries(m) \/ SendFromQueue(m)
    \/ SendStreamAck \/ EnqueueEventual \/ SendEventual

Spec == Init /\ [][Next]_vars

-----------------------------------------------------------------------------
(* Properties *)

Packets == [to : Ends, seq : 0 .. SeqCount, ackSeq : SeqNums, ackMask : Masks,
            kind : Lanes \cup {"ack", "unreliable", "eventual"},
            id : Nat, orderedSeq : Nat]
Messages == [id : Nat, lane : Lanes, orderedSeq : Nat, last : SeqNums,
             attempts : Nat, inFlight : BOOLEAN]
Buffered == [seq : Nat, id : Nat]
Delivery == [lane : Lanes, id : Nat, seq : Nat]

TypeOK ==
    /\ scenario \in Scenarios
    /\ net \subseteq Packets /\ failed \subseteq Ends
    /\ nextPacketSeq \in [Ends -> 0 .. HalfRange]
    /\ nextMessageID \in [Ends -> 0 .. HalfRange]
    /\ nextOrderedSeq \in [Ends -> 0 .. HalfRange]
    /\ recvPackets \in [Ends -> Windows] /\ recvReliableMsgs \in [Ends -> Windows]
    /\ orderedRecv \in [Ends -> [started : BOOLEAN, nextSeq : Nat, pending : SUBSET Buffered]]
    /\ ackDirty \in [Ends -> BOOLEAN]
    /\ pending \in [Ends -> SUBSET Messages] /\ unreliable \in [Ends -> Nat]
    /\ nextToken \in Nat /\ pendingEventual \in Seq(Nat)
    /\ inFlightEventual \subseteq [packet : SeqNums, token : Nat]
    /\ eventualFeedback \subseteq [token : Nat, packet : SeqNums, delivered : BOOLEAN]
    /\ received \in [Ends -> SUBSET Nat] /\ delivered \in [Ends -> Seq(Delivery)]
    /\ pruned \in [Ends -> SUBSET [id : Nat, packet : SeqNums]]
    /\ gotTokens \subseteq Nat

\* No reliable message reaches the application twice, however often its packet
\* is resent, duplicated or reordered.
DeliveredOnce ==
    \A e \in Ends : \A i, j \in 1 .. Len(delivered[e]) :
        delivered[e][i].id = delivered[e][j].id => i = j

\* Ordered messages reach the application in the order they were sent, with
\* none missing between the first and the last, and the first of them is the
\* first that was sent.  The Go client (deliverOrdered) starts at whichever
\* message arrives first, so the last part leaves it out.
OrderedDelivery ==
    \A e \in Ends :
        LET ordered == {i \in 1 .. Len(delivered[e]) : delivered[e][i].lane = "ordered"}
        IN \A i \in ordered :
            /\ \A j \in ordered : i < j /\ (\A k \in ordered : k <= i \/ j <= k)
                  => delivered[e][j].seq = delivered[e][i].seq + 1
            /\ (\A k \in ordered : i <= k) /\ Kind(e) # "go" => delivered[e][i].seq = 0

\* The sender forgets a message only when the packet it was last sent in was
\* accepted by the peer.  Packet 0 is left out: a header acknowledges it
\* before anything was received (newPacketInto).
PrunedWasReceived ==
    \A e \in Ends : \A r \in pruned[e] :
        r.packet # 0 => r.id \in received[Peer(e)]

\* A message that e received reached the application or waits behind an ordered
\* gap.
HandedOver(e, id) ==
    \/ \E i \in 1 .. Len(delivered[e]) : delivered[e][i].id = id
    \/ \E b \in orderedRecv[e].pending : b.id = id

\* An unordered message that is older than the message window of e remembers.
OutOfWindow(e, id) ==
    /\ \E q \in net : q.to = e /\ q.kind = "unordered" /\ q.id = id
    /\ id + AckWindow < recvReliableMsgs[e].latest

\* A message whose packet was received is handed over, unless it was unordered
\* and came when the window had moved past it; the Go client is left out, as in
\* OrderedDelivery.
ReceivedIsDelivered ==
    \A e \in Ends : \A id \in received[e] :
        Kind(e) = "go" \/ HandedOver(e, id) \/ OutOfWindow(e, id)

\* What a sender drops as delivered has reached the application of its peer or
\* will, but for packet 0 and for what the message window moved past:
\* acknowledgements are of packets, and neither a duplicate nor an old
\* acknowledgement settles a message that was lost.
AcksSound == PrunedWasReceived /\ ReceivedIsDelivered

\* The verdicts applyPeerAcks gives on state tokens: one per token, never
\* both, none while the token still counts as in flight or queued; and a token
\* reported delivered was handed to the client, packet 0 apart.
VerdictsSound ==
    /\ \A f, g \in eventualFeedback : f.token = g.token => f = g
    /\ \A f \in eventualFeedback :
          /\ \A g \in inFlightEventual : g.token # f.token
          /\ \A i \in 1 .. Len(pendingEventual) : f.token # pendingEventual[i]
          /\ f.delivered /\ f.packet # 0 => f.token \in gotTokens

=============================================================================
