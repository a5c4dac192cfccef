----------------------------- MODULE GameClient -----------------------------
(***************************************************************************)
(* The Go client's connection life cycle (golem-go-client): GameClient's   *)
(* Connect, ConnectPlan and Disconnect, the WebSocket and WebTransport     *)
(* channels with their reading goroutines and close callbacks, and the     *)
(* dispatcher that applies inbound batches to the generated managers.      *)
(*                                                                         *)
(* One step is one critical section of mu, of an installation's            *)
(* lifecycleMu or of dispatchMu, or the code up to the next point where    *)
(* another goroutine can tell the difference.  Callers run Connect or      *)
(* ConnectPlan one after the other, closers run Disconnect.  Connections   *)
(* are numbered in the order of their dials.  Left out: URLs, credentials  *)
(* and what the resolver may change in them, lastErr and closedCh, which   *)
(* nothing here reads, and the text of errors.                             *)
(***************************************************************************)
EXTENDS Naturals, Sequences, FiniteSets

CONSTANTS
    Callers, Closers,   \* goroutines
    Programs,           \* what a caller does: sequences of operations
    MaxConnections, MaxCuts,    \* bounds: dials, and connections that break or fail
    QueueSize           \* gameClientInboundQueueSize

NoKey == "no key"       \* the empty affinity key
Connections == 1 .. MaxConnections
\* A direct Connect, or a plan with its affinity key; candidates in order; how
\* many batches (bound) the server sends on the connection.
Operation == [kind : {"connect", "plan"}, key : {NoKey, "P", "Q"}, valid : BOOLEAN,
              candidates : {<<"ws">>, <<"wt">>, <<"wt", "ws">>}, batches : Nat]

ASSUME GameClientAssumption ==
    /\ MaxConnections \in Nat /\ MaxCuts \in Nat /\ QueueSize \in Nat \ {0}
    /\ Callers \cap Closers = {}
    /\ \A p \in Programs : p \in Seq(Operation)

\* One goroutine connects: "a subsequent Connect tears down any prior live
\* session" speaks of one call after the other.  Two that overlap are not
\* covered: a session installed between the Disconnect of beginConnect and its
\* increment of generation would be overwritten.
ASSUME OneCaller == \A t, u \in Callers : t = u

VARIABLES
    generation, attemptCancel,  \* GameClient; attemptCancel is the caller it cancels
    channel,                    \* the installed channel, with its dispatcher
    affinity,                   \* the plan that sticks to WebSocket
    call,                       \* the goroutines that use the client
    chan,                       \* every channel ever dialed
    applying,                   \* dispatchMu: the connection whose batch is applied
    shown,                      \* connections whose entities the managers hold
    ended, greeted, told        \* history: connections given up; OnConnect and
                                \* OnDisconnect calls

vars == <<generation, attemptCancel, channel, affinity, call, chan, applying, shown,
          ended, greeted, told>>
histVars == <<ended, greeted, told>>

None == 0
Nobody == "nobody"
NoCall == [pc |-> "idle", ops |-> <<>>, gen |-> 0, done |-> FALSE, late |-> FALSE,
           cands |-> <<>>, conn |-> None, took |-> None, cancels |-> Nobody]

Init ==
    /\ generation = 0 /\ attemptCancel = Nobody /\ channel = None /\ affinity = NoKey
    /\ \E p \in Programs :
         call = [t \in Callers \cup Closers |->
                    [NoCall EXCEPT !.ops = IF t \in Callers THEN p ELSE <<>>]]
    /\ chan = <<>>
    /\ applying = None /\ shown = {}
    /\ ended = {} /\ greeted = {} /\ told = [c \in Connections |-> 0]

At(t, pc) == call[t].pc = pc
Goto(t, pc) == call' = [call EXCEPT ![t].pc = pc]
Op(t) == Head(call[t].ops)

-----------------------------------------------------------------------------
(* Channels.  up: Connected(); cut: the transport broke; failed: the channel *)
(* gave up by itself; shut: Close() ran; reader: the goroutine that reports  *)
(* the end, on its way through OnClose;                                      *)
(* installed, closed, opened: what installChannel shares with the callbacks; *)
(* stopped: the dispatcher's done channel is closed.                         *)

NewChannel(kind, t) ==
    [kind |-> kind, gen |-> call[t].gen, by |-> t, up |-> TRUE, cut |-> FALSE,
     failed |-> FALSE, shut |-> FALSE,
     reader |-> IF kind = "wt" THEN "on" ELSE "off", registered |-> FALSE, installed |-> FALSE,
     closed |-> FALSE, opened |-> FALSE, stopped |-> FALSE, running |-> FALSE,
     queue |-> 0, unread |-> Op(t).batches, reading |-> FALSE]

\* Close() first writes a closing frame, for which WebTransport is no longer
\* connected and WebSocket still is, ...
Closing(ch) == [ch EXCEPT !.up = @ /\ ch.kind = "ws"]
\* ... and then closes the connection.
Closed(ch) == [ch EXCEPT !.up = FALSE, !.shut = TRUE]

\* Mutant: inbound.stop() is forgotten.
NotStopped(ch) == ch

\* inbound.stop().  What the queue still holds, and what is still read, is never looked at.
Stopped(ch) == [ch EXCEPT !.stopped = TRUE, !.queue = 0, !.unread = 0]

MoreCuts == Cardinality({b \in DOMAIN chan : chan[b].cut \/ chan[b].failed}) < MaxCuts

\* The peer or the network ends the connection.
Cut(c) ==
    /\ ~chan[c].cut /\ MoreCuts
    /\ chan' = [chan EXCEPT ![c].cut = TRUE]
    /\ UNCHANGED <<generation, attemptCancel, channel, affinity, call, applying, shown, histVars>>

\* readLoop has a message and hands it to inbound.enqueue, which waits while
\* the queue is full; once the dispatcher is stopped it drops the message.  The
\* readLoop of a WebTransport channel goes on after the channel has failed.
Read(c) ==
    LET ch == chan[c] IN
    /\ ch.registered /\ (ch.up \/ ch.failed) /\ ~ch.reading /\ ~ch.stopped /\ ch.unread > 0
    /\ chan' = [chan EXCEPT ![c] =
          IF ch.queue < QueueSize
          THEN [ch EXCEPT !.unread = @ - 1, !.queue = @ + 1]
          ELSE [ch EXCEPT !.unread = @ - 1, !.reading = TRUE]]
    /\ UNCHANGED <<generation, attemptCancel, channel, affinity, call, applying, shown, histVars>>

\* A waiting enqueue goes on.
enqueue(c) ==
    LET ch == chan[c] IN
    /\ ch.reading /\ (ch.stopped \/ ch.queue < QueueSize)
    /\ chan' = [chan EXCEPT ![c].reading = FALSE, ![c].queue = IF ch.stopped THEN @ ELSE @ + 1]
    /\ UNCHANGED <<generation, attemptCancel, channel, affinity, call, applying, shown, histVars>>

\* The read error that follows a cut or a Close.  WebSocket reports every one,
\* from its only reader; WebTransport (closeWithError) only when it was open.
ReadFails(c) ==
    LET ch == chan[c] IN
    /\ ch.reader = "on" /\ (ch.cut \/ ch.shut) /\ (ch.kind = "ws" => ~ch.reading)
    /\ chan' = [chan EXCEPT
          ![c].up = FALSE,
          ![c].reader = IF ch.registered /\ (ch.kind = "ws" \/ ch.up) THEN "lifecycle" ELSE "end"]
    /\ UNCHANGED <<generation, attemptCancel, channel, affinity, call, applying, shown, histVars>>

\* closeWithError over a connection that is sound: the stream ended or a frame was
\* too large, a datagram broke the protocol, or an acknowledgement or a resend
\* could not be sent.  The session is not closed.
ChannelFails(c) ==
    LET ch == chan[c] IN
    /\ ch.kind = "wt" /\ ch.reader = "on" /\ ch.up /\ MoreCuts
    /\ chan' = [chan EXCEPT ![c].up = FALSE, ![c].failed = TRUE,
                            ![c].reader = IF ch.registered THEN "lifecycle" ELSE "end"]
    /\ UNCHANGED <<generation, attemptCancel, channel, affinity, call, applying, shown, histVars>>

-----------------------------------------------------------------------------
(* The OnClose callback of installChannel. *)

CloseBeforeInstall(c) ==
    /\ chan[c].reader = "lifecycle"
    /\ chan' = [chan EXCEPT ![c] = IF chan[c].installed
                                   THEN [@ EXCEPT !.closed = TRUE, !.reader = "client"]
                                   ELSE Stopped([@ EXCEPT !.closed = TRUE, !.reader = "end"])]
    /\ UNCHANGED <<generation, attemptCancel, channel, affinity, call, applying, shown, histVars>>

\* Mutant: a channel that was replaced or given up is reported again.
CloseOfAnyChannel(c) ==
    /\ chan[c].reader = "client"
    /\ channel' = None /\ ended' = ended \cup {c}
    /\ chan' = [chan EXCEPT ![c] = [Stopped(@) EXCEPT !.reader = "notify"]]
    /\ UNCHANGED <<generation, attemptCancel, affinity, call, applying, shown, greeted, told>>

CloseOfChannel(c) ==
    LET current == generation = chan[c].gen /\ channel = c IN
    /\ chan[c].reader = "client"
    /\ channel' = IF current THEN None ELSE channel
    /\ ended' = IF current THEN ended \cup {c} ELSE ended
    /\ chan' = [chan EXCEPT ![c] = IF current THEN [@ EXCEPT !.reader = "stop"]
                                   ELSE Stopped([@ EXCEPT !.reader = "end"])]
    /\ UNCHANGED <<generation, attemptCancel, affinity, call, applying, shown, greeted, told>>

CloseStops(c) ==
    /\ chan[c].reader = "stop"
    /\ chan' = [chan EXCEPT ![c] = [Stopped(@) EXCEPT !.reader = "notify"]]
    /\ UNCHANGED <<generation, attemptCancel, channel, affinity, call, applying, shown, histVars>>

\* clearEntities, then the application's callback.
CloseNotifies(c) ==
    /\ chan[c].reader = "notify"
    /\ shown' = {}
    /\ told' = [told EXCEPT ![c] = @ + 1]
    /\ chan' = [chan EXCEPT ![c].reader = "end"]
    /\ UNCHANGED <<generation, attemptCancel, channel, affinity, call, applying, ended, greeted>>

-----------------------------------------------------------------------------
(* inboundDispatcher.run and dispatchInboundEvent. *)

\* An event is taken, and found not stopped under dispatchMu.
Dispatch(c) ==
    /\ chan[c].running /\ ~chan[c].stopped /\ chan[c].queue > 0 /\ applying = None
    /\ applying' = c
    /\ chan' = [chan EXCEPT ![c].queue = @ - 1]
    /\ UNCHANGED <<generation, attemptCancel, channel, affinity, call, shown, histVars>>

\* handleMessage, handleCompactStateBatch: the batch reaches the managers.
Apply(c) ==
    /\ applying = c
    /\ applying' = None
    /\ shown' = shown \cup {c}
    /\ UNCHANGED <<generation, attemptCancel, channel, affinity, call, chan, histVars>>

-----------------------------------------------------------------------------
(* Disconnect, also the first thing a connection attempt does. *)

\* Where Disconnect returns to.
Resumed(t) == IF t \in Callers THEN "stopped" ELSE "idle"

Disconnect(t) ==
    /\ At(t, "idle") /\ (t \in Callers => call[t].ops # <<>>)
    /\ t \in Closers => call[t].gen = 0                   \* bound: each closer once
    /\ t \in Callers /\ Op(t).kind = "plan" => Op(t).valid  \* validated first
    /\ generation' = generation + 1
    /\ call' = [call EXCEPT ![t].pc = "stopping", ![t].took = channel,
                            ![t].cancels = attemptCancel, ![t].gen = generation + 1]
    /\ attemptCancel' = Nobody
    /\ channel' = None
    /\ ended' = ended \cup ({channel} \ {None})
    /\ UNCHANGED <<affinity, chan, applying, shown, greeted, told>>

\* cancel(), inbound.stop(), and channel.Close() begins.
DisconnectStops(t) ==
    LET c == call[t].took IN
    /\ At(t, "stopping")
    /\ call' = [s \in DOMAIN call |->
          IF s = t THEN [call[t] EXCEPT !.cancels = Nobody,
                                        !.pc = IF c = None THEN Resumed(t) ELSE "closing"]
          ELSE IF s = call[t].cancels THEN [call[s] EXCEPT !.done = TRUE] ELSE call[s]]
    /\ chan' = IF c = None THEN chan ELSE [chan EXCEPT ![c] = Closing(Stopped(@))]
    /\ UNCHANGED <<generation, attemptCancel, channel, affinity, applying, shown, histVars>>

DisconnectNotifies(t) ==
    /\ At(t, "clearing")
    /\ shown' = {}
    /\ told' = [told EXCEPT ![call[t].took] = @ + 1]
    /\ call' = [call EXCEPT ![t].pc = Resumed(t), ![t].took = None]
    /\ UNCHANGED <<generation, attemptCancel, channel, affinity, chan, applying, ended, greeted>>

-----------------------------------------------------------------------------
(* Connect and ConnectPlan. *)

Invalid(t) ==
    /\ t \in Callers /\ At(t, "idle") /\ call[t].ops # <<>>
    /\ Op(t).kind = "plan" /\ ~Op(t).valid
    /\ call' = [call EXCEPT ![t].ops = Tail(@)]
    /\ UNCHANGED <<generation, attemptCancel, channel, affinity, chan, applying, shown, histVars>>

\* The second half of beginConnect, and the affinity ConnectPlan reads.
beginConnect(t) ==
    LET op == Op(t)
        kept == IF op.kind = "plan" /\ affinity = op.key THEN affinity ELSE NoKey
        sticky == op.kind = "plan" /\ Len(op.candidates) = 2 /\ kept # NoKey
    IN  /\ At(t, "stopped")
        /\ generation' = generation + 1
        /\ attemptCancel' = t
        /\ affinity' = kept
        /\ call' = [call EXCEPT ![t].gen = generation + 1, ![t].done = FALSE,
                                ![t].cands = IF sticky THEN <<"ws">> ELSE op.candidates,
                                ![t].pc = IF op.valid THEN "candidate" ELSE "finish"]
        /\ UNCHANGED <<channel, chan, applying, shown, histVars>>

\* The caller's context ends.
ContextDone(t) ==
    /\ call[t].pc \in {"candidate", "resolving", "dialing", "dropping"} /\ ~call[t].done
    /\ call' = [call EXCEPT ![t].done = TRUE]
    /\ UNCHANGED <<generation, attemptCancel, channel, affinity, chan, applying, shown, histVars>>

\* The next candidate of a plan; one that SupportsTransport refuses is skipped
\* before it is resolved.  A direct Connect goes on to dial.
NextCandidate(t) ==
    LET cands == call[t].cands IN
    /\ At(t, "candidate")
    /\ IF cands = <<>> \/ (Op(t).kind = "plan" /\ call[t].done) THEN Goto(t, "finish")
       ELSE IF Op(t).kind = "connect" THEN Goto(t, "dialing")
       ELSE Goto(t, "resolving") \/ call' = [call EXCEPT ![t].cands = Tail(@)]
    /\ UNCHANGED <<generation, attemptCancel, channel, affinity, chan, applying, shown, histVars>>

\* ResolveOptions; a failure, or one it may not make, ends the attempt.
Resolve(t) ==
    /\ At(t, "resolving")
    /\ \/ Goto(t, "finish")
       \/ ~call[t].done /\ call' = [call EXCEPT ![t].pc = "dialing", ![t].late = FALSE]
    /\ UNCHANGED <<generation, attemptCancel, channel, affinity, chan, applying, shown, histVars>>

\* WebTransportTimeout
DialTimeout(t) ==
    /\ At(t, "dialing") /\ Op(t).kind = "plan" /\ Head(call[t].cands) = "wt" /\ ~call[t].late
    /\ call' = [call EXCEPT ![t].late = TRUE]
    /\ UNCHANGED <<generation, attemptCancel, channel, affinity, chan, applying, shown, histVars>>

\* Mutant: the same candidate is tried again.
RetryCandidate(t, terminal) ==
    IF ~terminal /\ Op(t).kind = "plan" /\ Len(call[t].cands) = 2 /\ ~call[t].done
    THEN [call[t] EXCEPT !.pc = "candidate"]
    ELSE [call[t] EXCEPT !.pc = "finish"]

\* Where an attempt goes when a candidate fails; some failures are terminal
\* (authorization, revision).
AfterFailure(t, terminal) ==
    IF ~terminal /\ Op(t).kind = "plan" /\ Len(call[t].cands) = 2 /\ ~call[t].done
    THEN [call[t] EXCEPT !.pc = "candidate", !.cands = Tail(@)]
    ELSE [call[t] EXCEPT !.pc = "finish"]

DialFails(t) ==
    /\ At(t, "dialing")
    /\ \E terminal \in BOOLEAN : call' = [call EXCEPT ![t] = AfterFailure(t, terminal)]
    /\ UNCHANGED <<generation, attemptCancel, channel, affinity, chan, applying, shown, histVars>>

\* Mutant: the attempt does not wait for a dial that is cancelled or too late.
DialAbandoned(t) ==
    LET c == Len(chan) + 1
        useless == call[t].done \/ call[t].late \/ generation # call[t].gen
        new == NewChannel(Head(call[t].cands), t)
    IN  /\ At(t, "dialing") /\ c \in Connections
        /\ chan' = Append(chan, new)
        /\ call' = [call EXCEPT ![t] = IF useless THEN AfterFailure(t, FALSE)
                                       ELSE [@ EXCEPT !.pc = "register", !.conn = c]]
        /\ UNCHANGED <<generation, attemptCancel, channel, affinity, applying, shown, histVars>>

\* dialCandidate when the factory returns a channel: one that comes too late is
\* closed before the attempt goes on (CloseReturns).
DialReturns(t) ==
    LET c == Len(chan) + 1
        useless == call[t].done \/ call[t].late \/ generation # call[t].gen
        new == NewChannel(Head(call[t].cands), t)
    IN  /\ At(t, "dialing") /\ c \in Connections
        /\ chan' = Append(chan, IF useless THEN Closing(new) ELSE new)
        /\ call' = [call EXCEPT ![t].pc = IF useless THEN "dropping" ELSE "register",
                                ![t].conn = c]
        /\ UNCHANGED <<generation, attemptCancel, channel, affinity, applying, shown, histVars>>

\* installChannel sets the callbacks; OnMessage starts the WebSocket's reader,
\* OnOpen fires at once for a channel that is open.
Register(t) ==
    LET c == call[t].conn IN
    /\ At(t, "register")
    /\ chan' = [chan EXCEPT ![c].registered = TRUE, ![c].opened = chan[c].up,
                            ![c].reader = IF @ = "off" THEN "on" ELSE @]
    /\ Goto(t, "install")
    /\ UNCHANGED <<generation, attemptCancel, channel, affinity, applying, shown, histVars>>

InstallFails(t) ==
    LET c == call[t].conn IN
    /\ At(t, "install")
    /\ chan[c].closed \/ ~chan[c].up \/ generation # call[t].gen
    /\ chan' = [chan EXCEPT ![c] = Closing(Stopped(@))]
    /\ Goto(t, "unwinding")
    /\ UNCHANGED <<generation, attemptCancel, channel, affinity, applying, shown, histVars>>

\* Mutant: only the generation is checked.
InstallClosed(t) ==
    LET c == call[t].conn IN
    /\ At(t, "install") /\ generation = call[t].gen
    /\ channel' = c
    /\ chan' = [chan EXCEPT ![c].installed = TRUE, ![c].running = TRUE]
    /\ Goto(t, "opened")
    /\ UNCHANGED <<generation, attemptCancel, affinity, applying, shown, histVars>>

Install(t) ==
    LET c == call[t].conn IN
    /\ At(t, "install")
    /\ ~chan[c].closed /\ chan[c].up /\ generation = call[t].gen
    /\ channel' = c
    /\ chan' = [chan EXCEPT ![c].installed = TRUE, ![c].running = TRUE]
    /\ Goto(t, IF chan[c].opened THEN "opened" ELSE "finish")
    /\ UNCHANGED <<generation, attemptCancel, affinity, applying, shown, histVars>>

\* notifyOpen: the connection may be over by now.
notifyOpen(t) ==
    LET c == call[t].conn
        current == generation = call[t].gen /\ channel = c
    IN  /\ At(t, "opened")
        /\ affinity' = IF current /\ chan[c].kind = "ws" /\ Op(t).kind = "plan"
                          /\ Len(Op(t).candidates) = 2
                       THEN Op(t).key ELSE affinity
        /\ greeted' = IF current THEN greeted \cup {c} ELSE greeted
        /\ Goto(t, "finish")
        /\ UNCHANGED <<generation, attemptCancel, channel, chan, applying, shown, ended, told>>

\* The connection that a goroutine is closing.
Closee(t) == IF At(t, "closing") THEN call[t].took ELSE call[t].conn

\* channel.Close() has returned, in Disconnect, dialCandidate or after
\* installChannel.  The closing frame goes first, without a deadline: the peer
\* may take its time, or never read again.
CloseReturns(t) ==
    /\ \/ At(t, "closing") /\ Goto(t, "clearing")
       \/ At(t, "dropping") /\ call' = [call EXCEPT ![t] = AfterFailure(t, FALSE)]
       \/ At(t, "unwinding") /\ Goto(t, "finish")
    /\ chan' = [chan EXCEPT ![Closee(t)] = Closed(@)]
    /\ UNCHANGED <<generation, attemptCancel, channel, affinity, applying, shown, histVars>>

finish(t) ==
    /\ At(t, "finish")
    /\ attemptCancel' = IF generation = call[t].gen THEN Nobody ELSE attemptCancel
    /\ call' = [call EXCEPT ![t] = [NoCall EXCEPT !.ops = Tail(call[t].ops)]]
    /\ UNCHANGED <<generation, channel, affinity, chan, applying, shown, histVars>>

-----------------------------------------------------------------------------
DisconnectStep(t) == DisconnectStops(t) \/ DisconnectNotifies(t)
AttemptStep(t) ==
    \/ beginConnect(t) \/ NextCandidate(t) \/ Resolve(t)
    \/ DialFails(t) \/ DialReturns(t)
    \/ Register(t) \/ InstallFails(t) \/ Install(t) \/ notifyOpen(t) \/ finish(t)
ReaderStep(c) ==
    enqueue(c) \/ ReadFails(c) \/ CloseBeforeInstall(c) \/ CloseOfChannel(c)
    \/ CloseStops(c) \/ CloseNotifies(c)
DispatcherStep(c) == Dispatch(c) \/ Apply(c)

Next ==
    \/ \E t \in Callers \cup Closers : Disconnect(t) \/ DisconnectStep(t) \/ CloseReturns(t)
    \/ \E t \in Callers : Invalid(t) \/ AttemptStep(t) \/ ContextDone(t) \/ DialTimeout(t)
    \/ \E c \in 1 .. Len(chan) :
          Cut(c) \/ ChannelFails(c) \/ Read(c) \/ ReaderStep(c) \/ DispatcherStep(c)

\* The call t closes a connection whose peer need not read.
Stuck(t) == call[t].pc \in {"closing", "dropping", "unwinding"} /\ ~chan[Closee(t)].cut

\* Goroutines run.  That a dial and a resolver return at all is what
\* ChannelFactory and DialOptionsResolver ask of them.  The server owes nothing:
\* only over a broken connection must the closing frame's write return.
Fairness ==
    /\ \A t \in Callers \cup Closers :
          WF_vars(DisconnectStep(t)) /\ WF_vars(~Stuck(t) /\ CloseReturns(t))
    /\ \A t \in Callers : WF_vars(AttemptStep(t))
    /\ \A c \in Connections : WF_vars(c <= Len(chan) /\ (ReaderStep(c) \/ DispatcherStep(c)))

Spec == Init /\ [][Next]_vars /\ Fairness

-----------------------------------------------------------------------------
Session == INSTANCE ClientSession WITH current <- channel

\* Whatever the transports, the callers and Disconnect do at the same time, the
\* game sees one connection after the other, OnConnect only for the current
\* one, and in the end one OnDisconnect for each that ended, unless Disconnect
\* never gets out of channel.Close.
ImplementsClientSession ==
    /\ Session!SafeSpec
    /\ \A c \in Connections :
          Session!Reported(c) \/ \E t \in Callers \cup Closers : <>[](Stuck(t) /\ call[t].took = c)

Open(c) == ~chan[c].shut /\ ~chan[c].cut

\* Dials that were overtaken, that came too late or that ended early leave
\* nothing open: a connection that is up is the current one, or a goroutine is
\* about to install it or on its way through Close; and a plan dials its
\* candidates one at a time, so no two channels of an attempt are open at once.
\* The exception is an installed channel that failed by itself: it is reported,
\* and forgotten, without its session being closed (closeWithError).
NoneLeftOpen ==
    /\ \A c \in 1 .. Len(chan) : Open(c) =>
        \/ channel = c
        \/ /\ call[chan[c].by].conn = c
           /\ call[chan[c].by].pc \in {"register", "install", "dropping", "unwinding"}
        \/ \E t \in DOMAIN call : call[t].pc \in {"stopping", "closing"} /\ call[t].took = c
        \/ chan[c].failed /\ chan[c].installed /\ c \in ended
    /\ \A b, c \in 1 .. Len(chan) :
        b # c /\ chan[b].gen = chan[c].gen => chan[b].shut \/ chan[c].shut

\* Once the game was told that a connection is over, no further batch of it is
\* begun: at most the one that was under way still reaches the managers.
NoBatchAfterDisconnect ==
    [][applying' # applying /\ applying' # None => told[applying'] = 0]_vars

\* Every Connect, ConnectPlan and Disconnect returns, but for one that waits for
\* good in Close for a peer that does not read.
CallsReturn == \A t \in Callers \cup Closers : []<>(call[t].pc = "idle") \/ <>[]Stuck(t)

\* A connection that breaks is noticed and reported, also when its reader waits
\* for room in the queue.
CutIsReported == \A c \in Connections : (channel = c /\ chan[c].cut) ~> told[c] = 1

=============================================================================
