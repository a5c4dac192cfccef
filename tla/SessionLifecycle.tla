--------------------------- MODULE SessionLifecycle ---------------------------
(***************************************************************************)
(* The life of client sessions on the server: the handler goroutine of a   *)
(* session (Listener.serveAcceptedSession), its write pump and datagram    *)
(* reader (golem/net/session.go), close requests from anywhere, the        *)
(* Listener's table and its CloseSessions, the server's message queue and  *)
(* the state the tick goroutine keeps for a session: known set, tracker    *)
(* and avatar (golem/loop.go, golem/avatar.go).                            *)
(*                                                                         *)
(* The steps of one goroutine between two points where another can         *)
(* interfere (a lock, an atomic, a channel, the transport) are one action. *)
(* Frames and messages have no content; what DatagramLink says about the   *)
(* datagram protocol and Replication about the payload is not repeated.    *)
(***************************************************************************)
EXTENDS Integers, Sequences, FiniteSets

CONSTANTS
    Sessions,           \* one per accepted or refused request
    Callers,            \* calls of CloseSessions
    SendBufSize,        \* sendBufSize: capacity of each lane's queue
    MsgQueueSize,       \* capacity of Server.msgQueue
    Scenarios

\* Two of a session's send channels, first and last in the order of writeOne.
\* rawStateSend and eventualSend in between work like unreliableSend.
LaneSet == {"unreliable", "stream"}

Reasons == {"", "kick"}

\* What a behaviour is about: sessions that connect and the ones among them on
\* WebTransport, lanes the tick uses, whether the server ticks at all (a Listener
\* also works alone), clients send, connections break and game code closes
\* sessions, where game code creates an avatar for a session that connected,
\* and the calls of CloseSessions (by Run, by ListenAndServe when it returns).
ScenarioType ==
    [clients : SUBSET Sessions, webTransport : SUBSET Sessions, lanes : SUBSET LaneSet,
     ticks : BOOLEAN, inbound : BOOLEAN, breaks : BOOLEAN, kicks : BOOLEAN,
     avatar : {"no", "tick", "goroutine"}, stops : SUBSET Callers]

ASSUME SessionAssumption ==
    /\ SendBufSize \in Nat \ {0} /\ MsgQueueSize \in Nat \ {0}
    /\ Scenarios \subseteq ScenarioType

VARIABLES
    scenario,
    closing, pending, sessions,     \* Listener: closing, pendingSessions, sessions
    handler, dreader, writer,       \* program counters of a session's goroutines
    queue, wake,                    \* Session: send channels, wake channel
    closeState, transport,          \* Session: closeState; "open", "closing", "closed"
    async,                          \* a "go closeNow()" that has not run
    broken,                         \* the connection is lost or aborted
    call,                           \* CloseSessions: progress of each call
    tick,                           \* the tick goroutine
    msgQueue,                       \* Server.msgQueue
    known, tracker,                 \* sessions with broadcastKnown, eventualTrackers
    avatar, body, spawner,          \* sessionAvatar, its entity, who creates it
    gone, dropped                   \* history: disconnects dispatched; dropped events

listenerVars == <<closing, pending, sessions>>
pumpVars     == <<handler, dreader, writer>>
sessionVars  == <<queue, wake, closeState, transport, async, broken>>
serverVars   == <<tick, msgQueue, known, tracker, avatar, body, spawner, gone, dropped>>
vars == <<scenario, listenerVars, pumpVars, sessionVars, call, serverVars>>

Handlers == {"idle", "refused", "upgrading", "accepted", "rejected", "snapshot", "adding",
             "failing", "returning", "connecting", "reading", "delivering", "cancelled",
             "ending", "disconnecting", "removing", "done"}
Inactive == {"idle", "refused", "done"}     \* not counted by sessionHandlers
Kinds    == {"connect", "message", "datagram", "disconnect"}

IsClosing(s) == closeState[s] # "open"
Empty(s)     == \A l \in LaneSet : queue[s][l] = 0

ListenerTypeOK ==
    /\ scenario \in Scenarios
    /\ closing \in BOOLEAN /\ pending \subseteq Sessions /\ sessions \subseteq Sessions

PumpTypeOK ==
    /\ handler \in [Sessions -> Handlers]
    /\ dreader \in [Sessions -> {"off", "reading", "delivering", "closing", "exited"}]
    /\ writer \in [Sessions -> {"off", "top", "drain", "check", "park", "closing", "exited"}]

CloseTypeOK ==
    /\ closeState \in [Sessions -> Reasons \cup {"open"}]
    /\ transport \in [Sessions -> {"open", "closing", "closed"}]
    /\ async \in [Sessions -> BOOLEAN] /\ broken \in [Sessions -> BOOLEAN]

SendTypeOK ==
    /\ queue \in [Sessions -> [LaneSet -> 0..SendBufSize]]
    /\ wake \in [Sessions -> BOOLEAN]
    /\ tick \in [at : {"idle", "drain", "send", "signal", "stopped"}, ids : SUBSET Sessions,
                 to : SUBSET Sessions]

CallTypeOK ==
    call \in [Callers -> [at : {"off", "sessions", "handlers", "returned"},
                         wait : SUBSET Sessions]]

EventTypeOK ==
    /\ msgQueue \in Seq([kind : Kinds, sess : Sessions]) /\ Len(msgQueue) <= MsgQueueSize
    /\ dropped \subseteq [kind : Kinds, sess : Sessions]

ServerTypeOK ==
    /\ known \subseteq Sessions /\ tracker \subseteq Sessions /\ gone \subseteq Sessions
    /\ avatar \in [Sessions -> {"none", "pending", "bound"}] /\ body \subseteq Sessions
    /\ spawner \in [Sessions -> {"none", "hydrating", "checked", "reserved", "created", "done"}]

TypeOK ==
    /\ ListenerTypeOK /\ PumpTypeOK /\ CloseTypeOK /\ SendTypeOK /\ CallTypeOK
    /\ EventTypeOK /\ ServerTypeOK

Init ==
    /\ scenario \in Scenarios
    /\ closing = FALSE /\ pending = {} /\ sessions = {}
    /\ handler = [s \in Sessions |-> "idle"]
    /\ dreader = [s \in Sessions |-> "off"] /\ writer = [s \in Sessions |-> "off"]
    /\ queue = [s \in Sessions |-> [l \in LaneSet |-> 0]]
    /\ wake = [s \in Sessions |-> FALSE]
    /\ closeState = [s \in Sessions |-> "open"] /\ transport = [s \in Sessions |-> "open"]
    /\ async = [s \in Sessions |-> FALSE] /\ broken = [s \in Sessions |-> FALSE]
    /\ call = [c \in Callers |-> [at |-> "off", wait |-> {}]]
    /\ tick = [at |-> "idle", ids |-> {}, to |-> {}]
    /\ msgQueue = <<>> /\ known = {} /\ tracker = {}
    /\ avatar = [s \in Sessions |-> "none"] /\ body = {}
    /\ spawner = [s \in Sessions |-> "none"]
    /\ gone = {} /\ dropped = {}

-----------------------------------------------------------------------------
(* Closing a session. *)

\* Mutant: a store instead of the compare-and-swap, the last request wins.
beginCloseStore(s, reason) == closeState' = [closeState EXCEPT ![s] = reason]

\* The compare-and-swap of closeState: the first request wins.
beginClose(s, reason) ==
    closeState' = IF IsClosing(s) THEN closeState ELSE [closeState EXCEPT ![s] = reason]

\* Mutant: the transport is closed without marking the session as closing.
closeNowUnmarked(s) ==
    /\ transport' = IF transport[s] = "open" THEN [transport EXCEPT ![s] = "closing"]
                    ELSE transport
    /\ UNCHANGED closeState

\* beginClose and closeOnce: whoever comes first runs closeTransport, and every
\* caller goes on once transport[s] is "closed".
closeNow(s) ==
    /\ beginClose(s, "")
    /\ transport' = IF transport[s] = "open" THEN [transport EXCEPT ![s] = "closing"]
                    ELSE transport

\* The close handshake ends, by the peer's answer or by the library's timeout.
CloseTransport(s) ==
    /\ transport[s] = "closing"
    /\ transport' = [transport EXCEPT ![s] = "closed"]
    /\ UNCHANGED <<scenario, listenerVars, pumpVars, queue, wake, closeState, async, broken,
                   call, serverVars>>

\* Game code, from any goroutine, for a session it was given by OnConnect.
RequestCloseWithReason(s) ==
    /\ scenario.kicks /\ spawner[s] # "none" /\ ~IsClosing(s)
    /\ beginClose(s, "kick")
    /\ async' = [async EXCEPT ![s] = TRUE]
    /\ UNCHANGED <<scenario, listenerVars, pumpVars, queue, wake, transport, broken, call,
                   serverVars>>

AsyncClose(s) ==
    /\ async[s]
    /\ async' = [async EXCEPT ![s] = FALSE]
    /\ closeNow(s)
    /\ UNCHANGED <<scenario, listenerVars, pumpVars, queue, wake, broken, call, serverVars>>

\* The network or the client goes away without a word.
ConnectionBreaks(s) ==
    /\ scenario.breaks /\ ~broken[s]
    /\ handler[s] \in {"snapshot", "adding", "connecting", "reading"}
    /\ broken' = [broken EXCEPT ![s] = TRUE]
    /\ UNCHANGED <<scenario, listenerVars, pumpVars, queue, wake, closeState, transport, async,
                   call, serverVars>>

\* Reads and writes on the transport fail, or will soon.
Failing(s) == broken[s] \/ transport[s] # "open"

-----------------------------------------------------------------------------
(* The handler goroutine: handleWS or handleWebTransport, then             *)
(* serveAcceptedSession and readPump.                                      *)

\* Server.enqueue: a full queue drops the event.
enqueue(kind, s) ==
    LET m == [kind |-> kind, sess |-> s] IN
    IF Len(msgQueue) < MsgQueueSize
    THEN msgQueue' = Append(msgQueue, m) /\ UNCHANGED dropped
    ELSE dropped' = dropped \cup {m} /\ UNCHANGED msgQueue

Goto(s, pc) == handler' = [handler EXCEPT ![s] = pc]

\* Mutant: the handler is counted without looking at closing.
beginHandlerUngated(s) ==
    /\ handler[s] = "idle" /\ s \in scenario.clients
    /\ Goto(s, "upgrading")
    /\ UNCHANGED <<scenario, listenerVars, dreader, writer, sessionVars, call, serverVars>>

beginSessionHandler(s) ==
    /\ handler[s] = "idle" /\ s \in scenario.clients
    /\ Goto(s, IF closing THEN "refused" ELSE "upgrading")
    /\ UNCHANGED <<scenario, listenerVars, dreader, writer, sessionVars, call, serverVars>>

\* OnUpgrade and the transport's handshake; either may refuse.
Upgrade(s) ==
    /\ handler[s] = "upgrading"
    /\ \/ Goto(s, "accepted")
       \/ Goto(s, "done")
    /\ UNCHANGED <<scenario, listenerVars, dreader, writer, sessionVars, call, serverVars>>

beginAcceptedSession(s) ==
    /\ handler[s] = "accepted"
    /\ \/ /\ ~closing
          /\ pending' = pending \cup {s}
          /\ Goto(s, "snapshot")
          /\ UNCHANGED <<closeState, transport, broken>>
       \/ /\ closing
          /\ broken' = [broken EXCEPT ![s] = TRUE]
          /\ closeNow(s)
          /\ Goto(s, "rejected")
          /\ UNCHANGED pending
    /\ UNCHANGED <<scenario, closing, sessions, dreader, writer, queue, wake, async, call,
                   serverVars>>

Rejected(s) ==
    /\ handler[s] = "rejected" /\ transport[s] = "closed"
    /\ Goto(s, "done")
    /\ UNCHANGED <<scenario, listenerVars, dreader, writer, sessionVars, call, serverVars>>

\* Session.Close by the handler: it waits for the handshake only if nobody has
\* begun to close the session before.
CloseAndReturn(s) ==
    IF IsClosing(s)
    THEN Goto(s, "returning") /\ UNCHANGED <<closeState, transport>>
    ELSE Goto(s, "failing") /\ closeNow(s)

\* The writes go to the transport directly; known is committed after the last.
sendSnapshot(s) ==
    /\ handler[s] = "snapshot"
    /\ \/ /\ transport[s] = "open"
          /\ known' = known \cup {s}
          /\ Goto(s, "adding")
          /\ UNCHANGED <<closeState, transport>>
       \/ CloseAndReturn(s) /\ UNCHANGED known
    /\ UNCHANGED <<scenario, listenerVars, dreader, writer, queue, wake, async, broken, call,
                   tick, msgQueue, tracker, avatar, body, spawner, gone, dropped>>

addSession(s) ==
    /\ handler[s] = "adding"
    /\ pending' = pending \ {s}
    /\ \/ /\ ~closing
          /\ sessions' = sessions \cup {s}
          /\ Goto(s, "connecting")
          /\ UNCHANGED <<closeState, transport>>
       \/ /\ closing
          /\ CloseAndReturn(s)
          /\ UNCHANGED sessions
    /\ UNCHANGED <<scenario, closing, dreader, writer, queue, wake, async, broken, call,
                   serverVars>>

\* onConnect, then the goroutines of the two pumps.
Connect(s) ==
    /\ handler[s] = "connecting"
    /\ enqueue("connect", s)
    /\ Goto(s, "reading")
    /\ writer' = [writer EXCEPT ![s] = "top"]
    /\ dreader' = IF s \in scenario.webTransport THEN [dreader EXCEPT ![s] = "reading"]
                  ELSE dreader
    /\ UNCHANGED <<scenario, listenerVars, sessionVars, call, tick, known, tracker, avatar,
                   body, spawner, gone>>

\* A frame of the client passed the isClosing test ...
ReadMessage(s) ==
    /\ handler[s] = "reading" /\ scenario.inbound /\ ~Failing(s) /\ ~IsClosing(s)
    /\ Goto(s, "delivering")
    /\ UNCHANGED <<scenario, listenerVars, dreader, writer, sessionVars, call, serverVars>>

\* ... and its hook runs.
DeliverMessage(s) ==
    /\ handler[s] = "delivering"
    /\ enqueue("message", s)
    /\ Goto(s, "reading")
    /\ UNCHANGED <<scenario, listenerVars, dreader, writer, sessionVars, call, tick, known,
                   tracker, avatar, body, spawner, gone>>

\* ReadMessages returns an error, of the transport or of a frame that is too
\* large, and the context is cancelled ...
endReadPump(s) ==
    /\ handler[s] = "reading" /\ (Failing(s) \/ scenario.inbound)
    /\ Goto(s, "cancelled")
    /\ UNCHANGED <<scenario, listenerVars, dreader, writer, sessionVars, call, serverVars>>

\* ... or the client's close frame or a bad acknowledgement was read.
ClientCloses(s) == handler[s] = "reading" /\ scenario.inbound /\ ~IsClosing(s)

closeReadPump(s) ==
    /\ handler[s] = "cancelled" \/ ClientCloses(s)
    /\ closeNow(s)
    /\ Goto(s, "ending")
    /\ UNCHANGED <<scenario, listenerVars, dreader, writer, queue, wake, async, broken, call,
                   serverVars>>

\* Mutant: no wg.Wait.
returnsBeforeReader(s) ==
    /\ handler[s] = "ending" /\ transport[s] = "closed"
    /\ Goto(s, "disconnecting")
    /\ UNCHANGED <<scenario, listenerVars, dreader, writer, sessionVars, call, serverVars>>

\* closeNow has returned and wg.Wait too.
readPumpReturns(s) ==
    /\ handler[s] = "ending" /\ transport[s] = "closed" /\ dreader[s] \in {"off", "exited"}
    /\ Goto(s, "disconnecting")
    /\ UNCHANGED <<scenario, listenerVars, dreader, writer, sessionVars, call, serverVars>>

Disconnect(s) ==
    /\ handler[s] = "disconnecting"
    /\ enqueue("disconnect", s)
    /\ Goto(s, "removing")
    /\ UNCHANGED <<scenario, listenerVars, dreader, writer, sessionVars, call, tick, known,
                   tracker, avatar, body, spawner, gone>>

\* The deferred call, after Disconnect or after Close has returned.
removeSession(s) ==
    /\ \/ handler[s] \in {"removing", "returning"}
       \/ handler[s] = "failing" /\ transport[s] = "closed"
    /\ pending' = pending \ {s} /\ sessions' = sessions \ {s}
    /\ beginClose(s, "")
    /\ Goto(s, "done")
    /\ UNCHANGED <<scenario, closing, dreader, writer, queue, wake, transport, async, broken,
                   call, serverVars>>

-----------------------------------------------------------------------------
(* The datagram reader of a WebTransport session. *)

ReadDatagram(s) ==
    /\ dreader[s] = "reading" /\ scenario.inbound /\ ~Failing(s) /\ ~IsClosing(s)
    /\ dreader' = [dreader EXCEPT ![s] = "delivering"]
    /\ UNCHANGED <<scenario, listenerVars, handler, writer, sessionVars, call, serverVars>>

DeliverDatagram(s) ==
    /\ dreader[s] = "delivering"
    /\ enqueue("datagram", s)
    /\ dreader' = [dreader EXCEPT ![s] = "reading"]
    /\ UNCHANGED <<scenario, listenerVars, handler, writer, sessionVars, call, tick, known,
                   tracker, avatar, body, spawner, gone>>

\* The transport fails or the peer breaks the protocol: closeNow, then return.
\* But when the transport's own context ended first, the error is context.Canceled
\* and the reader returns without closing.
DatagramFails(s) ==
    /\ dreader[s] = "reading" /\ (Failing(s) \/ (scenario.inbound /\ ~IsClosing(s)))
    /\ \/ closeNow(s) /\ dreader' = [dreader EXCEPT ![s] = "closing"]
       \/ /\ Failing(s)
          /\ dreader' = [dreader EXCEPT ![s] = "exited"]
          /\ UNCHANGED <<closeState, transport>>
    /\ UNCHANGED <<scenario, listenerVars, handler, writer, queue, wake, async, broken, call,
                   serverVars>>

\* closeNow returned, or the read pump cancelled the context.
DatagramReaderReturns(s) ==
    /\ \/ dreader[s] = "closing" /\ transport[s] = "closed"
       \/ dreader[s] = "reading" /\ handler[s] \in {"cancelled", "ending"}
    /\ dreader' = [dreader EXCEPT ![s] = "exited"]
    /\ UNCHANGED <<scenario, listenerVars, handler, writer, sessionVars, call, serverVars>>

-----------------------------------------------------------------------------
(* The write pump. *)

Write(s, pc) == writer' = [writer EXCEPT ![s] = pc]

\* The head of the loop; every return runs the deferred closeNow.
WriterTop(s) ==
    /\ writer[s] = "top"
    /\ \/ /\ ~IsClosing(s)
          /\ Write(s, "drain")
          /\ UNCHANGED <<closeState, transport>>
       \/ /\ IsClosing(s)
          /\ closeNow(s)
          /\ Write(s, "closing")
    /\ UNCHANGED <<scenario, listenerVars, handler, dreader, queue, wake, async, broken, call,
                   serverVars>>

\* Mutant: a failed write ends the pump and leaves the session open.
writeOneQuits(s) ==
    /\ writer[s] = "drain" /\ ~Empty(s)
    /\ LET l == IF queue[s]["unreliable"] > 0 THEN "unreliable" ELSE "stream" IN
       queue' = [queue EXCEPT ![s][l] = @ - 1]
    /\ Write(s, IF Failing(s) THEN "exited" ELSE "drain")
    /\ UNCHANGED <<scenario, listenerVars, handler, dreader, wake, closeState, transport,
                   async, broken, call, serverVars>>

\* One frame from the first lane that has one.
writeOne(s) ==
    /\ writer[s] = "drain" /\ ~Empty(s)
    /\ LET l == IF queue[s]["unreliable"] > 0 THEN "unreliable" ELSE "stream" IN
       queue' = [queue EXCEPT ![s][l] = @ - 1]
    /\ \/ /\ transport[s] = "open"
          /\ UNCHANGED <<writer, closeState, transport>>
       \/ /\ Failing(s)
          /\ closeNow(s)
          /\ Write(s, "closing")
    /\ UNCHANGED <<scenario, listenerVars, handler, dreader, wake, async, broken, call,
                   serverVars>>

\* drainOutbound ends: nothing left, or a guardrail on sends or time.
WriterDrained(s) ==
    /\ writer[s] = "drain"
    /\ Write(s, "check")
    /\ UNCHANGED <<scenario, listenerVars, handler, dreader, sessionVars, call, serverVars>>

\* Mutant: the pump sleeps without a look at the queues.
parkUnchecked(s) ==
    /\ writer[s] = "check"
    /\ Write(s, "park")
    /\ UNCHANGED <<scenario, listenerVars, handler, dreader, sessionVars, call, serverVars>>

nextOutboundWake(s) ==
    /\ writer[s] = "check"
    /\ Write(s, IF Empty(s) THEN "park" ELSE "top")
    /\ UNCHANGED <<scenario, listenerVars, handler, dreader, sessionVars, call, serverVars>>

\* The select: done, the end of the transport's context, or wake.
WriterWakes(s) ==
    /\ writer[s] = "park"
    /\ \/ /\ IsClosing(s) \/ (s \in scenario.webTransport /\ Failing(s))
          /\ closeNow(s)
          /\ Write(s, "closing")
          /\ UNCHANGED wake
       \/ /\ wake[s]
          /\ wake' = [wake EXCEPT ![s] = FALSE]
          /\ Write(s, "top")
          /\ UNCHANGED <<closeState, transport>>
    /\ UNCHANGED <<scenario, listenerVars, handler, dreader, queue, async, broken, call,
                   serverVars>>

WriterReturns(s) ==
    /\ writer[s] = "closing" /\ transport[s] = "closed"
    /\ Write(s, "exited")
    /\ UNCHANGED <<scenario, listenerVars, handler, dreader, sessionVars, call, serverVars>>

-----------------------------------------------------------------------------
(* Shutdown. *)

\* Mutant: sessions that are still connecting are not closed.
CloseConnectedOnly(c) ==
    /\ c \in scenario.stops /\ call[c].at = "off"
    /\ closing' = TRUE
    /\ call' = [call EXCEPT ![c] = [at |-> "sessions", wait |-> sessions]]
    /\ UNCHANGED <<scenario, pending, sessions, pumpVars, sessionVars, serverVars>>

CloseSessions(c) ==
    /\ c \in scenario.stops /\ call[c].at = "off"
    /\ closing' = TRUE
    /\ call' = [call EXCEPT ![c] = [at |-> "sessions", wait |-> sessions \cup pending]]
    /\ UNCHANGED <<scenario, pending, sessions, pumpVars, sessionVars, serverVars>>

\* The goroutine that closes one of the sessions: beginClose, abortClose, closeNow ...
CloseOne(c, s) ==
    /\ call[c].at = "sessions" /\ s \in call[c].wait
    /\ ~broken[s] \/ transport[s] = "open"
    /\ broken' = [broken EXCEPT ![s] = TRUE]
    /\ closeNow(s)
    /\ UNCHANGED <<scenario, listenerVars, pumpVars, queue, wake, async, call, serverVars>>

\* ... and waitClosed.
waitClosed(c, s) ==
    /\ call[c].at = "sessions" /\ s \in call[c].wait /\ transport[s] = "closed"
    /\ call' = [call EXCEPT ![c].wait = @ \ {s}]
    /\ UNCHANGED <<scenario, listenerVars, pumpVars, sessionVars, serverVars>>

\* wg.Wait, then sessionHandlers.Wait.
CloseSessionsWaits(c) ==
    /\ \/ /\ call[c].at = "sessions" /\ call[c].wait = {}
          /\ call' = [call EXCEPT ![c].at = "handlers"]
       \/ /\ call[c].at = "handlers" /\ \A s \in Sessions : handler[s] \in Inactive
          /\ call' = [call EXCEPT ![c].at = "returned"]
    /\ UNCHANGED <<scenario, listenerVars, pumpVars, sessionVars, serverVars>>

-----------------------------------------------------------------------------
(* The tick goroutine. *)

StartTick ==
    /\ tick.at = "idle" /\ scenario.ticks
    /\ tick' = [tick EXCEPT !.at = "drain"]
    /\ UNCHANGED <<scenario, listenerVars, pumpVars, sessionVars, call, msgQueue, known,
                   tracker, avatar, body, spawner, gone, dropped>>

\* cleanupAvatarOnDisconnect: a reservation is left to the spawner that made it.
takeAvatar(s) ==
    IF avatar[s] = "bound"
    THEN avatar' = [avatar EXCEPT ![s] = "none"] /\ body' = body \ {s}
    ELSE UNCHANGED <<avatar, body>>

\* The hook of OnConnect may start to load what the avatar needs.
drainMessages ==
    /\ tick.at = "drain" /\ msgQueue # <<>>
    /\ msgQueue' = Tail(msgQueue)
    /\ LET m == Head(msgQueue) IN
       \/ /\ m.kind = "connect"
          /\ spawner' = [spawner EXCEPT ![m.sess] =
                            IF scenario.avatar = "no" THEN "done" ELSE "hydrating"]
          /\ UNCHANGED <<known, tracker, avatar, body, gone>>
       \/ /\ m.kind \in {"message", "datagram"}
          /\ UNCHANGED <<known, tracker, avatar, body, gone, spawner>>
       \/ /\ m.kind = "disconnect"
          /\ tracker' = tracker \ {m.sess}
          /\ takeAvatar(m.sess)
          /\ known' = known \ {m.sess}
          /\ gone' = gone \cup {m.sess}
          /\ UNCHANGED spawner
    /\ UNCHANGED <<scenario, listenerVars, pumpVars, sessionVars, call, tick, dropped>>

\* The pass captures SessionIDs ...
StartPass ==
    /\ tick.at = "drain" /\ msgQueue = <<>>
    /\ tick' = [at |-> "send", ids |-> sessions, to |-> {}]
    /\ UNCHANGED <<scenario, listenerVars, pumpVars, sessionVars, call, msgQueue, known,
                   tracker, avatar, body, spawner, gone, dropped>>

Connected(s) == s \in sessions

\* ... and goes through them; one that left the listener since loses its known set.
SkipSession(s) ==
    /\ tick.at = "send" /\ s \in tick.ids /\ ~Connected(s)
    /\ tick' = [tick EXCEPT !.ids = @ \ {s}]
    /\ known' = known \ {s}
    /\ UNCHANGED <<scenario, listenerVars, pumpVars, sessionVars, call, msgQueue, tracker,
                   avatar, body, spawner, gone, dropped>>

\* Session.queueStream and its sisters: an overflow closes the session.
queueFrame(s, l) ==
    \/ /\ IsClosing(s)
       /\ tick' = [tick EXCEPT !.ids = @ \ {s}]
       /\ UNCHANGED <<queue, closeState, async>>
    \/ /\ ~IsClosing(s) /\ queue[s][l] < SendBufSize
       /\ queue' = [queue EXCEPT ![s][l] = @ + 1]
       /\ tick' = [at |-> "signal", ids |-> tick.ids \ {s}, to |-> {s}]
       /\ UNCHANGED <<closeState, async>>
    \/ /\ ~IsClosing(s) /\ queue[s][l] = SendBufSize
       /\ beginClose(s, "")
       /\ async' = [async EXCEPT ![s] = TRUE]
       /\ tick' = [tick EXCEPT !.ids = @ \ {s}]
       /\ UNCHANGED queue

SendToSession(s) ==
    /\ tick.at = "send" /\ s \in tick.ids /\ Connected(s)
    /\ known' = known \cup {s}
    /\ tracker' = IF s \in scenario.webTransport THEN tracker \cup {s} ELSE tracker
    /\ \/ \E l \in scenario.lanes : queueFrame(s, l)
       \/ /\ tick' = [tick EXCEPT !.ids = @ \ {s}]    \* nothing to send
          /\ UNCHANGED <<queue, closeState, async>>
    /\ UNCHANGED <<scenario, listenerVars, pumpVars, wake, transport, broken, call, msgQueue,
                   avatar, body, spawner, gone, dropped>>

signalWake ==
    /\ tick.at = "signal"
    /\ wake' = [s \in Sessions |-> wake[s] \/ s \in tick.to]
    /\ tick' = [tick EXCEPT !.at = "send", !.to = {}]
    /\ UNCHANGED <<scenario, listenerVars, pumpVars, queue, closeState, transport, async,
                   broken, call, msgQueue, known, tracker, avatar, body, spawner, gone, dropped>>

\* The last tick before shutdown ends like any other.
EndTick ==
    /\ tick.at = "send" /\ tick.ids = {}
    /\ \/ tick' = [tick EXCEPT !.at = "idle"]
       \/ scenario.stops # {} /\ tick' = [tick EXCEPT !.at = "stopped"]
    /\ UNCHANGED <<scenario, listenerVars, pumpVars, sessionVars, call, msgQueue, known,
                   tracker, avatar, body, spawner, gone, dropped>>

-----------------------------------------------------------------------------
(* Game code gives a session its avatar some time after OnConnect, unless  *)
(* the session is closing by then (Session.IsClosing).                     *)

\* In a callback of a task or of Post, at the start of a tick: SpawnAvatar as a whole.
SpawnInTick(s) ==
    /\ scenario.avatar = "tick" /\ spawner[s] = "hydrating" /\ tick.at = "idle"
    /\ spawner' = [spawner EXCEPT ![s] = "done"]
    /\ IF IsClosing(s) THEN UNCHANGED <<avatar, body>>
       ELSE avatar' = [avatar EXCEPT ![s] = "bound"] /\ body' = body \cup {s}
    /\ UNCHANGED <<scenario, listenerVars, pumpVars, sessionVars, call, tick, msgQueue, known,
                   tracker, gone, dropped>>

\* On a goroutine of its own: the test and the three parts of SpawnAvatar.
CheckClosing(s) ==
    /\ scenario.avatar = "goroutine" /\ spawner[s] = "hydrating"
    /\ spawner' = [spawner EXCEPT ![s] = IF IsClosing(s) THEN "done" ELSE "checked"]
    /\ UNCHANGED <<avatar, body>>

reserveAvatarSlot(s) ==
    /\ spawner[s] = "checked"
    /\ avatar' = [avatar EXCEPT ![s] = "pending"]
    /\ spawner' = [spawner EXCEPT ![s] = "reserved"]
    /\ UNCHANGED body

CreateBody(s) ==
    /\ spawner[s] = "reserved"
    /\ body' = body \cup {s}
    /\ spawner' = [spawner EXCEPT ![s] = "created"]
    /\ UNCHANGED avatar

\* A lost reservation rolls the entity back.
commitAvatar(s) ==
    /\ spawner[s] = "created"
    /\ spawner' = [spawner EXCEPT ![s] = "done"]
    /\ IF avatar[s] = "pending"
       THEN avatar' = [avatar EXCEPT ![s] = "bound"] /\ UNCHANGED body
       ELSE body' = body \ {s} /\ UNCHANGED avatar

SpawnAvatar(s) ==
    /\ CheckClosing(s) \/ reserveAvatarSlot(s) \/ CreateBody(s) \/ commitAvatar(s)
    /\ UNCHANGED <<scenario, listenerVars, pumpVars, sessionVars, call, tick, msgQueue, known,
                   tracker, gone, dropped>>

-----------------------------------------------------------------------------
\* Steps of the goroutines that belong to session s.
HandlerStep(s) ==
    \/ beginSessionHandler(s) \/ Upgrade(s) \/ beginAcceptedSession(s) \/ Rejected(s)
    \/ sendSnapshot(s) \/ addSession(s) \/ Connect(s) \/ ReadMessage(s) \/ DeliverMessage(s)
    \/ endReadPump(s) \/ closeReadPump(s) \/ readPumpReturns(s) \/ Disconnect(s) \/ removeSession(s)

ReaderStep(s) ==
    ReadDatagram(s) \/ DeliverDatagram(s) \/ DatagramFails(s) \/ DatagramReaderReturns(s)

WriterStep(s) ==
    \/ WriterTop(s) \/ writeOne(s) \/ WriterDrained(s) \/ nextOutboundWake(s)
    \/ WriterWakes(s) \/ WriterReturns(s)

CloseStep(c) ==
    \/ CloseSessions(c) \/ CloseSessionsWaits(c)
    \/ \E s \in Sessions : CloseOne(c, s) \/ waitClosed(c, s)

TickStep ==
    \/ StartTick \/ drainMessages \/ StartPass \/ signalWake \/ EndTick
    \/ \E s \in Sessions : SkipSession(s) \/ SendToSession(s) \/ SpawnInTick(s)

Next ==
    \/ \E s \in Sessions :
          \/ HandlerStep(s) \/ ReaderStep(s) \/ WriterStep(s)
          \/ CloseTransport(s) \/ RequestCloseWithReason(s) \/ AsyncClose(s)
          \/ ConnectionBreaks(s) \/ SpawnAvatar(s)
    \/ \E c \in Callers : CloseStep(c)
    \/ TickStep

Spec == Init /\ [][Next]_vars

\* Goroutines that can run do run, a failing transport makes reads and writes
\* return, and the close handshake ends.  Clients, game code and the network owe
\* nothing: reads may wait and writes may block for good on a transport that
\* does not fail, so neither the snapshot nor the write pump is fair.
Runs(s) ==
    \/ Upgrade(s) \/ beginAcceptedSession(s) \/ Rejected(s) \/ addSession(s) \/ Connect(s)
    \/ DeliverMessage(s) \/ (handler[s] = "cancelled" /\ closeReadPump(s))
    \/ readPumpReturns(s) \/ Disconnect(s) \/ removeSession(s)

Fairness ==
    /\ \A s \in Sessions :
          /\ WF_vars(Runs(s))
          /\ WF_vars(Failing(s) /\ sendSnapshot(s)) /\ WF_vars(Failing(s) /\ endReadPump(s))
          /\ WF_vars(DeliverDatagram(s) \/ DatagramReaderReturns(s))
          /\ WF_vars(Failing(s) /\ DatagramFails(s))
          /\ WF_vars(CloseTransport(s)) /\ WF_vars(AsyncClose(s))
    /\ \A c \in Callers :
          /\ WF_vars(CloseSessionsWaits(c))
          /\ \A s \in Sessions : WF_vars(CloseOne(c, s)) /\ WF_vars(waitClosed(c, s))

FairSpec == Spec /\ Fairness

-----------------------------------------------------------------------------
(* Properties. *)

\* The tick goroutine sees the events of a session in order: OnConnect at most
\* once and first, OnDisconnect at most once and last.  The datagram reader
\* must have returned before the handler queues the disconnect (wg.Wait in
\* readPump), and the hooks of a late datagram run on its goroutine.
EventsInOrder ==
    /\ \A i, j \in 1..Len(msgQueue) :
          i < j /\ msgQueue[i].sess = msgQueue[j].sess =>
             msgQueue[i].kind # "disconnect" /\ msgQueue[j].kind # "connect"
    /\ \A i \in 1..Len(msgQueue) :
          /\ msgQueue[i].sess \notin gone
          /\ msgQueue[i].kind = "connect" => spawner[msgQueue[i].sess] = "none"

\* Nothing is left behind unnoticed: a session whose handler is done after it was
\* announced with OnConnect has its disconnect dispatched or queued, unless the
\* full message queue dropped it; and the write pump does not sleep on queued
\* frames: it was woken, or the sender that queued the frame is about to signal
\* (queueStream and signalWake).
NothingStranded ==
    \A s \in Sessions :
       /\ handler[s] = "done" /\ writer[s] # "off" =>
             \/ s \in gone
             \/ \E i \in 1..Len(msgQueue) : msgQueue[i] = [kind |-> "disconnect", sess |-> s]
             \/ [kind |-> "disconnect", sess |-> s] \in dropped
       /\ writer[s] = "park" /\ ~Empty(s) /\ ~IsClosing(s) => wake[s] \/ s \in tick.to

\* CloseSessions returns only when no session is left in the tables and every
\* handler has finished, with its disconnect hook ("waits until their handlers
\* and disconnect hooks finish"); and no transport is open or closing, except one
\* that another call, which has not returned, still closes: a handler that fails
\* to set its session up does not wait for a close that is under way.
ShutdownIsComplete ==
    (\E c \in Callers : call[c].at = "returned") =>
       /\ sessions = {} /\ pending = {}
       /\ \A s \in Sessions :
             /\ handler[s] \in Inactive /\ dreader[s] \in {"off", "exited"}
             /\ \/ ~IsClosing(s) \/ transport[s] = "closed"
                \/ \E c \in Callers : call[c].at = "sessions" /\ s \in call[c].wait

\* A session in the table that nobody asked to close has its pumps at work: one
\* that ends, for whatever reason, takes the session with it.  Only the datagram
\* reader may leave alone, when the transport has failed or the read pump is on
\* its way out; that the session goes too is part of ClosesComplete.
NoZombie ==
    \A s \in sessions :
       ~IsClosing(s) =>
          \/ handler[s] = "connecting"
          \/ /\ handler[s] \in {"reading", "delivering", "cancelled"}
             /\ writer[s] \in {"top", "drain", "check", "park"}
             /\ s \in scenario.webTransport /\ dreader[s] \notin {"reading", "delivering"} =>
                   broken[s] \/ handler[s] = "cancelled"

\* After the disconnect of a session was dispatched, and outside a SpawnAvatar
\* that is still running, no avatar of it is left, as the OnDisconnect comment
\* says ("cannot leak past disconnect").
AvatarsReaped ==
    \A s \in gone :
       spawner[s] \notin {"reserved", "created"} => avatar[s] = "none" /\ s \notin body

\* The first close request decides the reason and nothing reopens a session.
CloseIsFinal ==
    [][\A s \in Sessions :
          /\ IsClosing(s) => closeState'[s] = closeState[s]
          /\ transport[s] = "closed" => transport'[s] = "closed"
          /\ transport[s] = "open" /\ transport'[s] # "open" => closeState'[s] # "open"]_vars

\* A close request, whoever made it, ends the session, and so does the end of its
\* read pump or its connection: its handler finishes and the session leaves the
\* table; and CloseSessions returns, however many sessions are connecting, reading
\* or closing.
ClosesComplete ==
    /\ \A s \in Sessions :
          IsClosing(s) \/ broken[s] \/ handler[s] = "cancelled" ~>
             handler[s] = "done" /\ s \notin sessions
    /\ \A c \in Callers : call[c].at # "off" ~> call[c].at = "returned"

=============================================================================
