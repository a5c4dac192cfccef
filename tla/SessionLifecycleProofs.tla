------------------------ MODULE SessionLifecycleProofs ------------------------
(***************************************************************************)
(* Type correctness of SessionLifecycle, the finality of a close, the      *)
(* completeness of CloseSessions, the life of the pumps, the order of a    *)
(* session's events, that nothing is stranded in a queue and that avatars  *)
(* made in the tick are reaped, for any number of sessions and of calls of *)
(* CloseSessions.                                                          *)
(***************************************************************************)
EXTENDS SessionLifecycle, SequenceTheorems, TLAPS

LEMMA InitTypes == Init => TypeOK
<1> SUFFICES ASSUME Init PROVE TypeOK
  OBVIOUS
<1> USE SessionAssumption DEF Init
<1>1. ListenerTypeOK
  BY DEF ListenerTypeOK
<1>2. PumpTypeOK
  BY DEF PumpTypeOK, Handlers
<1>3. CloseTypeOK
  BY DEF CloseTypeOK, Reasons
<1>4. SendTypeOK
  BY DEF SendTypeOK
<1>5. CallTypeOK
  BY DEF CallTypeOK
<1>6. EventTypeOK
  BY DEF EventTypeOK
<1>7. ServerTypeOK
  BY DEF ServerTypeOK
<1> QED
  BY <1>1, <1>2, <1>3, <1>4, <1>5, <1>6, <1>7 DEF TypeOK

\* The cases of Next, by goroutine.
LEMMA NextCases ==
    ASSUME [Next]_vars
    PROVE  \/ \E s \in Sessions : HandlerStep(s)
           \/ \E s \in Sessions : ReaderStep(s)
           \/ \E s \in Sessions : WriterStep(s)
           \/ \E s \in Sessions : CloseTransport(s) \/ RequestCloseWithReason(s)
                                   \/ AsyncClose(s) \/ ConnectionBreaks(s)
           \/ \E s \in Sessions : SpawnAvatar(s) \/ SpawnInTick(s)
           \/ \E c \in Callers : CloseStep(c)
           \/ StartTick \/ drainMessages \/ StartPass \/ signalWake \/ EndTick
           \/ \E s \in Sessions : SkipSession(s) \/ SendToSession(s)
           \/ UNCHANGED vars
BY DEF Next, TickStep

LEMMA PumpTypes ==
    ASSUME TypeOK, [Next]_vars
    PROVE  PumpTypeOK'
<1> USE DEF TypeOK, PumpTypeOK, Handlers
<1>1. ASSUME NEW s \in Sessions, HandlerStep(s)
      PROVE  PumpTypeOK'
  BY <1>1 DEF HandlerStep, beginSessionHandler, Upgrade, beginAcceptedSession, Rejected,
     sendSnapshot, CloseAndReturn, addSession, Connect, ReadMessage, DeliverMessage,
     endReadPump, closeReadPump, readPumpReturns, Disconnect, removeSession, Goto
<1>2. ASSUME NEW s \in Sessions, ReaderStep(s)
      PROVE  PumpTypeOK'
  BY <1>2 DEF ReaderStep, ReadDatagram, DeliverDatagram, DatagramFails, DatagramReaderReturns
<1>3. ASSUME NEW s \in Sessions, WriterStep(s)
      PROVE  PumpTypeOK'
  BY <1>3 DEF WriterStep, WriterTop, writeOne, WriterDrained, nextOutboundWake, WriterWakes,
     WriterReturns, Write
<1>4. CASE UNCHANGED pumpVars
  BY <1>4 DEF pumpVars
<1>5. ASSUME NEW s \in Sessions,
             \/ CloseTransport(s) \/ RequestCloseWithReason(s) \/ AsyncClose(s)
             \/ ConnectionBreaks(s) \/ SpawnAvatar(s) \/ SpawnInTick(s)
             \/ SkipSession(s) \/ SendToSession(s)
      PROVE  UNCHANGED pumpVars
  BY <1>5 DEF CloseTransport, RequestCloseWithReason, AsyncClose, ConnectionBreaks,
     SpawnAvatar, SpawnInTick, SkipSession, SendToSession
<1>6. ASSUME NEW c \in Callers, CloseStep(c)
      PROVE  UNCHANGED pumpVars
  BY <1>6 DEF CloseStep, CloseSessions, CloseSessionsWaits, CloseOne, waitClosed
<1>7. CASE StartTick \/ drainMessages \/ StartPass \/ signalWake \/ EndTick \/ UNCHANGED vars
  BY <1>4, <1>7 DEF StartTick, drainMessages, StartPass, signalWake, EndTick, vars
<1> QED
  BY <1>1, <1>2, <1>3, <1>4, <1>5, <1>6, <1>7, NextCases

LEMMA ListenerTypes ==
    ASSUME TypeOK, [Next]_vars
    PROVE  ListenerTypeOK'
<1> USE DEF TypeOK, ListenerTypeOK
<1>1. ASSUME NEW s \in Sessions, HandlerStep(s)
      PROVE  ListenerTypeOK'
  BY <1>1 DEF HandlerStep, beginSessionHandler, Upgrade, beginAcceptedSession, Rejected,
     sendSnapshot, CloseAndReturn, addSession, Connect, ReadMessage, DeliverMessage,
     endReadPump, closeReadPump, readPumpReturns, Disconnect, removeSession, listenerVars
<1>2. ASSUME NEW c \in Callers, CloseStep(c)
      PROVE  ListenerTypeOK'
  BY <1>2 DEF CloseStep, CloseSessions, CloseSessionsWaits, CloseOne, waitClosed, listenerVars
<1>3. CASE UNCHANGED <<scenario, listenerVars>>
  BY <1>3 DEF listenerVars
<1>4. ASSUME NEW s \in Sessions,
             \/ ReaderStep(s) \/ WriterStep(s) \/ CloseTransport(s) \/ AsyncClose(s)
             \/ RequestCloseWithReason(s) \/ ConnectionBreaks(s) \/ SpawnAvatar(s)
             \/ SpawnInTick(s) \/ SkipSession(s) \/ SendToSession(s)
      PROVE  UNCHANGED <<scenario, listenerVars>>
  BY <1>4 DEF ReaderStep, ReadDatagram, DeliverDatagram, DatagramFails, DatagramReaderReturns,
     WriterStep, WriterTop, writeOne, WriterDrained, nextOutboundWake, WriterWakes,
     WriterReturns, CloseTransport, RequestCloseWithReason, AsyncClose, ConnectionBreaks,
     SpawnAvatar, SpawnInTick, SkipSession, SendToSession
<1>5. CASE StartTick \/ drainMessages \/ StartPass \/ signalWake \/ EndTick \/ UNCHANGED vars
  BY <1>3, <1>5 DEF StartTick, drainMessages, StartPass, signalWake, EndTick, vars
<1> QED
  BY <1>1, <1>2, <1>3, <1>4, <1>5, NextCases

\* What beginClose and closeNow do to the close state of one session.
LEMMA CloseNowTypes ==
    ASSUME CloseTypeOK, NEW s \in Sessions, closeNow(s)
    PROVE  /\ closeState' \in [Sessions -> Reasons \cup {"open"}]
           /\ transport' \in [Sessions -> {"open", "closing", "closed"}]
BY DEF CloseTypeOK, closeNow, beginClose, Reasons

LEMMA CloseTypes ==
    ASSUME TypeOK, [Next]_vars
    PROVE  CloseTypeOK'
<1> USE DEF TypeOK, CloseTypeOK
<1>1. CASE UNCHANGED <<closeState, transport, async, broken>>
  BY <1>1
<1>2. ASSUME NEW s \in Sessions, closeNow(s),
             \/ UNCHANGED async
             \/ async' = [async EXCEPT ![s] = FALSE],
             \/ UNCHANGED broken
             \/ broken' = [broken EXCEPT ![s] = TRUE]
      PROVE  CloseTypeOK'
  <2>1. async' \in [Sessions -> BOOLEAN] /\ broken' \in [Sessions -> BOOLEAN]
    BY <1>2
  <2> QED
    BY <1>2, <2>1, CloseNowTypes
<1>3. ASSUME NEW s \in Sessions, HandlerStep(s)
      PROVE  CloseTypeOK'
  <2>1. CASE removeSession(s)
    BY <2>1 DEF removeSession, beginClose, Reasons
  <2>2. CASE beginAcceptedSession(s) \/ sendSnapshot(s) \/ addSession(s) \/ closeReadPump(s)
    BY <1>1, <1>2, <2>2 DEF beginAcceptedSession, sendSnapshot, CloseAndReturn, addSession,
       closeReadPump
  <2>3. CASE \/ beginSessionHandler(s) \/ Upgrade(s) \/ Rejected(s) \/ Connect(s)
             \/ ReadMessage(s) \/ DeliverMessage(s) \/ endReadPump(s) \/ readPumpReturns(s)
             \/ Disconnect(s)
    BY <1>1, <2>3 DEF beginSessionHandler, Upgrade, Rejected, Connect, ReadMessage,
       DeliverMessage, endReadPump, readPumpReturns, Disconnect, sessionVars
  <2> QED
    BY <1>3, <2>1, <2>2, <2>3 DEF HandlerStep
<1>4. ASSUME NEW s \in Sessions, ReaderStep(s)
      PROVE  CloseTypeOK'
  BY <1>1, <1>2, <1>4 DEF ReaderStep, ReadDatagram, DeliverDatagram, DatagramFails,
     DatagramReaderReturns, sessionVars
<1>5. ASSUME NEW s \in Sessions, WriterStep(s)
      PROVE  CloseTypeOK'
  BY <1>1, <1>2, <1>5 DEF WriterStep, WriterTop, writeOne, WriterDrained, nextOutboundWake,
     WriterWakes, WriterReturns, sessionVars
<1>6. ASSUME NEW s \in Sessions,
             CloseTransport(s) \/ RequestCloseWithReason(s) \/ AsyncClose(s) \/ ConnectionBreaks(s)
      PROVE  CloseTypeOK'
  <2>1. CASE AsyncClose(s)
    BY <1>2, <2>1 DEF AsyncClose
  <2>2. CASE RequestCloseWithReason(s)
    BY <2>2 DEF RequestCloseWithReason, beginClose, Reasons
  <2>3. CASE CloseTransport(s)
    BY <2>3 DEF CloseTransport
  <2>4. CASE ConnectionBreaks(s)
    BY <2>4 DEF ConnectionBreaks
  <2> QED
    BY <1>6, <2>1, <2>2, <2>3, <2>4
<1>7. ASSUME NEW s \in Sessions, SendToSession(s)
      PROVE  CloseTypeOK'
  <2>1. PICK l \in LaneSet : queueFrame(s, l) \/ UNCHANGED <<closeState, async>>
    BY <1>7, SessionAssumption DEF SendToSession, ListenerTypeOK, ScenarioType, LaneSet
  <2>2. UNCHANGED <<transport, broken>>
    BY <1>7 DEF SendToSession
  <2>3. CASE queueFrame(s, l)
    BY <2>2, <2>3 DEF queueFrame, beginClose, Reasons
  <2> QED
    BY <1>1, <2>1, <2>2, <2>3
<1>8. ASSUME NEW s \in Sessions, SpawnAvatar(s) \/ SpawnInTick(s) \/ SkipSession(s)
      PROVE  CloseTypeOK'
  BY <1>1, <1>8 DEF SpawnAvatar, SpawnInTick, SkipSession, sessionVars
<1>9. ASSUME NEW c \in Callers, CloseStep(c)
      PROVE  CloseTypeOK'
  BY <1>1, <1>2, <1>9 DEF CloseStep, CloseSessions, CloseSessionsWaits, CloseOne, waitClosed,
     sessionVars
<1>10. CASE StartTick \/ drainMessages \/ StartPass \/ signalWake \/ EndTick \/ UNCHANGED vars
  BY <1>1, <1>10 DEF StartTick, drainMessages, StartPass, signalWake, EndTick, vars, sessionVars
<1> QED
  BY <1>3, <1>4, <1>5, <1>6, <1>7, <1>8, <1>9, <1>10, NextCases

LEMMA SendTypes ==
    ASSUME TypeOK, [Next]_vars
    PROVE  SendTypeOK'
<1> USE DEF TypeOK, SendTypeOK
<1>1. CASE UNCHANGED <<queue, wake, tick>>
  BY <1>1
<1>2. ASSUME NEW s \in Sessions, HandlerStep(s) \/ ReaderStep(s)
      PROVE  UNCHANGED <<queue, wake, tick>>
  BY <1>2 DEF HandlerStep, beginSessionHandler, Upgrade, beginAcceptedSession, Rejected,
     sendSnapshot, CloseAndReturn, addSession, Connect, ReadMessage, DeliverMessage,
     endReadPump, closeReadPump, readPumpReturns, Disconnect, removeSession, ReaderStep,
     ReadDatagram, DeliverDatagram, DatagramFails, DatagramReaderReturns, sessionVars,
     serverVars
<1>3. ASSUME NEW s \in Sessions, WriterStep(s)
      PROVE  SendTypeOK'
  <2>1. CASE writeOne(s)
    <3>1. PICK l \in LaneSet : l = IF queue[s]["unreliable"] > 0 THEN "unreliable" ELSE "stream"
      BY DEF LaneSet
    <3>2. queue' = [queue EXCEPT ![s][l] = @ - 1]
      BY <2>1, <3>1 DEF writeOne
    <3>3. queue[s][l] - 1 \in 0..SendBufSize
      <4>1. queue[s]["unreliable"] \in 0..SendBufSize /\ queue[s]["stream"] \in 0..SendBufSize
        BY DEF LaneSet
      <4>2. queue[s]["unreliable"] # 0 \/ queue[s]["stream"] # 0
        BY <2>1 DEF writeOne, Empty, LaneSet
      <4> QED
        BY <3>1, <4>1, <4>2, SessionAssumption
    <3>4. queue' \in [Sessions -> [LaneSet -> 0..SendBufSize]]
      BY <3>2, <3>3
    <3> QED
      BY <2>1, <3>4 DEF writeOne, serverVars
  <2>2. CASE WriterWakes(s)
    BY <2>2 DEF WriterWakes, serverVars
  <2>3. CASE WriterTop(s) \/ WriterDrained(s) \/ nextOutboundWake(s) \/ WriterReturns(s)
    BY <1>1, <2>3 DEF WriterTop, WriterDrained, nextOutboundWake, WriterReturns, sessionVars,
       serverVars
  <2> QED
    BY <1>3, <2>1, <2>2, <2>3 DEF WriterStep
<1>4. ASSUME NEW s \in Sessions,
             \/ CloseTransport(s) \/ RequestCloseWithReason(s) \/ AsyncClose(s)
             \/ ConnectionBreaks(s) \/ SpawnAvatar(s) \/ SpawnInTick(s)
      PROVE  UNCHANGED <<queue, wake, tick>>
  BY <1>4 DEF CloseTransport, RequestCloseWithReason, AsyncClose, ConnectionBreaks, SpawnAvatar,
     SpawnInTick, sessionVars, serverVars
<1>5. ASSUME NEW c \in Callers, CloseStep(c)
      PROVE  UNCHANGED <<queue, wake, tick>>
  BY <1>5 DEF CloseStep, CloseSessions, CloseSessionsWaits, CloseOne, waitClosed, sessionVars,
     serverVars
<1>6. ASSUME NEW s \in Sessions, SendToSession(s)
      PROVE  SendTypeOK'
  <2>1. CASE UNCHANGED queue /\ tick' = [tick EXCEPT !.ids = @ \ {s}]
    BY <1>6, <2>1 DEF SendToSession
  <2>2. ASSUME NEW l \in LaneSet, queueFrame(s, l)
        PROVE  SendTypeOK'
    <3>1. CASE /\ queue[s][l] < SendBufSize
               /\ queue' = [queue EXCEPT ![s][l] = @ + 1]
               /\ tick' = [at |-> "signal", ids |-> tick.ids \ {s}, to |-> {s}]
      <4>1. queue[s][l] + 1 \in 0..SendBufSize
        BY <3>1, SessionAssumption
      <4>2. queue' \in [Sessions -> [LaneSet -> 0..SendBufSize]]
        BY <3>1, <4>1
      <4> QED
        BY <1>6, <3>1, <4>2 DEF SendToSession
    <3> QED
      BY <2>1, <2>2, <3>1 DEF queueFrame
  <2> QED
    BY <1>6, <2>1, <2>2, SessionAssumption DEF SendToSession, ListenerTypeOK, ScenarioType
<1>7. ASSUME NEW s \in Sessions, SkipSession(s)
      PROVE  SendTypeOK'
  BY <1>7 DEF SkipSession, sessionVars
<1>8. CASE StartTick \/ StartPass \/ EndTick
  BY <1>8 DEF StartTick, StartPass, EndTick, sessionVars, ListenerTypeOK
<1>9. CASE signalWake
  <2>1. wake' \in [Sessions -> BOOLEAN]
    BY <1>9 DEF signalWake
  <2> QED
    BY <1>9, <2>1 DEF signalWake
<1>10. CASE drainMessages \/ UNCHANGED vars
  BY <1>1, <1>10 DEF drainMessages, vars, sessionVars, serverVars
<1> QED
  BY <1>1, <1>2, <1>3, <1>4, <1>5, <1>6, <1>7, <1>8, <1>9, <1>10, NextCases

LEMMA CallTypes ==
    ASSUME TypeOK, [Next]_vars
    PROVE  CallTypeOK'
<1> USE DEF TypeOK, CallTypeOK
<1>1. CASE UNCHANGED call
  BY <1>1
<1>2. ASSUME NEW s \in Sessions,
             \/ HandlerStep(s) \/ ReaderStep(s) \/ WriterStep(s) \/ CloseTransport(s)
             \/ RequestCloseWithReason(s) \/ AsyncClose(s) \/ ConnectionBreaks(s)
             \/ SpawnAvatar(s) \/ SpawnInTick(s) \/ SkipSession(s) \/ SendToSession(s)
      PROVE  UNCHANGED call
  BY <1>2 DEF HandlerStep, beginSessionHandler, Upgrade, beginAcceptedSession, Rejected,
     sendSnapshot, CloseAndReturn, addSession, Connect, ReadMessage, DeliverMessage,
     endReadPump, closeReadPump, readPumpReturns, Disconnect, removeSession, ReaderStep,
     ReadDatagram, DeliverDatagram, DatagramFails, DatagramReaderReturns, WriterStep, WriterTop,
     writeOne, WriterDrained, nextOutboundWake, WriterWakes, WriterReturns, CloseTransport,
     RequestCloseWithReason, AsyncClose, ConnectionBreaks, SpawnAvatar, SpawnInTick,
     SkipSession, SendToSession
<1>3. CASE StartTick \/ drainMessages \/ StartPass \/ signalWake \/ EndTick \/ UNCHANGED vars
  BY <1>3 DEF StartTick, drainMessages, StartPass, signalWake, EndTick, vars
<1>4. ASSUME NEW c \in Callers, CloseStep(c)
      PROVE  CallTypeOK'
  <2>1. CASE CloseSessions(c)
    BY <2>1 DEF CloseSessions, ListenerTypeOK
  <2>2. CASE CloseSessionsWaits(c)
    BY <2>2 DEF CloseSessionsWaits
  <2>3. ASSUME NEW s \in Sessions, CloseOne(c, s) \/ waitClosed(c, s)
        PROVE  CallTypeOK'
    BY <2>3 DEF CloseOne, waitClosed
  <2> QED
    BY <1>4, <2>1, <2>2, <2>3 DEF CloseStep
<1> QED
  BY <1>1, <1>2, <1>3, <1>4, NextCases

LEMMA EnqueueTypes ==
    ASSUME TypeOK, NEW k \in Kinds, NEW s \in Sessions, enqueue(k, s)
    PROVE  EventTypeOK'
<1> DEFINE m == [kind |-> k, sess |-> s]
<1>1. m \in [kind : Kinds, sess : Sessions]
  OBVIOUS
<1> HIDE DEF m
<1>2. CASE Len(msgQueue) < MsgQueueSize /\ msgQueue' = Append(msgQueue, m) /\ UNCHANGED dropped
  BY <1>1, <1>2, SessionAssumption DEF TypeOK, EventTypeOK
<1>3. CASE dropped' = dropped \cup {m} /\ UNCHANGED msgQueue
  BY <1>1, <1>3 DEF TypeOK, EventTypeOK
<1> QED
  BY <1>2, <1>3 DEF enqueue, m

LEMMA EventTypes ==
    ASSUME TypeOK, [Next]_vars
    PROVE  EventTypeOK'
<1>1. CASE UNCHANGED <<msgQueue, dropped>>
  BY <1>1 DEF TypeOK, EventTypeOK
<1>2. ASSUME NEW s \in Sessions, HandlerStep(s) \/ ReaderStep(s)
      PROVE  EventTypeOK'
  <2>1. CASE Connect(s) \/ DeliverMessage(s) \/ Disconnect(s) \/ DeliverDatagram(s)
    BY <2>1, EnqueueTypes DEF Connect, DeliverMessage, Disconnect, DeliverDatagram, Kinds
  <2> QED
    BY <1>1, <1>2, <2>1 DEF HandlerStep, beginSessionHandler, Upgrade, beginAcceptedSession,
       Rejected, sendSnapshot, CloseAndReturn, addSession, ReadMessage, endReadPump,
       closeReadPump, readPumpReturns, removeSession, ReaderStep, ReadDatagram, DatagramFails,
       DatagramReaderReturns, serverVars
<1>3. ASSUME NEW s \in Sessions,
             \/ WriterStep(s) \/ CloseTransport(s) \/ RequestCloseWithReason(s)
             \/ AsyncClose(s) \/ ConnectionBreaks(s)
             \/ SpawnAvatar(s) \/ SpawnInTick(s) \/ SkipSession(s) \/ SendToSession(s)
      PROVE  UNCHANGED <<msgQueue, dropped>>
  BY <1>3 DEF WriterStep, WriterTop, writeOne, WriterDrained,
     nextOutboundWake, WriterWakes, WriterReturns, CloseTransport, RequestCloseWithReason,
     AsyncClose, ConnectionBreaks, SpawnAvatar, SpawnInTick, SkipSession, SendToSession,
     serverVars
<1>4. ASSUME NEW c \in Callers, CloseStep(c)
      PROVE  UNCHANGED <<msgQueue, dropped>>
  BY <1>4 DEF CloseStep, CloseSessions, CloseSessionsWaits, CloseOne, waitClosed, serverVars
<1>5. CASE StartTick \/ StartPass \/ signalWake \/ EndTick \/ UNCHANGED vars
  BY <1>1, <1>5 DEF StartTick, StartPass, signalWake, EndTick, vars, serverVars
<1>6. CASE drainMessages
  BY <1>6, SessionAssumption DEF drainMessages, TypeOK, EventTypeOK
<1> QED
  BY <1>1, <1>2, <1>3, <1>4, <1>5, <1>6, NextCases

LEMMA ServerTypes ==
    ASSUME TypeOK, [Next]_vars
    PROVE  ServerTypeOK'
<1> USE DEF TypeOK, ServerTypeOK
<1>1. CASE UNCHANGED <<known, tracker, avatar, body, spawner, gone>>
  BY <1>1
<1>2. ASSUME NEW s \in Sessions, sendSnapshot(s)
      PROVE  ServerTypeOK'
  BY <1>2 DEF sendSnapshot
<1>3. ASSUME NEW s \in Sessions,
             \/ HandlerStep(s) /\ ~sendSnapshot(s)
             \/ ReaderStep(s) \/ WriterStep(s) \/ CloseTransport(s)
             \/ RequestCloseWithReason(s) \/ AsyncClose(s) \/ ConnectionBreaks(s)
      PROVE  UNCHANGED <<known, tracker, avatar, body, spawner, gone>>
  BY <1>3 DEF HandlerStep, beginSessionHandler, Upgrade, beginAcceptedSession, Rejected,
     addSession, Connect, ReadMessage, DeliverMessage, endReadPump, closeReadPump,
     readPumpReturns, Disconnect, removeSession, ReaderStep, ReadDatagram, DeliverDatagram,
     DatagramFails, DatagramReaderReturns, WriterStep, WriterTop, writeOne, WriterDrained,
     nextOutboundWake, WriterWakes, WriterReturns, CloseTransport, RequestCloseWithReason,
     AsyncClose, ConnectionBreaks, serverVars
<1>4. ASSUME NEW c \in Callers, CloseStep(c)
      PROVE  UNCHANGED <<known, tracker, avatar, body, spawner, gone>>
  BY <1>4 DEF CloseStep, CloseSessions, CloseSessionsWaits, CloseOne, waitClosed, serverVars
<1>5. CASE StartTick \/ StartPass \/ signalWake \/ EndTick \/ UNCHANGED vars
  BY <1>1, <1>5 DEF StartTick, StartPass, signalWake, EndTick, vars, serverVars
<1>6. CASE drainMessages
  <2>1. Head(msgQueue) \in [kind : Kinds, sess : Sessions]
    BY <1>6, HeadTailProperties DEF drainMessages, EventTypeOK
  <2> PICK d \in Sessions : d = Head(msgQueue).sess
    BY <2>1
  <2>2. CASE UNCHANGED <<known, tracker, avatar, body, gone>>
    BY <1>6, <2>1, <2>2 DEF drainMessages
  <2>3. CASE /\ UNCHANGED spawner /\ tracker' = tracker \ {d} /\ takeAvatar(d)
             /\ known' = known \ {d} /\ gone' = gone \cup {d}
    BY <2>3 DEF takeAvatar
  <2> QED
    BY <1>6, <2>1, <2>2, <2>3 DEF drainMessages
<1>7. ASSUME NEW s \in Sessions, SkipSession(s) \/ SendToSession(s)
      PROVE  ServerTypeOK'
  BY <1>7 DEF SkipSession, SendToSession
<1>8. ASSUME NEW s \in Sessions, SpawnInTick(s)
      PROVE  ServerTypeOK'
  BY <1>8 DEF SpawnInTick
<1>9. ASSUME NEW s \in Sessions, SpawnAvatar(s)
      PROVE  ServerTypeOK'
  BY <1>9 DEF SpawnAvatar, CheckClosing, reserveAvatarSlot, CreateBody, commitAvatar
<1> QED
  BY <1>1, <1>2, <1>3, <1>4, <1>5, <1>6, <1>7, <1>8, <1>9, NextCases

\* Every variable of the session life cycle keeps its type; in particular no
\* send channel and not the message queue exceeds its capacity.
THEOREM SessionTypes == Spec => []TypeOK
<1>1. TypeOK /\ [Next]_vars => TypeOK'
  BY PumpTypes, ListenerTypes, CloseTypes, SendTypes, CallTypes, EventTypes, ServerTypes
     DEF TypeOK
<1> QED
  BY <1>1, InitTypes, PTL DEF Spec

\* What a step can do to the close states and transports.
LEMMA CloseCases ==
    ASSUME TypeOK, [Next]_vars
    PROVE  \/ UNCHANGED <<closeState, transport>>
           \/ \E s \in Sessions : closeNow(s)
           \/ \E s \in Sessions : \E reason \in Reasons :
                 beginClose(s, reason) /\ UNCHANGED transport
           \/ \E s \in Sessions : CloseTransport(s)
<1>1. ASSUME NEW s \in Sessions, HandlerStep(s)
      PROVE  \/ UNCHANGED <<closeState, transport>> \/ closeNow(s)
             \/ beginClose(s, "") /\ UNCHANGED transport
  BY <1>1 DEF HandlerStep, beginSessionHandler, Upgrade, beginAcceptedSession, Rejected,
     sendSnapshot, CloseAndReturn, addSession, Connect, ReadMessage, DeliverMessage,
     endReadPump, closeReadPump, readPumpReturns, Disconnect, removeSession, sessionVars
<1>2. ASSUME NEW s \in Sessions, ReaderStep(s) \/ WriterStep(s)
      PROVE  UNCHANGED <<closeState, transport>> \/ closeNow(s)
  BY <1>2 DEF ReaderStep, ReadDatagram, DeliverDatagram, DatagramFails, DatagramReaderReturns,
     WriterStep, WriterTop, writeOne, WriterDrained, nextOutboundWake, WriterWakes,
     WriterReturns, sessionVars
<1>3. ASSUME NEW s \in Sessions,
             \/ RequestCloseWithReason(s) \/ AsyncClose(s) \/ ConnectionBreaks(s)
             \/ SpawnAvatar(s) \/ SpawnInTick(s) \/ SkipSession(s)
      PROVE  \/ UNCHANGED <<closeState, transport>> \/ closeNow(s)
             \/ beginClose(s, "kick") /\ UNCHANGED transport
  BY <1>3 DEF RequestCloseWithReason, AsyncClose, ConnectionBreaks, SpawnAvatar, SpawnInTick,
     SkipSession, sessionVars
<1>4. ASSUME NEW s \in Sessions, SendToSession(s)
      PROVE  \/ UNCHANGED <<closeState, transport>>
             \/ beginClose(s, "") /\ UNCHANGED transport
  BY <1>4 DEF SendToSession, queueFrame
<1>5. ASSUME NEW c \in Callers, CloseStep(c)
      PROVE  UNCHANGED <<closeState, transport>> \/ \E s \in Sessions : closeNow(s)
  BY <1>5 DEF CloseStep, CloseSessions, CloseSessionsWaits, CloseOne, waitClosed, sessionVars
<1>6. CASE StartTick \/ drainMessages \/ StartPass \/ signalWake \/ EndTick \/ UNCHANGED vars
  BY <1>6 DEF StartTick, drainMessages, StartPass, signalWake, EndTick, vars, sessionVars
<1> QED
  BY <1>1, <1>2, <1>3, <1>4, <1>5, <1>6, NextCases DEF Reasons

\* The effect on any one session.
LEMMA CloseEffects ==
    ASSUME TypeOK, [Next]_vars, NEW s \in Sessions
    PROVE  /\ IsClosing(s) => closeState'[s] = closeState[s]
           /\ transport[s] = "closed" => transport'[s] = "closed"
           /\ transport[s] = "open" /\ transport'[s] # "open" => closeState'[s] # "open"
<1> USE DEF TypeOK, CloseTypeOK, IsClosing
<1>1. CASE UNCHANGED <<closeState, transport>>
  BY <1>1
<1>2. ASSUME NEW r \in Sessions, closeNow(r)
      PROVE  /\ IsClosing(s) => closeState'[s] = closeState[s]
             /\ transport[s] = "closed" => transport'[s] = "closed"
             /\ transport[s] = "open" /\ transport'[s] # "open" => closeState'[s] # "open"
  BY <1>2 DEF closeNow, beginClose
<1>3. ASSUME NEW r \in Sessions, NEW reason \in Reasons, beginClose(r, reason),
             UNCHANGED transport
      PROVE  /\ IsClosing(s) => closeState'[s] = closeState[s]
             /\ UNCHANGED transport
  BY <1>3 DEF beginClose
<1>4. ASSUME NEW r \in Sessions, CloseTransport(r)
      PROVE  /\ UNCHANGED closeState
             /\ transport'[s] = transport[s] \/ transport[s] = "closing"
  BY <1>4 DEF CloseTransport
<1> QED
  BY <1>1, <1>2, <1>3, <1>4, CloseCases

\* Session.closeState is written once: whoever closes a session first decides
\* the reason, later requests change nothing, and a transport is only ever
\* closed for a session that is marked as closing.
THEOREM CloseOnce == Spec => CloseIsFinal
<1>1. TypeOK /\ [Next]_vars =>
        [\A s \in Sessions :
            /\ IsClosing(s) => closeState'[s] = closeState[s]
            /\ transport[s] = "closed" => transport'[s] = "closed"
            /\ transport[s] = "open" /\ transport'[s] # "open" => closeState'[s] # "open"]_vars
  BY CloseEffects
<1> QED
  BY <1>1, SessionTypes, PTL DEF Spec, CloseIsFinal

-----------------------------------------------------------------------------
(***************************************************************************)
(* Closing and shutting down.  ShutdownIsComplete is not inductive: that   *)
(* CloseSessions leaves nothing behind when it returns depends on how the  *)
(* listener's tables, the goroutines of a session and its close state      *)
(* belong together at every point of a session's life, and on a handler    *)
(* being counted only while closing is false.                              *)
(***************************************************************************)
Unadmitted == {"idle", "refused", "upgrading", "accepted"}

\* A call of CloseSessions still waits for the transport to be closed.
Awaited(s) == \E c \in Callers : call[c].at = "sessions" /\ s \in call[c].wait

\* The handler will not look after the transport, or no longer.
Settling(s) ==
    \/ handler[s] \in {"snapshot", "adding"} /\ IsClosing(s)
    \/ handler[s] = "returning"
    \/ handler[s] = "done" /\ (IsClosing(s) \/ writer[s] # "off")

\* A session that was never admitted has nothing that could close it, one that is
\* set up nothing but CloseSessions, and one whose handler is done is closed, or
\* about to be, if it ever was announced or asked to close.
LifeOf(s) ==
    /\ transport[s] # "open" => IsClosing(s)
    /\ async[s] => IsClosing(s)
    /\ handler[s] \in Unadmitted => ~IsClosing(s)
    /\ handler[s] \in {"disconnecting", "removing"} => transport[s] = "closed"
    /\ handler[s] \in {"snapshot", "adding", "returning"} => ~async[s]
    /\ handler[s] = "done" /\ writer[s] # "off" => IsClosing(s)
    /\ Settling(s) => transport[s] = "closed" \/ Awaited(s)

\* Where the handler of a session is, given what else of it exists.
PlaceOf(s) ==
    /\ s \in pending => handler[s] \in {"snapshot", "adding", "failing", "returning"}
    /\ s \in sessions => handler[s] \in {"connecting", "reading", "delivering", "cancelled",
                                        "ending", "disconnecting", "removing"}
    /\ writer[s] # "off" => handler[s] \in {"reading", "delivering", "cancelled", "ending",
                                           "disconnecting", "removing", "done"}
    /\ handler[s] \in {"reading", "delivering", "cancelled", "ending", "disconnecting",
                       "removing"}
          => writer[s] # "off"
    /\ dreader[s] \notin {"off", "exited"}
          => handler[s] \in {"reading", "delivering", "cancelled", "ending"}
    /\ spawner[s] # "none" => writer[s] # "off"

\* CloseSessions waits for admitted sessions, and after it returned no handler runs.
CallInv ==
    \A c \in Callers :
       /\ call[c].at # "off" => closing
       /\ call[c].at = "returned" => \A s \in Sessions : handler[s] \in Inactive
       /\ \A s \in call[c].wait : handler[s] \notin Unadmitted

\* Events come from sessions that were announced.
EventInv == \A i \in 1..Len(msgQueue) : writer[msgQueue[i].sess] # "off"

ShutdownInv == (\A s \in Sessions : LifeOf(s) /\ PlaceOf(s)) /\ CallInv /\ EventInv

\* The event drainMessages takes is one of an announced session.
LEMMA HeadEvent ==
    ASSUME TypeOK, EventInv, msgQueue # <<>>
    PROVE  /\ Head(msgQueue).sess \in Sessions
           /\ writer[Head(msgQueue).sess] # "off"
<1>1. Head(msgQueue) \in [kind : Kinds, sess : Sessions]
  BY HeadTailProperties DEF TypeOK, EventTypeOK
<1>2. 1 \in 1..Len(msgQueue) /\ Head(msgQueue) = msgQueue[1]
  BY DEF TypeOK, EventTypeOK
<1> QED
  BY <1>1, <1>2 DEF EventInv

LEMMA PlaceStep ==
    ASSUME TypeOK, ShutdownInv, [Next]_vars, NEW s \in Sessions
    PROVE  PlaceOf(s)'
<1> USE DEF TypeOK, PumpTypeOK, ListenerTypeOK, ServerTypeOK, Handlers, PlaceOf, ShutdownInv
<1>1. CASE UNCHANGED <<pending, sessions, handler, writer, dreader, spawner>>
  BY <1>1
<1>2. ASSUME NEW r \in Sessions, HandlerStep(r)
      PROVE  PlaceOf(s)'
  <2>1. UNCHANGED spawner
    BY <1>2 DEF HandlerStep, beginSessionHandler, Upgrade, beginAcceptedSession, Rejected,
       sendSnapshot, CloseAndReturn, addSession, Connect, ReadMessage, DeliverMessage,
       endReadPump, closeReadPump, readPumpReturns, Disconnect, removeSession, serverVars
  <2>2. CASE beginSessionHandler(r) \/ Upgrade(r) \/ Rejected(r)
    BY <2>1, <2>2 DEF beginSessionHandler, Upgrade, Rejected, Goto, listenerVars
  <2>3. CASE beginAcceptedSession(r) \/ sendSnapshot(r) \/ addSession(r)
    BY <2>1, <2>3 DEF beginAcceptedSession, sendSnapshot, CloseAndReturn, addSession, Goto,
       listenerVars
  <2>4. CASE Connect(r)
    BY <2>1, <2>4 DEF Connect, Goto, listenerVars
  <2>5. CASE ReadMessage(r) \/ DeliverMessage(r) \/ endReadPump(r) \/ closeReadPump(r)
    BY <2>1, <2>5 DEF ReadMessage, DeliverMessage, endReadPump, closeReadPump, ClientCloses,
       Goto, listenerVars
  <2>6. CASE readPumpReturns(r)
    BY <2>1, <2>6 DEF readPumpReturns, Goto, listenerVars
  <2>7. CASE Disconnect(r)
    BY <2>1, <2>7 DEF Disconnect, Goto, listenerVars
  <2>8. CASE removeSession(r)
    BY <2>1, <2>8 DEF removeSession, Goto, listenerVars
  <2> QED
    BY <1>2, <2>2, <2>3, <2>4, <2>5, <2>6, <2>7, <2>8 DEF HandlerStep
<1>3. ASSUME NEW r \in Sessions, ReaderStep(r)
      PROVE  PlaceOf(s)'
  BY <1>3 DEF ReaderStep, ReadDatagram, DeliverDatagram, DatagramFails, DatagramReaderReturns,
     listenerVars, serverVars
<1>4. ASSUME NEW r \in Sessions, WriterStep(r)
      PROVE  PlaceOf(s)'
  BY <1>4 DEF WriterStep, WriterTop, writeOne, WriterDrained, nextOutboundWake, WriterWakes,
     WriterReturns, Write, listenerVars, serverVars
<1>5. ASSUME NEW r \in Sessions,
             \/ CloseTransport(r) \/ RequestCloseWithReason(r) \/ AsyncClose(r)
             \/ ConnectionBreaks(r) \/ SkipSession(r) \/ SendToSession(r)
      PROVE  PlaceOf(s)'
  BY <1>1, <1>5 DEF CloseTransport, RequestCloseWithReason, AsyncClose, ConnectionBreaks,
     SkipSession, SendToSession, listenerVars, pumpVars, serverVars
<1>6. ASSUME NEW r \in Sessions, SpawnAvatar(r) \/ SpawnInTick(r)
      PROVE  PlaceOf(s)'
  BY <1>6 DEF SpawnAvatar, SpawnInTick, CheckClosing, reserveAvatarSlot, CreateBody,
     commitAvatar, listenerVars, pumpVars
<1>7. ASSUME NEW c \in Callers, CloseStep(c)
      PROVE  PlaceOf(s)'
  BY <1>1, <1>7 DEF CloseStep, CloseSessions, CloseSessionsWaits, CloseOne, waitClosed,
     listenerVars, pumpVars, serverVars
<1>8. CASE drainMessages
  <2>1. PICK d \in Sessions : d = Head(msgQueue).sess /\ writer[d] # "off"
    BY <1>8, HeadEvent DEF drainMessages
  <2>2. \A x \in Sessions \ {d} : spawner'[x] = spawner[x]
    BY <1>8, <2>1 DEF drainMessages
  <2> QED
    BY <1>8, <2>1, <2>2 DEF drainMessages, listenerVars, pumpVars
<1>9. CASE StartTick \/ StartPass \/ signalWake \/ EndTick \/ UNCHANGED vars
  BY <1>1, <1>9 DEF StartTick, StartPass, signalWake, EndTick, vars, listenerVars, pumpVars,
     serverVars
<1> QED
  BY <1>2, <1>3, <1>4, <1>5, <1>6, <1>7, <1>8, <1>9, NextCases

\* A call of CloseSessions goes on waiting until the transport is closed.
LEMMA AwaitedStays ==
    ASSUME TypeOK, [Next]_vars, NEW s \in Sessions, transport[s] = "closed" \/ Awaited(s)
    PROVE  transport'[s] = "closed" \/ Awaited(s)'
<1>1. CASE transport[s] = "closed"
  BY <1>1, CloseEffects
<1>2. CASE Awaited(s)
  <2>1. PICK c \in Callers : call[c].at = "sessions" /\ s \in call[c].wait
    BY <1>2 DEF Awaited
  <2>2. call \in [Callers -> [at : {"off", "sessions", "handlers", "returned"},
                              wait : SUBSET Sessions]]
    BY DEF TypeOK, CallTypeOK
  <2>3. CASE UNCHANGED call
    BY <2>1, <2>3 DEF Awaited
  <2>4. ASSUME NEW d \in Callers, CloseSessions(d) \/ CloseSessionsWaits(d)
        PROVE  Awaited(s)'
    <3>1. d # c
      BY <2>1, <2>4 DEF CloseSessions, CloseSessionsWaits
    <3>2. \E v : call' = [call EXCEPT ![d] = v]
      <4>1. CASE CloseSessions(d)
        BY <4>1 DEF CloseSessions
      <4>2. CASE CloseSessionsWaits(d)
        BY <2>2, <4>2 DEF CloseSessionsWaits
      <4> QED
        BY <2>4, <4>1, <4>2
    <3>3. call'[c] = call[c]
      BY <2>2, <3>1, <3>2
    <3> QED
      BY <2>1, <3>3 DEF Awaited
  <2>5. ASSUME NEW d \in Callers, NEW r \in Sessions, waitClosed(d, r)
        PROVE  transport'[s] = "closed" \/ Awaited(s)'
    <3>1. CASE r = s
      BY <1>1, <2>5, <3>1 DEF waitClosed, sessionVars
    <3>2. CASE r # s
      <4>1. call'[c].at = "sessions" /\ s \in call'[c].wait
        BY <2>1, <2>2, <2>5, <3>2 DEF waitClosed
      <4> QED
        BY <4>1 DEF Awaited
    <3> QED
      BY <3>1, <3>2
  <2>6. ASSUME NEW d \in Callers, NEW r \in Sessions, CloseOne(d, r)
        PROVE  UNCHANGED call
    BY <2>6 DEF CloseOne
  <2>7. ASSUME NEW r \in Sessions,
               \/ HandlerStep(r) \/ ReaderStep(r) \/ WriterStep(r) \/ CloseTransport(r)
               \/ RequestCloseWithReason(r) \/ AsyncClose(r) \/ ConnectionBreaks(r)
               \/ SpawnAvatar(r) \/ SpawnInTick(r) \/ SkipSession(r) \/ SendToSession(r)
        PROVE  UNCHANGED call
    BY <2>7 DEF HandlerStep, beginSessionHandler, Upgrade, beginAcceptedSession, Rejected,
       sendSnapshot, addSession, Connect, ReadMessage, DeliverMessage, endReadPump,
       closeReadPump, readPumpReturns, Disconnect, removeSession, ReaderStep, ReadDatagram,
       DeliverDatagram, DatagramFails, DatagramReaderReturns, WriterStep, WriterTop, writeOne,
       WriterDrained, nextOutboundWake, WriterWakes, WriterReturns, CloseTransport,
       RequestCloseWithReason, AsyncClose, ConnectionBreaks, SpawnAvatar, SpawnInTick,
       SkipSession, SendToSession
  <2>8. CASE StartTick \/ drainMessages \/ StartPass \/ signalWake \/ EndTick \/ UNCHANGED vars
    BY <2>3, <2>8 DEF StartTick, drainMessages, StartPass, signalWake, EndTick, vars
  <2> QED
    BY <2>3, <2>4, <2>5, <2>6, <2>7, <2>8, NextCases DEF CloseStep
<1> QED
  BY <1>1, <1>2

\* A close request for a session that is not admitted, that is set up, or that is
\* done, would have to come from somewhere.
LEMMA LifeStep ==
    ASSUME TypeOK, ShutdownInv, [Next]_vars, NEW s \in Sessions
    PROVE  LifeOf(s)'
<1>0. /\ handler \in [Sessions -> Handlers] /\ DOMAIN writer = Sessions
      /\ closeState \in [Sessions -> Reasons \cup {"open"}] /\ DOMAIN transport = Sessions
      /\ DOMAIN async = Sessions
      /\ LifeOf(s) /\ PlaceOf(s)
      /\ transport[s] = "closed" \/ Awaited(s) => transport'[s] = "closed" \/ Awaited(s)'
  BY AwaitedStays DEF TypeOK, PumpTypeOK, CloseTypeOK, ShutdownInv
<1> USE <1>0 DEF LifeOf, Settling, IsClosing, Unadmitted
<1>1. CASE UNCHANGED <<closeState, transport, async, handler, writer>>
  BY <1>1
<1>2. ASSUME NEW r \in Sessions, HandlerStep(r)
      PROVE  LifeOf(s)'
  <2>1. CASE beginSessionHandler(r) \/ Upgrade(r) \/ Rejected(r)
    BY <2>1 DEF PlaceOf, beginSessionHandler, Upgrade, Rejected, Goto, sessionVars
  <2>2. CASE beginAcceptedSession(r)
    BY <2>2 DEF PlaceOf, beginAcceptedSession, Goto, closeNow, beginClose
  <2>3. CASE sendSnapshot(r) \/ addSession(r)
    <3>1. /\ handler[r] \in {"snapshot", "adding"}
          /\ UNCHANGED <<writer, async>>
          /\ \/ CloseAndReturn(r)
             \/ /\ UNCHANGED <<closeState, transport>>
                /\ \E pc \in {"adding", "connecting"} : handler' = [handler EXCEPT ![r] = pc]
      BY <2>3 DEF sendSnapshot, addSession, Goto
    <3>2. CASE IsClosing(r) /\ CloseAndReturn(r)
      <4>1. handler' = [handler EXCEPT ![r] = "returning"] /\ UNCHANGED <<closeState, transport>>
        BY <3>2, Zenon DEF CloseAndReturn, Goto
      <4> QED
        BY <3>1, <3>2, <4>1 DEF PlaceOf
    <3>3. CASE ~IsClosing(r) /\ CloseAndReturn(r)
      <4>1. handler' = [handler EXCEPT ![r] = "failing"] /\ closeNow(r)
        BY <3>3, Zenon DEF CloseAndReturn, Goto
      <4> QED
        BY <3>1, <4>1 DEF PlaceOf, closeNow, beginClose
    <3>4. CASE ~CloseAndReturn(r)
      BY <3>1, <3>4 DEF PlaceOf
    <3> QED
      BY <3>2, <3>3, <3>4
  <2>5. CASE Connect(r) \/ ReadMessage(r) \/ DeliverMessage(r)
    BY <2>5 DEF PlaceOf, Connect, ReadMessage, DeliverMessage, Goto, sessionVars
  <2>6. CASE endReadPump(r) \/ closeReadPump(r)
    BY <2>6 DEF PlaceOf, endReadPump, closeReadPump, ClientCloses, Goto, closeNow, beginClose,
       sessionVars
  <2>7. CASE readPumpReturns(r) \/ Disconnect(r)
    BY <2>7 DEF PlaceOf, readPumpReturns, Disconnect, Goto, sessionVars
  <2>8. CASE removeSession(r)
    <3>1. /\ handler[r] \in {"removing", "returning"} \/ transport[r] = "closed"
          /\ handler' = [handler EXCEPT ![r] = "done"] /\ beginClose(r, "")
          /\ UNCHANGED <<writer, transport, async>>
      BY <2>8 DEF removeSession, Goto
    <3>2. CASE r = s
      <4>0. transport[s] = "closed" \/ Awaited(s)
        BY <3>1, <3>2
      <4>1. transport'[s] = "closed" \/ Awaited(s)'
        BY <4>0, <1>0
      <4>2. IsClosing(s)'
        BY <3>1, <3>2 DEF beginClose, Reasons
      <4> QED
        BY <3>1, <3>2, <4>1, <4>2
    <3>3. CASE r # s
      BY <3>1, <3>3 DEF beginClose
    <3> QED
      BY <3>2, <3>3
  <2> QED
    BY <1>2, <2>1, <2>2, <2>3, <2>5, <2>6, <2>7, <2>8 DEF HandlerStep
<1>3. ASSUME NEW r \in Sessions, ReaderStep(r)
      PROVE  LifeOf(s)'
  <2>1. CASE DatagramFails(r)
    BY <2>1 DEF PlaceOf, DatagramFails, closeNow, beginClose
  <2> QED
    BY <1>1, <1>3, <2>1 DEF ReaderStep, ReadDatagram, DeliverDatagram, DatagramReaderReturns,
       sessionVars
<1>4. ASSUME NEW r \in Sessions, WriterStep(r)
      PROVE  LifeOf(s)'
  <2>1. writer[r] # "off" /\ \A x \in Sessions : writer'[x] = "off" <=> writer[x] = "off"
    BY <1>4 DEF WriterStep, WriterTop, writeOne, WriterDrained, nextOutboundWake, WriterWakes,
       WriterReturns, Write
  <2>2. UNCHANGED <<handler, async>> /\ (UNCHANGED <<closeState, transport>> \/ closeNow(r))
    BY <1>4 DEF WriterStep, WriterTop, writeOne, WriterDrained, nextOutboundWake, WriterWakes,
       WriterReturns, sessionVars
  <2> QED
    BY <2>1, <2>2 DEF PlaceOf, closeNow, beginClose
<1>5. ASSUME NEW r \in Sessions,
             \/ CloseTransport(r) \/ RequestCloseWithReason(r) \/ AsyncClose(r)
             \/ ConnectionBreaks(r)
      PROVE  LifeOf(s)'
  <2>1. CASE CloseTransport(r)
    BY <2>1 DEF CloseTransport, pumpVars
  <2>2. CASE RequestCloseWithReason(r)
    BY <2>2 DEF PlaceOf, RequestCloseWithReason, beginClose, pumpVars
  <2>3. CASE AsyncClose(r)
    BY <2>3 DEF AsyncClose, closeNow, beginClose, pumpVars
  <2>4. CASE ConnectionBreaks(r)
    BY <1>1, <2>4 DEF ConnectionBreaks, pumpVars
  <2> QED
    BY <1>5, <2>1, <2>2, <2>3, <2>4
<1>6. ASSUME NEW r \in Sessions, SendToSession(r)
      PROVE  LifeOf(s)'
  <2>1. r \in sessions /\ UNCHANGED <<transport, pumpVars>>
    BY <1>6 DEF SendToSession, Connected
  <2>2. \/ UNCHANGED <<closeState, async>>
        \/ beginClose(r, "") /\ async' = [async EXCEPT ![r] = TRUE]
    BY <1>6 DEF SendToSession, queueFrame
  <2> QED
    BY <2>1, <2>2 DEF PlaceOf, beginClose, pumpVars
<1>7. ASSUME NEW r \in Sessions, SpawnAvatar(r) \/ SpawnInTick(r) \/ SkipSession(r)
      PROVE  LifeOf(s)'
  BY <1>1, <1>7 DEF SpawnAvatar, SpawnInTick, SkipSession, sessionVars, pumpVars
<1>8. ASSUME NEW c \in Callers, CloseStep(c)
      PROVE  LifeOf(s)'
  <2>1. ASSUME NEW r \in Sessions, CloseOne(c, r)
        PROVE  LifeOf(s)'
    <3>1. r = s => Awaited(s)
      BY <2>1 DEF CloseOne, Awaited
    <3> QED
      BY <2>1, <3>1 DEF PlaceOf, CloseOne, ShutdownInv, CallInv, closeNow, beginClose, pumpVars
  <2> QED
    BY <1>1, <1>8, <2>1 DEF CloseStep, CloseSessions, CloseSessionsWaits, waitClosed,
       sessionVars, pumpVars
<1>9. CASE StartTick \/ drainMessages \/ StartPass \/ signalWake \/ EndTick \/ UNCHANGED vars
  BY <1>1, <1>9 DEF StartTick, drainMessages, StartPass, signalWake, EndTick, vars,
     sessionVars, pumpVars
<1> QED
  BY <1>2, <1>3, <1>4, <1>5, <1>6, <1>7, <1>8, <1>9, NextCases

LEMMA EventSessions ==
    ASSUME TypeOK
    PROVE  \A i \in 1..Len(msgQueue) : msgQueue[i].sess \in Sessions
<1>1. \A i \in 1..Len(msgQueue) : msgQueue[i] \in [kind : Kinds, sess : Sessions]
  BY ElementOfSeq DEF TypeOK, EventTypeOK
<1> QED
  BY <1>1

\* The messages of the queue after an enqueue.
LEMMA EnqueueEvents ==
    ASSUME TypeOK, EventInv, NEW k \in Kinds, NEW s \in Sessions, enqueue(k, s),
           writer'[s] # "off", \A x \in Sessions : writer[x] # "off" => writer'[x] # "off"
    PROVE  EventInv'
<1>1. \A i \in 1..Len(msgQueue) : msgQueue[i].sess \in Sessions
  BY EventSessions
<1> DEFINE m == [kind |-> k, sess |-> s]
<1>2. m \in [kind : Kinds, sess : Sessions] /\ m.sess = s
  OBVIOUS
<1>3. msgQueue \in Seq([kind : Kinds, sess : Sessions])
  BY DEF TypeOK, EventTypeOK
<1>4. msgQueue' = Append(msgQueue, m) \/ UNCHANGED msgQueue
  BY DEF enqueue
<1> HIDE DEF m
<1>5. CASE UNCHANGED msgQueue
  BY <1>1, <1>5 DEF EventInv
<1>6. CASE msgQueue' = Append(msgQueue, m)
  <2>1. /\ Len(msgQueue') = Len(msgQueue) + 1
        /\ \A i \in 1..Len(msgQueue) : msgQueue'[i] = msgQueue[i]
        /\ msgQueue'[Len(msgQueue) + 1] = m
    BY <1>2, <1>3, <1>6, AppendProperties
  <2>2. Len(msgQueue) \in Nat
    BY <1>3
  <2>3. ASSUME NEW i \in 1..Len(msgQueue')
        PROVE  writer'[msgQueue'[i].sess] # "off"
    <3>1. i \in 1..Len(msgQueue) \/ i = Len(msgQueue) + 1
      BY <2>1, <2>2
    <3> QED
      BY <1>1, <1>2, <2>1, <3>1 DEF EventInv
  <2> QED
    BY <2>3 DEF EventInv
<1> QED
  BY <1>4, <1>5, <1>6

LEMMA EventStep ==
    ASSUME TypeOK, ShutdownInv, [Next]_vars
    PROVE  EventInv'
<1>0. /\ \A i \in 1..Len(msgQueue) : msgQueue[i].sess \in Sessions
      /\ DOMAIN writer = Sessions /\ EventInv
  BY EventSessions DEF TypeOK, PumpTypeOK, ShutdownInv
<1>1. ASSUME UNCHANGED msgQueue, \A x \in Sessions : writer[x] # "off" => writer'[x] # "off"
      PROVE  EventInv'
  BY <1>0, <1>1 DEF EventInv
<1>2. ASSUME NEW r \in Sessions, HandlerStep(r)
      PROVE  EventInv'
  <2>1. CASE Connect(r)
    <3>1. writer'[r] # "off" /\ \A x \in Sessions : writer[x] # "off" => writer'[x] # "off"
      BY <1>0, <2>1 DEF Connect
    <3> QED
      BY <1>0, <2>1, <3>1, EnqueueEvents DEF Connect, Kinds
  <2>2. CASE DeliverMessage(r) \/ Disconnect(r)
    <3>1. UNCHANGED writer
      BY <2>2 DEF DeliverMessage, Disconnect
    <3>2. writer[r] # "off"
      BY <2>2 DEF DeliverMessage, Disconnect, ShutdownInv, PlaceOf
    <3> QED
      BY <1>0, <2>2, <3>1, <3>2, EnqueueEvents DEF DeliverMessage, Disconnect, Kinds
  <2> QED
    BY <1>1, <1>2, <2>1, <2>2 DEF HandlerStep, beginSessionHandler, Upgrade,
       beginAcceptedSession, Rejected, sendSnapshot, CloseAndReturn, addSession, ReadMessage,
       endReadPump, closeReadPump, readPumpReturns, removeSession, serverVars
<1>3. ASSUME NEW r \in Sessions, ReaderStep(r)
      PROVE  EventInv'
  <2>1. CASE DeliverDatagram(r)
    <3>1. UNCHANGED writer
      BY <2>1 DEF DeliverDatagram
    <3>2. writer[r] # "off"
      BY <2>1 DEF DeliverDatagram, ShutdownInv, PlaceOf
    <3> QED
      BY <1>0, <2>1, <3>1, <3>2, EnqueueEvents DEF DeliverDatagram, Kinds
  <2> QED
    BY <1>1, <1>3, <2>1 DEF ReaderStep, ReadDatagram, DatagramFails, DatagramReaderReturns,
       serverVars
<1>4. ASSUME NEW r \in Sessions, WriterStep(r)
      PROVE  EventInv'
  <2>1. UNCHANGED msgQueue /\ \A x \in Sessions : writer[x] # "off" => writer'[x] # "off"
    BY <1>0, <1>4 DEF WriterStep, WriterTop, writeOne, WriterDrained, nextOutboundWake,
       WriterWakes, WriterReturns, Write, serverVars
  <2> QED
    BY <1>1, <2>1
<1>5. ASSUME NEW r \in Sessions,
             \/ CloseTransport(r) \/ RequestCloseWithReason(r) \/ AsyncClose(r)
             \/ ConnectionBreaks(r) \/ SpawnAvatar(r) \/ SpawnInTick(r)
             \/ SkipSession(r) \/ SendToSession(r)
      PROVE  UNCHANGED <<msgQueue, writer>>
  BY <1>5 DEF CloseTransport, RequestCloseWithReason, AsyncClose, ConnectionBreaks, SpawnAvatar,
     SpawnInTick, SkipSession, SendToSession, pumpVars, serverVars
<1>6. ASSUME NEW c \in Callers, CloseStep(c)
      PROVE  UNCHANGED <<msgQueue, writer>>
  BY <1>6 DEF CloseStep, CloseSessions, CloseSessionsWaits, CloseOne, waitClosed, pumpVars,
     serverVars
<1>7. CASE drainMessages
  <2>1. msgQueue \in Seq([kind : Kinds, sess : Sessions]) /\ msgQueue # <<>>
    BY <1>7 DEF drainMessages, TypeOK, EventTypeOK
  <2>2. msgQueue' = Tail(msgQueue) /\ UNCHANGED writer
    BY <1>7 DEF drainMessages, pumpVars
  <2>3. /\ Len(Tail(msgQueue)) = Len(msgQueue) - 1 /\ Len(msgQueue) \in Nat
        /\ \A i \in 1..Len(Tail(msgQueue)) : Tail(msgQueue)[i] = msgQueue[i + 1]
    BY <2>1, HeadTailProperties
  <2> QED
    BY <1>0, <2>2, <2>3 DEF EventInv
<1>8. CASE StartTick \/ StartPass \/ signalWake \/ EndTick \/ UNCHANGED vars
  BY <1>1, <1>8 DEF StartTick, StartPass, signalWake, EndTick, vars, pumpVars, serverVars
<1> QED
  BY <1>1, <1>2, <1>3, <1>4, <1>5, <1>6, <1>7, <1>8, NextCases

\* Once closing is set no handler becomes active, an admitted session stays
\* admitted, and a closed transport stays closed.
LEMMA CallStep ==
    ASSUME TypeOK, ShutdownInv, [Next]_vars
    PROVE  CallInv'
<1>0. /\ DOMAIN handler = Sessions /\ CallInv
      /\ call \in [Callers -> [at : {"off", "sessions", "handlers", "returned"},
                              wait : SUBSET Sessions]]
      /\ pending \subseteq Sessions /\ sessions \subseteq Sessions
  BY DEF TypeOK, PumpTypeOK, CallTypeOK, ListenerTypeOK, ShutdownInv
<1>2. ASSUME UNCHANGED <<call, closing>>,
             \A s \in Sessions :
                /\ closing /\ handler[s] \in Inactive => handler'[s] \in Inactive
                /\ handler[s] \notin Unadmitted => handler'[s] \notin Unadmitted
      PROVE  CallInv'
  <2> SUFFICES ASSUME NEW c \in Callers
               PROVE  /\ call'[c].at # "off" => closing'
                      /\ call'[c].at = "returned" =>
                            \A s \in Sessions : handler'[s] \in Inactive
                      /\ \A s \in call'[c].wait : handler'[s] \notin Unadmitted
    BY DEF CallInv, Inactive, Unadmitted
  <2>1. call'[c] = call[c] /\ call[c].wait \subseteq Sessions
    BY <1>0, <1>2
  <2>2. \A s \in call[c].wait : handler[s] \notin Unadmitted
    BY <1>0 DEF CallInv
  <2>3. call[c].at # "off" => closing
    BY <1>0 DEF CallInv
  <2>4. call[c].at = "returned" => \A s \in Sessions : handler[s] \in Inactive
    BY <1>0 DEF CallInv
  <2> QED
    BY <1>2, <2>1, <2>2, <2>3, <2>4
<1>3. CASE UNCHANGED <<call, closing, handler>>
  BY <1>2, <1>3
<1>4. ASSUME NEW r \in Sessions, HandlerStep(r)
      PROVE  CallInv'
  <2>1. UNCHANGED <<call, closing>>
    BY <1>4 DEF HandlerStep, beginSessionHandler, Upgrade, beginAcceptedSession, Rejected,
       sendSnapshot, CloseAndReturn, addSession, Connect, ReadMessage, DeliverMessage,
       endReadPump, closeReadPump, readPumpReturns, Disconnect, removeSession, listenerVars
  <2>2. \A s \in Sessions \ {r} : handler'[s] = handler[s]
    BY <1>0, <1>4 DEF HandlerStep, beginSessionHandler, Upgrade, beginAcceptedSession, Rejected,
       sendSnapshot, CloseAndReturn, addSession, Connect, ReadMessage, DeliverMessage,
       endReadPump, closeReadPump, readPumpReturns, Disconnect, removeSession, Goto
  <2>3. /\ closing /\ handler[r] \in Inactive => handler'[r] \in Inactive
        /\ handler[r] \notin Unadmitted => handler'[r] \notin Unadmitted
    BY <1>0, <1>4 DEF HandlerStep, beginSessionHandler, Upgrade, beginAcceptedSession,
       Rejected, sendSnapshot, CloseAndReturn, addSession, Connect, ReadMessage, DeliverMessage,
       endReadPump, closeReadPump, ClientCloses, readPumpReturns, Disconnect, removeSession, Goto,
       Inactive, Unadmitted
  <2> QED
    BY <1>2, <2>1, <2>2, <2>3
<1>5. ASSUME NEW r \in Sessions,
             \/ ReaderStep(r) \/ WriterStep(r) \/ CloseTransport(r)
             \/ RequestCloseWithReason(r) \/ AsyncClose(r) \/ ConnectionBreaks(r)
             \/ SpawnAvatar(r) \/ SpawnInTick(r) \/ SkipSession(r) \/ SendToSession(r)
      PROVE  UNCHANGED <<call, closing, handler>>
  BY <1>5 DEF ReaderStep, ReadDatagram, DeliverDatagram, DatagramFails, DatagramReaderReturns,
     WriterStep, WriterTop, writeOne, WriterDrained, nextOutboundWake, WriterWakes,
     WriterReturns, CloseTransport, RequestCloseWithReason, AsyncClose, ConnectionBreaks,
     SpawnAvatar, SpawnInTick, SkipSession, SendToSession, listenerVars, pumpVars
<1>6. CASE StartTick \/ drainMessages \/ StartPass \/ signalWake \/ EndTick \/ UNCHANGED vars
  BY <1>3, <1>6 DEF StartTick, drainMessages, StartPass, signalWake, EndTick, vars,
     listenerVars, pumpVars
<1>7. ASSUME NEW c \in Callers, CloseSessions(c)
      PROVE  CallInv'
  <2>1. /\ call' = [call EXCEPT ![c] = [at |-> "sessions", wait |-> sessions \cup pending]]
        /\ closing' /\ UNCHANGED <<handler, transport>>
    BY <1>7 DEF CloseSessions, pumpVars, sessionVars
  <2>2. \A s \in sessions \cup pending : handler[s] \notin Unadmitted /\ handler[s] # "done"
    BY <1>0 DEF ShutdownInv, PlaceOf, Unadmitted
  <2> QED
    BY <1>0, <2>1, <2>2 DEF CallInv
<1>8. ASSUME NEW c \in Callers, CloseSessionsWaits(c)
      PROVE  CallInv'
  <2>1. UNCHANGED <<closing, handler, transport>>
    BY <1>8 DEF CloseSessionsWaits, listenerVars, pumpVars, sessionVars
  <2>2. \E a \in {"handlers", "returned"} :
           /\ call[c].at # "off" /\ call' = [call EXCEPT ![c].at = a]
           /\ a = "returned" => \A s \in Sessions : handler[s] \in Inactive
    BY <1>8 DEF CloseSessionsWaits
  <2> QED
    BY <1>0, <2>1, <2>2 DEF CallInv
<1>9. ASSUME NEW c \in Callers, NEW s \in Sessions, CloseOne(c, s) \/ waitClosed(c, s)
      PROVE  CallInv'
  <2>1. CASE CloseOne(c, s)
    BY <1>3, <2>1 DEF CloseOne, listenerVars, pumpVars
  <2>2. CASE waitClosed(c, s)
    <3>1. /\ UNCHANGED <<closing, handler, transport>>
          /\ call' = [call EXCEPT ![c].wait = @ \ {s}]
      BY <2>2 DEF waitClosed, listenerVars, pumpVars, sessionVars
    <3> QED
      BY <1>0, <3>1 DEF CallInv
  <2> QED
    BY <1>9, <2>1, <2>2
<1> QED
  BY <1>3, <1>4, <1>5, <1>6, <1>7, <1>8, <1>9, NextCases DEF CloseStep

LEMMA InitShutdown == Init => ShutdownInv
  BY DEF Init, ShutdownInv, LifeOf, Settling, PlaceOf, CallInv, EventInv, IsClosing, Unadmitted

\* ShutdownInv holds in every reachable state.
LEMMA ShutdownInvariant == Spec => []ShutdownInv
<1>1. TypeOK /\ ShutdownInv /\ [Next]_vars => ShutdownInv'
  <2> SUFFICES ASSUME TypeOK, ShutdownInv, [Next]_vars
               PROVE  ShutdownInv'
    OBVIOUS
  <2>1. \A s \in Sessions : LifeOf(s)' /\ PlaceOf(s)'
    BY LifeStep, PlaceStep
  <2> QED
    BY <2>1, CallStep, EventStep DEF ShutdownInv
<1> QED
  BY <1>1, InitShutdown, SessionTypes, PTL DEF Spec

\* When a call of CloseSessions returns, and from then on, the listener knows no
\* session, no handler and no datagram reader runs, and the transport of every
\* session that was asked to close is closed or another call still waits for it,
\* however many sessions were connecting, reading or closing and however many
\* calls there were.
THEOREM ShutdownComplete == Spec => []ShutdownIsComplete
<1>1. TypeOK /\ ShutdownInv => ShutdownIsComplete
  <2> SUFFICES ASSUME TypeOK, ShutdownInv, NEW c \in Callers, call[c].at = "returned"
               PROVE  /\ sessions = {} /\ pending = {}
                      /\ \A s \in Sessions :
                            /\ handler[s] \in Inactive /\ dreader[s] \in {"off", "exited"}
                            /\ IsClosing(s) => transport[s] = "closed" \/ Awaited(s)
    BY DEF ShutdownIsComplete, Awaited
  <2>1. \A s \in Sessions : handler[s] \in Inactive
    BY DEF ShutdownInv, CallInv
  <2>2. sessions = {} /\ pending = {}
    BY <2>1 DEF TypeOK, ListenerTypeOK, ShutdownInv, PlaceOf, Inactive
  <2>3. \A s \in Sessions : dreader[s] \in {"off", "exited"}
    BY <2>1 DEF ShutdownInv, PlaceOf, Inactive
  <2>4. \A s \in Sessions : IsClosing(s) => transport[s] = "closed" \/ Awaited(s)
    BY <2>1 DEF ShutdownInv, LifeOf, Settling, Inactive, Unadmitted
  <2> QED
    BY <2>1, <2>2, <2>3, <2>4
<1> QED
  BY <1>1, SessionTypes, ShutdownInvariant, PTL

-----------------------------------------------------------------------------
(***************************************************************************)
(* Pumps.  One that has left its loop has closed the session, but for a    *)
(* datagram reader whose context was cancelled, and a WebTransport session *)
(* has its datagram reader from OnConnect on.                              *)
(***************************************************************************)
PumpsOf(s) ==
    /\ handler[s] = "ending" => IsClosing(s)
    /\ writer[s] \in {"closing", "exited"} => IsClosing(s)
    /\ dreader[s] = "closing" => IsClosing(s)
    /\ dreader[s] = "exited" => IsClosing(s) \/ broken[s] \/ handler[s] = "cancelled"
    /\ handler[s] \in {"reading", "delivering", "cancelled"} /\ s \in scenario.webTransport
          => dreader[s] # "off"

\* A connection that is lost stays lost.
LEMMA BrokenStays ==
    ASSUME TypeOK, [Next]_vars, NEW s \in Sessions, broken[s]
    PROVE  broken'[s]
<1>1. broken \in [Sessions -> BOOLEAN]
  BY DEF TypeOK, CloseTypeOK
<1>2. CASE UNCHANGED broken
  BY <1>2
<1>3. ASSUME NEW r \in Sessions, broken' = [broken EXCEPT ![r] = TRUE]
      PROVE  broken'[s]
  BY <1>1, <1>3
<1>4. ASSUME NEW r \in Sessions,
             \/ HandlerStep(r) \/ ReaderStep(r) \/ WriterStep(r) \/ CloseTransport(r)
             \/ RequestCloseWithReason(r) \/ AsyncClose(r) \/ ConnectionBreaks(r)
             \/ SpawnAvatar(r) \/ SpawnInTick(r) \/ SkipSession(r) \/ SendToSession(r)
      PROVE  UNCHANGED broken \/ broken' = [broken EXCEPT ![r] = TRUE]
  BY <1>4 DEF HandlerStep, beginSessionHandler, Upgrade, beginAcceptedSession, Rejected,
     sendSnapshot, addSession, Connect, ReadMessage, DeliverMessage, endReadPump, closeReadPump,
     readPumpReturns, Disconnect, removeSession, ReaderStep, ReadDatagram, DeliverDatagram,
     DatagramFails, DatagramReaderReturns, WriterStep, WriterTop, writeOne, WriterDrained,
     nextOutboundWake, WriterWakes, WriterReturns, CloseTransport, RequestCloseWithReason,
     AsyncClose, ConnectionBreaks, SpawnAvatar, SpawnInTick, SkipSession, SendToSession,
     sessionVars
<1>5. ASSUME NEW c \in Callers, CloseStep(c)
      PROVE  UNCHANGED broken \/ \E r \in Sessions : broken' = [broken EXCEPT ![r] = TRUE]
  BY <1>5 DEF CloseStep, CloseSessions, CloseSessionsWaits, CloseOne, waitClosed, sessionVars
<1>6. CASE StartTick \/ drainMessages \/ StartPass \/ signalWake \/ EndTick \/ UNCHANGED vars
  BY <1>2, <1>6 DEF StartTick, drainMessages, StartPass, signalWake, EndTick, vars, sessionVars
<1> QED
  BY <1>2, <1>3, <1>4, <1>5, <1>6, NextCases

LEMMA PumpsStep ==
    ASSUME TypeOK, ShutdownInv, [Next]_vars, NEW s \in Sessions, PumpsOf(s)
    PROVE  PumpsOf(s)'
<1>0. /\ DOMAIN handler = Sessions /\ DOMAIN writer = Sessions /\ DOMAIN dreader = Sessions
      /\ closeState \in [Sessions -> Reasons \cup {"open"}]
      /\ UNCHANGED scenario
  <2>1. UNCHANGED scenario
    BY NextCases DEF HandlerStep, beginSessionHandler, Upgrade, beginAcceptedSession, Rejected,
       sendSnapshot, CloseAndReturn, addSession, Connect, ReadMessage, DeliverMessage,
       endReadPump, closeReadPump, readPumpReturns, Disconnect, removeSession, ReaderStep,
       ReadDatagram, DeliverDatagram, DatagramFails, DatagramReaderReturns, WriterStep,
       WriterTop, writeOne, WriterDrained, nextOutboundWake, WriterWakes, WriterReturns,
       CloseTransport, RequestCloseWithReason, AsyncClose, ConnectionBreaks, SpawnAvatar,
       SpawnInTick, SkipSession, SendToSession, CloseStep, CloseSessions, CloseSessionsWaits,
       CloseOne, waitClosed, StartTick, drainMessages, StartPass, signalWake, EndTick, vars
  <2> QED
    BY <2>1 DEF TypeOK, PumpTypeOK, CloseTypeOK
<1>1. (IsClosing(s) => IsClosing(s)') /\ (broken[s] => broken'[s])
  BY CloseEffects, BrokenStays DEF IsClosing
<1> USE <1>0, <1>1 DEF PumpsOf
<1>2. CASE UNCHANGED pumpVars
  BY <1>2 DEF pumpVars
<1>3. ASSUME NEW r \in Sessions, HandlerStep(r)
      PROVE  PumpsOf(s)'
  <2>1. CASE Connect(r)
    BY <2>1 DEF Connect, Goto
  <2>2. CASE closeReadPump(r)
    <3>1. IsClosing(r)'
      BY <2>2 DEF closeReadPump, closeNow, beginClose, IsClosing, Reasons
    <3> QED
      BY <2>2, <3>1 DEF closeReadPump, ClientCloses, Goto
  <2>3. CASE \/ beginSessionHandler(r) \/ Upgrade(r) \/ Rejected(r) \/ beginAcceptedSession(r)
             \/ ReadMessage(r) \/ DeliverMessage(r) \/ endReadPump(r) \/ readPumpReturns(r)
             \/ Disconnect(r)
    BY <2>3 DEF beginSessionHandler, Upgrade, Rejected, beginAcceptedSession, ReadMessage,
       DeliverMessage, endReadPump, readPumpReturns, Disconnect, Goto
  <2>4. CASE sendSnapshot(r) \/ addSession(r) \/ removeSession(r)
    <3>1. /\ handler[r] \in {"snapshot", "adding", "failing", "returning", "removing"}
          /\ \E pc \in {"adding", "connecting", "failing", "returning", "done"} :
                handler' = [handler EXCEPT ![r] = pc]
          /\ UNCHANGED <<dreader, writer>>
      BY <2>4 DEF sendSnapshot, addSession, removeSession, CloseAndReturn, Goto
    <3> QED
      BY <3>1
  <2> QED
    BY <1>3, <2>1, <2>2, <2>3, <2>4 DEF HandlerStep
<1>4. ASSUME NEW r \in Sessions, ReaderStep(r)
      PROVE  PumpsOf(s)'
  <2>1. CASE DatagramFails(r)
    <3>1. CASE closeNow(r) /\ dreader' = [dreader EXCEPT ![r] = "closing"]
      <4>1. IsClosing(r)'
        BY <3>1 DEF closeNow, beginClose, IsClosing, Reasons
      <4> QED
        BY <2>1, <3>1, <4>1 DEF DatagramFails
    <3>2. CASE Failing(r) /\ dreader' = [dreader EXCEPT ![r] = "exited"]
      <4>1. r = s => IsClosing(s) \/ broken[s]
        BY <3>2 DEF Failing, ShutdownInv, LifeOf, Settling
      <4> QED
        BY <2>1, <3>2, <4>1 DEF DatagramFails
    <3> QED
      BY <2>1, <3>1, <3>2 DEF DatagramFails
  <2>2. CASE ReadDatagram(r) \/ DeliverDatagram(r) \/ DatagramReaderReturns(r)
    BY <2>2 DEF ReadDatagram, DeliverDatagram, DatagramReaderReturns
  <2> QED
    BY <1>4, <2>1, <2>2 DEF ReaderStep
<1>5. ASSUME NEW r \in Sessions, WriterStep(r)
      PROVE  PumpsOf(s)'
  <2>1. UNCHANGED <<handler, dreader>>
    BY <1>5 DEF WriterStep, WriterTop, writeOne, WriterDrained, nextOutboundWake, WriterWakes,
       WriterReturns
  <2>2. writer'[r] \in {"closing", "exited"} => closeNow(r) \/ writer[r] = "closing"
    BY <1>5 DEF WriterStep, WriterTop, writeOne, WriterDrained, nextOutboundWake, WriterWakes,
       WriterReturns, Write
  <2>3. closeNow(r) => IsClosing(r)'
    BY DEF closeNow, beginClose, IsClosing, Reasons
  <2>4. r # s => writer'[s] = writer[s]
    BY <1>5 DEF WriterStep, WriterTop, writeOne, WriterDrained, nextOutboundWake, WriterWakes,
       WriterReturns, Write
  <2> QED
    BY <2>1, <2>2, <2>3, <2>4
<1>6. ASSUME NEW r \in Sessions,
             \/ CloseTransport(r) \/ RequestCloseWithReason(r) \/ AsyncClose(r)
             \/ ConnectionBreaks(r) \/ SpawnAvatar(r) \/ SpawnInTick(r)
             \/ SkipSession(r) \/ SendToSession(r)
      PROVE  UNCHANGED pumpVars
  BY <1>6 DEF CloseTransport, RequestCloseWithReason, AsyncClose, ConnectionBreaks, SpawnAvatar,
     SpawnInTick, SkipSession, SendToSession
<1>7. ASSUME NEW c \in Callers, CloseStep(c)
      PROVE  UNCHANGED pumpVars
  BY <1>7 DEF CloseStep, CloseSessions, CloseSessionsWaits, CloseOne, waitClosed
<1>8. CASE StartTick \/ drainMessages \/ StartPass \/ signalWake \/ EndTick \/ UNCHANGED vars
  BY <1>2, <1>8 DEF StartTick, drainMessages, StartPass, signalWake, EndTick, vars
<1> QED
  BY <1>2, <1>3, <1>4, <1>5, <1>6, <1>7, <1>8, NextCases

\* A session in the listener's table that nobody asked to close is being read
\* and written: a pump that ends takes its session with it, and a datagram reader
\* that does not has seen its transport fail or the read pump leave.
THEOREM PumpsAlive == Spec => []NoZombie
<1> DEFINE PumpsInv == \A s \in Sessions : PumpsOf(s)
<1>1. Init => PumpsInv
  BY DEF Init, PumpsOf, IsClosing
<1>2. TypeOK /\ ShutdownInv /\ PumpsInv /\ [Next]_vars => PumpsInv'
  BY PumpsStep
<1>3. TypeOK /\ ShutdownInv /\ PumpsInv => NoZombie
  <2> SUFFICES ASSUME TypeOK, ShutdownInv, PumpsInv, NEW s \in sessions, ~IsClosing(s)
               PROVE  \/ handler[s] = "connecting"
                      \/ /\ handler[s] \in {"reading", "delivering", "cancelled"}
                         /\ writer[s] \in {"top", "drain", "check", "park"}
                         /\ s \in scenario.webTransport /\ dreader[s] \notin {"reading", "delivering"} =>
                               broken[s] \/ handler[s] = "cancelled"
    BY DEF NoZombie
  <2>1. s \in Sessions
    BY DEF TypeOK, ListenerTypeOK
  <2>2. LifeOf(s) /\ PlaceOf(s) /\ PumpsOf(s)
    BY <2>1 DEF ShutdownInv
  <2>3. handler[s] \in {"connecting", "reading", "delivering", "cancelled"}
    BY <2>2 DEF LifeOf, Settling, PlaceOf, PumpsOf
  <2> QED
    BY <2>1, <2>2, <2>3 DEF LifeOf, Settling, PlaceOf, PumpsOf, TypeOK, PumpTypeOK
<1> QED
  BY <1>1, <1>2, <1>3, SessionTypes, ShutdownInvariant, PTL DEF Spec

-----------------------------------------------------------------------------
(***************************************************************************)
(* The events of a session.  A session has parted when its disconnect was  *)
(* queued, dispatched or dropped; that is exactly when its handler is past *)
(* the hook, so nothing of it can be queued later.  The datagram reader    *)
(* has returned by then (PlaceOf).                                         *)
(***************************************************************************)
Ended(s) == handler[s] \in {"removing", "done"} /\ writer[s] # "off"

Farewell(s) == [kind |-> "disconnect", sess |-> s]

Parted(s) ==
    \/ s \in gone
    \/ \E i \in 1..Len(msgQueue) : msgQueue[i] = Farewell(s)
    \/ Farewell(s) \in dropped

OrderInv == EventsInOrder /\ \A s \in Sessions : Ended(s) <=> Parted(s)

\* The steps that change the queue, and what every other step leaves alone.
LEMMA EventCases ==
    ASSUME TypeOK, ShutdownInv, [Next]_vars
    PROVE  \/ /\ UNCHANGED <<msgQueue, gone, dropped>>
              /\ \A x \in Sessions : /\ Ended(x)' <=> Ended(x)
                                     /\ spawner'[x] = "none" <=> spawner[x] = "none"
           \/ \E s \in Sessions : \/ Connect(s) \/ DeliverMessage(s) \/ Disconnect(s)
                                  \/ DeliverDatagram(s)
           \/ drainMessages
<1>0. /\ DOMAIN handler = Sessions /\ DOMAIN writer = Sessions /\ DOMAIN spawner = Sessions
      /\ \A x \in Sessions : PlaceOf(x)
  BY DEF TypeOK, PumpTypeOK, ServerTypeOK, ShutdownInv
<1>1. ASSUME NEW s \in Sessions,
             \/ beginSessionHandler(s) \/ Upgrade(s) \/ beginAcceptedSession(s) \/ Rejected(s)
             \/ sendSnapshot(s) \/ addSession(s) \/ ReadMessage(s) \/ endReadPump(s)
             \/ closeReadPump(s) \/ readPumpReturns(s) \/ removeSession(s)
      PROVE  /\ UNCHANGED <<msgQueue, gone, dropped, spawner>>
             /\ \A x \in Sessions : Ended(x)' <=> Ended(x)
  <2>1. UNCHANGED <<msgQueue, gone, dropped, spawner, writer>>
    BY <1>1, Zenon DEF beginSessionHandler, Upgrade, beginAcceptedSession, Rejected,
       sendSnapshot, CloseAndReturn, addSession, ReadMessage, endReadPump, closeReadPump,
       readPumpReturns, removeSession, serverVars
  <2>2. /\ \A x \in Sessions \ {s} : handler'[x] = handler[x]
        /\ \/ handler[s] = "removing" /\ handler'[s] = "done"
           \/ handler[s] \in {"upgrading", "rejected", "failing", "returning"} /\ handler'[s] = "done"
           \/ handler[s] \notin {"removing", "done"} /\ handler'[s] \notin {"removing", "done"}
    <3>1. CASE removeSession(s)
      <4>1. /\ handler[s] \in {"removing", "returning", "failing"}
            /\ handler' = [handler EXCEPT ![s] = "done"]
        BY <3>1 DEF removeSession, Goto
      <4> QED
        BY <1>0, <4>1
    <3>2. CASE sendSnapshot(s) \/ addSession(s)
      <4>1. /\ handler[s] \in {"snapshot", "adding"}
            /\ \E pc \in {"adding", "connecting", "failing", "returning"} :
                  handler' = [handler EXCEPT ![s] = pc]
        BY <3>2 DEF sendSnapshot, addSession, CloseAndReturn, Goto
      <4> QED
        BY <1>0, <4>1
    <3>3. CASE \/ beginSessionHandler(s) \/ Upgrade(s) \/ beginAcceptedSession(s) \/ Rejected(s)
               \/ ReadMessage(s) \/ endReadPump(s) \/ closeReadPump(s) \/ readPumpReturns(s)
      BY <1>0, <3>3 DEF beginSessionHandler, Upgrade, beginAcceptedSession, Rejected,
         ReadMessage, endReadPump, closeReadPump, ClientCloses, readPumpReturns, Goto
    <3> QED
      BY <1>1, <3>1, <3>2, <3>3
  <2> QED
    BY <1>0, <2>1, <2>2 DEF Ended, PlaceOf
<1>2. ASSUME NEW s \in Sessions, ReadDatagram(s) \/ DatagramFails(s) \/ DatagramReaderReturns(s)
      PROVE  UNCHANGED <<msgQueue, gone, dropped, spawner, handler, writer>>
  BY <1>2 DEF ReadDatagram, DatagramFails, DatagramReaderReturns, serverVars
<1>3. ASSUME NEW s \in Sessions, WriterStep(s)
      PROVE  /\ UNCHANGED <<msgQueue, gone, dropped, spawner, handler>>
             /\ \A x \in Sessions : writer'[x] = "off" <=> writer[x] = "off"
  BY <1>0, <1>3 DEF WriterStep, WriterTop, writeOne, WriterDrained, nextOutboundWake,
       WriterWakes, WriterReturns, Write, serverVars
<1>4. ASSUME NEW s \in Sessions, SpawnAvatar(s) \/ SpawnInTick(s)
      PROVE  /\ UNCHANGED <<msgQueue, gone, dropped, handler, writer>>
             /\ \A x \in Sessions : spawner'[x] = "none" <=> spawner[x] = "none"
  BY <1>0, <1>4 DEF SpawnAvatar, SpawnInTick, CheckClosing, reserveAvatarSlot, CreateBody,
     commitAvatar, pumpVars
<1>5. ASSUME NEW s \in Sessions,
             \/ CloseTransport(s) \/ RequestCloseWithReason(s) \/ AsyncClose(s)
             \/ ConnectionBreaks(s) \/ SkipSession(s) \/ SendToSession(s)
      PROVE  UNCHANGED <<msgQueue, gone, dropped, spawner, handler, writer>>
  BY <1>5 DEF CloseTransport, RequestCloseWithReason, AsyncClose, ConnectionBreaks,
     SkipSession, SendToSession, pumpVars, serverVars
<1>6. ASSUME NEW c \in Callers, CloseStep(c)
      PROVE  UNCHANGED <<msgQueue, gone, dropped, spawner, handler, writer>>
  BY <1>6 DEF CloseStep, CloseSessions, CloseSessionsWaits, CloseOne, waitClosed, pumpVars,
     serverVars
<1>7. CASE StartTick \/ StartPass \/ signalWake \/ EndTick \/ UNCHANGED vars
  BY <1>7 DEF StartTick, StartPass, signalWake, EndTick, vars, pumpVars, serverVars, Ended
<1> QED
  BY <1>1, <1>2, <1>3, <1>4, <1>5, <1>6, <1>7, NextCases DEF Ended, HandlerStep, ReaderStep

\* A session's event is queued while it has not parted, a connect before any
\* other event of the session.
LEMMA EnqueueOrder ==
    ASSUME TypeOK, TypeOK', OrderInv, NEW k \in Kinds, NEW s \in Sessions, enqueue(k, s),
           ~Parted(s), UNCHANGED <<gone, spawner>>,
           k = "connect" => /\ spawner[s] = "none"
                            /\ \A i \in 1..Len(msgQueue) : msgQueue[i].sess # s
    PROVE  /\ EventsInOrder'
           /\ \A x \in Sessions : Parted(x)' <=> Parted(x) \/ (x = s /\ k = "disconnect")
<1> DEFINE m == [kind |-> k, sess |-> s]
<1>1. m \in [kind : Kinds, sess : Sessions] /\ m.sess = s /\ m.kind = k
  OBVIOUS
<1>2. \A x \in Sessions : m = Farewell(x) <=> (x = s /\ k = "disconnect")
  BY <1>1 DEF Farewell
<1>3. msgQueue \in Seq([kind : Kinds, sess : Sessions]) /\ Len(msgQueue) \in Nat
  BY DEF TypeOK, EventTypeOK
<1>4. \/ msgQueue' = Append(msgQueue, m) /\ UNCHANGED dropped
      \/ dropped' = dropped \cup {m} /\ UNCHANGED msgQueue
  BY DEF enqueue
<1>5. \A i \in 1..Len(msgQueue) : msgQueue[i] \in [kind : Kinds, sess : Sessions]
  BY <1>3, ElementOfSeq
<1>6. \A i \in 1..Len(msgQueue) :
          msgQueue[i].sess = s => msgQueue[i].kind # "disconnect" /\ s \notin gone
  <2> SUFFICES ASSUME NEW i \in 1..Len(msgQueue), msgQueue[i].sess = s,
                      msgQueue[i].kind = "disconnect" \/ s \in gone
               PROVE  FALSE
    OBVIOUS
  <2>1. msgQueue[i] = [kind |-> msgQueue[i].kind, sess |-> msgQueue[i].sess]
    BY <1>5
  <2> QED
    BY <2>1 DEF Parted, Farewell
<1> HIDE DEF m
<1>7. CASE dropped' = dropped \cup {m} /\ UNCHANGED msgQueue
  <2>1. EventsInOrder'
    BY <1>7 DEF EventsInOrder, OrderInv
  <2> QED
    BY <1>2, <1>7, <2>1 DEF Parted
<1>8. CASE msgQueue' = Append(msgQueue, m) /\ UNCHANGED dropped
  <2>1. /\ Len(msgQueue') = Len(msgQueue) + 1
        /\ \A i \in 1..Len(msgQueue) : msgQueue'[i] = msgQueue[i]
        /\ msgQueue'[Len(msgQueue) + 1] = m
    BY <1>1, <1>3, <1>8, AppendProperties
  <2>2. \A i \in 1..Len(msgQueue') : i \in 1..Len(msgQueue) \/ i = Len(msgQueue) + 1
    BY <1>3, <2>1
  <2>3. \A x \in Sessions : Parted(x)' <=> Parted(x) \/ (x = s /\ k = "disconnect")
    <3>1. \A x : (\E i \in 1..Len(msgQueue') : msgQueue'[i] = Farewell(x))
                   <=> (\E i \in 1..Len(msgQueue) : msgQueue[i] = Farewell(x)) \/ m = Farewell(x)
      BY <1>3, <2>1, <2>2
    <3> QED
      BY <1>2, <1>8, <3>1 DEF Parted
  <2>4. ASSUME NEW i \in 1..Len(msgQueue'), NEW j \in 1..Len(msgQueue'), i < j,
               msgQueue'[i].sess = msgQueue'[j].sess
        PROVE  msgQueue'[i].kind # "disconnect" /\ msgQueue'[j].kind # "connect"
    <3>1. i \in 1..Len(msgQueue)
      BY <1>3, <2>1, <2>4
    <3>2. CASE j \in 1..Len(msgQueue)
      BY <2>1, <2>4, <3>1, <3>2 DEF EventsInOrder, OrderInv
    <3>3. CASE j = Len(msgQueue) + 1
      BY <1>1, <1>6, <2>1, <2>4, <3>1, <3>3
    <3> QED
      BY <2>2, <3>2, <3>3
  <2>5. ASSUME NEW i \in 1..Len(msgQueue')
        PROVE  /\ msgQueue'[i].sess \notin gone'
               /\ msgQueue'[i].kind = "connect" => spawner'[msgQueue'[i].sess] = "none"
    <3>1. s \notin gone
      BY DEF Parted
    <3> QED
      BY <1>1, <2>1, <2>2, <3>1 DEF EventsInOrder, OrderInv
  <2> QED
    BY <2>3, <2>4, <2>5 DEF EventsInOrder
<1> QED
  BY <1>4, <1>7, <1>8

LEMMA OrderStep ==
    ASSUME TypeOK, TypeOK', ShutdownInv, OrderInv, [Next]_vars
    PROVE  OrderInv'
<1>0. /\ DOMAIN handler = Sessions /\ DOMAIN writer = Sessions /\ DOMAIN spawner = Sessions
      /\ \A x \in Sessions : PlaceOf(x)
      /\ \A i \in 1..Len(msgQueue) : msgQueue[i] \in [kind : Kinds, sess : Sessions]
      /\ \A i \in 1..Len(msgQueue) : msgQueue[i].sess \in Sessions
      /\ EventInv
  BY EventSessions, ElementOfSeq
  DEF TypeOK, PumpTypeOK, ServerTypeOK, EventTypeOK, ShutdownInv
<1>1. CASE /\ UNCHANGED <<msgQueue, gone, dropped>>
           /\ \A x \in Sessions : /\ Ended(x)' <=> Ended(x)
                                  /\ spawner'[x] = "none" <=> spawner[x] = "none"
  <2>1. EventsInOrder'
    BY <1>0, <1>1 DEF OrderInv, EventsInOrder
  <2>2. \A x \in Sessions : Parted(x)' <=> Parted(x)
    BY <1>1 DEF Parted
  <2> QED
    BY <1>1, <2>1, <2>2 DEF OrderInv
<1>2. ASSUME NEW s \in Sessions, Connect(s)
      PROVE  OrderInv'
  <2>1. /\ handler[s] = "connecting" /\ enqueue("connect", s) /\ UNCHANGED <<gone, spawner>>
        /\ handler' = [handler EXCEPT ![s] = "reading"]
        /\ writer' = [writer EXCEPT ![s] = "top"]
    BY <1>2 DEF Connect, Goto
  <2>2. writer[s] = "off" /\ spawner[s] = "none" /\ ~Parted(s)
    BY <1>0, <2>1 DEF PlaceOf, OrderInv, Ended
  <2>3. \A i \in 1..Len(msgQueue) : msgQueue[i].sess # s
    BY <1>0, <2>2 DEF EventInv
  <2>4. EventsInOrder' /\ \A x \in Sessions : Parted(x)' <=> Parted(x)
    BY <2>1, <2>2, <2>3, EnqueueOrder DEF Kinds
  <2>5. \A x \in Sessions : Ended(x)' <=> Ended(x)
    BY <1>0, <2>1, <2>2 DEF Ended
  <2> QED
    BY <2>4, <2>5 DEF OrderInv
<1>3. ASSUME NEW s \in Sessions, DeliverMessage(s) \/ DeliverDatagram(s)
      PROVE  OrderInv'
  <2>1. /\ \E k \in Kinds : k \notin {"connect", "disconnect"} /\ enqueue(k, s)
        /\ UNCHANGED <<gone, spawner, writer>>
        /\ handler[s] \in {"reading", "delivering", "cancelled", "ending"}
        /\ handler' = handler \/ handler' = [handler EXCEPT ![s] = "reading"]
    BY <1>0, <1>3 DEF DeliverMessage, DeliverDatagram, Goto, Kinds, PlaceOf
  <2>2. ~Parted(s)
    BY <2>1 DEF OrderInv, Ended
  <2>3. EventsInOrder' /\ \A x \in Sessions : Parted(x)' <=> Parted(x)
    BY <2>1, <2>2, EnqueueOrder
  <2>4. \A x \in Sessions : Ended(x)' <=> Ended(x)
    BY <1>0, <2>1 DEF Ended
  <2> QED
    BY <2>3, <2>4 DEF OrderInv
<1>4. ASSUME NEW s \in Sessions, Disconnect(s)
      PROVE  OrderInv'
  <2>1. /\ enqueue("disconnect", s) /\ UNCHANGED <<gone, spawner, writer>>
        /\ handler[s] = "disconnecting" /\ writer[s] # "off"
        /\ handler' = [handler EXCEPT ![s] = "removing"]
    BY <1>0, <1>4 DEF Disconnect, Goto, PlaceOf
  <2>2. ~Parted(s)
    BY <2>1 DEF OrderInv, Ended
  <2>3. EventsInOrder' /\ \A x \in Sessions : Parted(x)' <=> Parted(x) \/ x = s
    BY <2>1, <2>2, EnqueueOrder DEF Kinds
  <2>4. \A x \in Sessions : Ended(x)' <=> Ended(x) \/ x = s
    BY <1>0, <2>1 DEF Ended
  <2> QED
    BY <2>3, <2>4 DEF OrderInv
<1>5. CASE drainMessages
  <2> DEFINE m == Head(msgQueue)
  <2>1. msgQueue \in Seq([kind : Kinds, sess : Sessions]) /\ msgQueue # <<>>
    BY <1>5 DEF drainMessages, TypeOK, EventTypeOK
  <2>2. /\ Len(Tail(msgQueue)) = Len(msgQueue) - 1 /\ Len(msgQueue) \in Nat \ {0}
        /\ \A i \in 1..Len(Tail(msgQueue)) : Tail(msgQueue)[i] = msgQueue[i + 1]
        /\ m = msgQueue[1]
    BY <2>1, HeadTailProperties
  <2>3. /\ msgQueue' = Tail(msgQueue) /\ UNCHANGED <<handler, writer, dropped>>
        /\ \/ /\ m.kind = "connect" /\ UNCHANGED gone
              /\ \A x \in Sessions : x # m.sess => spawner'[x] = spawner[x]
           \/ m.kind \notin {"connect", "disconnect"} /\ UNCHANGED <<gone, spawner>>
           \/ m.kind = "disconnect" /\ gone' = gone \cup {m.sess} /\ UNCHANGED spawner
    BY <1>0, <1>5 DEF drainMessages, pumpVars
  <2>4. m \in [kind : Kinds, sess : Sessions] /\ m.sess \in Sessions
    BY <1>0, <2>2
  <2> HIDE DEF m
  <2>5. \A j \in 2..Len(msgQueue) : m.sess = msgQueue[j].sess =>
            m.kind # "disconnect" /\ msgQueue[j].kind # "connect"
    BY <2>2 DEF OrderInv, EventsInOrder
  <2>6. \A x \in Sessions : Parted(x)' <=> Parted(x)
    <3>1. ASSUME NEW x \in Sessions
          PROVE  m = Farewell(x) <=> m.kind = "disconnect" /\ m.sess = x
      BY <2>4 DEF Farewell
    <3>2. ASSUME NEW x \in Sessions
          PROVE  (\E i \in 1..Len(msgQueue) : msgQueue[i] = Farewell(x))
                   <=> m = Farewell(x) \/ \E i \in 1..Len(msgQueue') : msgQueue'[i] = Farewell(x)
      <4>1. ASSUME NEW i \in 1..Len(msgQueue), msgQueue[i] = Farewell(x), i # 1
            PROVE  \E j \in 1..Len(msgQueue') : msgQueue'[j] = Farewell(x)
        <5>1. i - 1 \in 1..Len(msgQueue') /\ msgQueue'[i - 1] = msgQueue[i]
          BY <2>2, <2>3, <4>1
        <5> QED
          BY <4>1, <5>1
      <4>2. ASSUME NEW j \in 1..Len(msgQueue'), msgQueue'[j] = Farewell(x)
            PROVE  \E i \in 1..Len(msgQueue) : msgQueue[i] = Farewell(x)
        <5>1. j + 1 \in 1..Len(msgQueue) /\ msgQueue'[j] = msgQueue[j + 1]
          BY <2>2, <2>3
        <5> QED
          BY <4>2, <5>1
      <4>3. 1 \in 1..Len(msgQueue)
        BY <2>2
      <4> QED
        BY <2>2, <4>1, <4>2, <4>3
    <3>3. ASSUME NEW x \in Sessions PROVE x \in gone' <=> x \in gone \/ m = Farewell(x)
      BY <2>3, <3>1
    <3> QED
      BY <2>3, <3>2, <3>3 DEF Parted
  <2>7. EventsInOrder'
    <3>1. ASSUME NEW i \in 1..Len(msgQueue')
          PROVE  /\ i + 1 \in 2..Len(msgQueue) /\ msgQueue'[i] = msgQueue[i + 1]
                 /\ msgQueue[i + 1].sess \in Sessions
      <4>1. i + 1 \in 2..Len(msgQueue) /\ msgQueue'[i] = msgQueue[i + 1]
        BY <2>2, <2>3
      <4> QED
        BY <1>0, <2>2, <4>1
    <3>2. ASSUME NEW i \in 1..Len(msgQueue')
          PROVE  /\ msgQueue'[i].sess \notin gone'
                 /\ msgQueue'[i].kind = "connect" => spawner'[msgQueue'[i].sess] = "none"
      <4>1. /\ msgQueue[i + 1].sess \notin gone
            /\ msgQueue[i + 1].kind = "connect" => spawner[msgQueue[i + 1].sess] = "none"
        BY <2>2, <3>1 DEF OrderInv, EventsInOrder
      <4> QED
        BY <2>3, <2>5, <3>1, <4>1
    <3>3. ASSUME NEW i \in 1..Len(msgQueue'), NEW j \in 1..Len(msgQueue'), i < j,
                 msgQueue'[i].sess = msgQueue'[j].sess
          PROVE  msgQueue'[i].kind # "disconnect" /\ msgQueue'[j].kind # "connect"
      <4>1. i + 1 < j + 1 /\ i + 1 \in 1..Len(msgQueue) /\ j + 1 \in 1..Len(msgQueue)
        BY <2>2, <2>3, <3>3
      <4> QED
        BY <3>1, <3>3, <4>1 DEF OrderInv, EventsInOrder
    <3> QED
      BY <3>2, <3>3 DEF EventsInOrder
  <2>8. \A x \in Sessions : Ended(x)' <=> Ended(x)
    BY <2>3 DEF Ended
  <2> QED
    BY <2>6, <2>7, <2>8 DEF OrderInv
<1> QED
  BY <1>1, <1>2, <1>3, <1>4, <1>5, EventCases

\* OrderInv holds in every reachable state.
LEMMA OrderInvariant == Spec => []OrderInv
<1>1. Init => OrderInv
  BY DEF Init, OrderInv, EventsInOrder, Ended, Parted, Farewell
<1> QED
  BY <1>1, OrderStep, SessionTypes, ShutdownInvariant, PTL DEF Spec

\* Whatever the handler, the datagram reader and the tick goroutine interleave,
\* the tick goroutine finds the connect of a session before its other events and
\* the disconnect after them, each at most once.
THEOREM EventsOrdered == Spec => []EventsInOrder
<1>1. OrderInv => EventsInOrder
  BY DEF OrderInv
<1> QED
  BY <1>1, OrderInvariant, PTL

-----------------------------------------------------------------------------
(***************************************************************************)
(* Sleeping writers.  The sender signals after it queued a frame, and has  *)
(* signalled before it goes on to the next session; the pump parks only    *)
(* after it found every lane empty.                                        *)
(***************************************************************************)
WakeOf(s) ==
    writer[s] = "park" /\ ~Empty(s) /\ ~IsClosing(s) => wake[s] \/ s \in tick.to

WakeInv ==
    /\ tick.at # "signal" => tick.to = {}
    /\ \A s \in Sessions : WakeOf(s)

LEMMA WakeStep ==
    ASSUME TypeOK, ShutdownInv, WakeInv, [Next]_vars
    PROVE  WakeInv'
<1>0. /\ writer \in [Sessions -> {"off", "top", "drain", "check", "park", "closing", "exited"}]
      /\ queue \in [Sessions -> [LaneSet -> 0..SendBufSize]] /\ DOMAIN wake = Sessions
      /\ tick \in [at : {"idle", "drain", "send", "signal", "stopped"}, ids : SUBSET Sessions,
                   to : SUBSET Sessions]
      /\ \A x \in Sessions : PlaceOf(x) /\ WakeOf(x)
      /\ tick.at # "signal" => tick.to = {}
  BY DEF TypeOK, PumpTypeOK, SendTypeOK, ShutdownInv, WakeInv
<1>a. \A x \in Sessions : IsClosing(x) => IsClosing(x)'
  BY CloseEffects DEF IsClosing
\* Lanes, signals and tick alone, and no writer that parks.
<1>1. ASSUME UNCHANGED <<queue, wake>>, tick'.to = tick.to, tick'.at # "signal" => tick'.to = {},
             \A x \in Sessions : writer'[x] = "park" => writer[x] = "park" \/ Empty(x)
      PROVE  WakeInv'
  BY <1>0, <1>a, <1>1 DEF WakeInv, WakeOf, Empty
<1>2. ASSUME NEW r \in Sessions, HandlerStep(r)
      PROVE  WakeInv'
  <2>1. UNCHANGED <<queue, wake, tick>> /\ \A x \in Sessions : writer'[x] = "park" => writer[x] = "park"
    <3>1. CASE removeSession(r)
      BY <3>1, Zenon DEF removeSession, serverVars
    <3>2. CASE Connect(r)
      BY <1>0, <3>2 DEF Connect, sessionVars
    <3>3. CASE \/ beginSessionHandler(r) \/ Upgrade(r) \/ Rejected(r) \/ ReadMessage(r)
               \/ beginAcceptedSession(r) \/ sendSnapshot(r) \/ addSession(r)
               \/ DeliverMessage(r) \/ endReadPump(r) \/ closeReadPump(r) \/ readPumpReturns(r) \/ Disconnect(r)
      BY <3>3 DEF beginSessionHandler, Upgrade, Rejected, ReadMessage, beginAcceptedSession,
         sendSnapshot, CloseAndReturn, addSession, DeliverMessage, endReadPump, closeReadPump,
         readPumpReturns, Disconnect, sessionVars, serverVars
    <3> QED
      BY <1>2, <3>1, <3>2, <3>3 DEF HandlerStep
  <2> QED
    BY <1>0, <1>1, <2>1
<1>3. ASSUME NEW r \in Sessions, WriterStep(r)
      PROVE  WakeInv'
  <2>1. UNCHANGED tick /\ \A x \in Sessions \ {r} : writer'[x] = writer[x] /\ wake'[x] = wake[x]
                                                   /\ queue'[x] = queue[x]
    BY <1>0, <1>3 DEF WriterStep, WriterTop, writeOne, WriterDrained, nextOutboundWake,
       WriterWakes, WriterReturns, Write, sessionVars, serverVars
  <2>2. writer'[r] = "park" => writer[r] = "check" /\ Empty(r) /\ queue' = queue
    BY <1>0, <1>3 DEF WriterStep, WriterTop, writeOne, WriterDrained, nextOutboundWake,
       WriterWakes, WriterReturns, Write, sessionVars
  <2> QED
    BY <1>0, <1>a, <2>1, <2>2 DEF WakeInv, WakeOf, Empty
<1>4. ASSUME NEW r \in Sessions,
             \/ ReaderStep(r) \/ CloseTransport(r) \/ RequestCloseWithReason(r) \/ AsyncClose(r)
             \/ ConnectionBreaks(r) \/ SpawnAvatar(r) \/ SpawnInTick(r)
      PROVE  UNCHANGED <<queue, wake, tick, writer>>
  BY <1>4 DEF ReaderStep, ReadDatagram, DeliverDatagram, DatagramFails, DatagramReaderReturns,
     CloseTransport, RequestCloseWithReason, AsyncClose, ConnectionBreaks, SpawnAvatar,
     SpawnInTick, pumpVars, sessionVars, serverVars
<1>5. ASSUME NEW c \in Callers, CloseStep(c)
      PROVE  UNCHANGED <<queue, wake, tick, writer>>
  BY <1>5 DEF CloseStep, CloseSessions, CloseSessionsWaits, CloseOne, waitClosed, pumpVars,
     sessionVars, serverVars
<1>6. CASE StartTick \/ StartPass \/ EndTick \/ drainMessages \/ UNCHANGED vars
  <2>1. UNCHANGED <<queue, wake, writer>>
    BY <1>6 DEF StartTick, StartPass, EndTick, drainMessages, vars, pumpVars, sessionVars
  <2>2. /\ tick' = tick \/ (tick.at \in {"idle", "drain", "send"} /\ tick'.at # "signal")
        /\ tick'.to = tick.to
    <3>1. CASE StartTick \/ EndTick
      BY <1>0, <3>1 DEF StartTick, EndTick
    <3>2. CASE StartPass
      BY <1>0, <3>2 DEF StartPass
    <3>3. CASE drainMessages \/ UNCHANGED vars
      BY <3>3 DEF drainMessages, vars, serverVars
    <3> QED
      BY <1>6, <3>1, <3>2, <3>3
  <2>3. tick'.at # "signal" => tick'.to = {}
    BY <1>0, <2>2
  <2> QED
    BY <1>1, <2>1, <2>2, <2>3
<1>7. CASE signalWake
  <2>1. /\ UNCHANGED <<queue, writer>> /\ tick'.to = {} 
        /\ \A x \in Sessions : wake'[x] <=> wake[x] \/ x \in tick.to
    BY <1>0, <1>7 DEF signalWake, pumpVars
  <2> QED
    BY <1>0, <1>a, <2>1 DEF WakeInv, WakeOf, Empty
<1>8. ASSUME NEW r \in Sessions, SkipSession(r)
      PROVE  WakeInv'
  <2>1. UNCHANGED <<queue, wake, writer>> /\ tick'.to = tick.to /\ tick'.at = tick.at
    BY <1>0, <1>8 DEF SkipSession, pumpVars, sessionVars
  <2> QED
    BY <1>0, <1>1, <2>1
<1>9. ASSUME NEW r \in Sessions, SendToSession(r)
      PROVE  WakeInv'
  <2>1. UNCHANGED <<wake, writer>> /\ tick.at = "send" /\ tick.to = {}
    BY <1>0, <1>9 DEF SendToSession, pumpVars
  <2>2. \/ UNCHANGED queue /\ tick'.to = tick.to /\ tick'.at = tick.at
        \/ /\ \A x \in Sessions \ {r} : queue'[x] = queue[x]
           /\ tick'.at = "signal" /\ tick'.to = {r}
    <3>1. \/ UNCHANGED queue /\ tick' = [tick EXCEPT !.ids = @ \ {r}]
          \/ \E l \in scenario.lanes :
                /\ queue' = [queue EXCEPT ![r][l] = @ + 1]
                /\ tick' = [at |-> "signal", ids |-> tick.ids \ {r}, to |-> {r}]
      BY <1>9, Zenon DEF SendToSession, queueFrame
    <3> QED
      BY <1>0, <3>1
  <2> QED
    BY <1>0, <1>a, <1>1, <2>1, <2>2 DEF WakeInv, WakeOf, Empty
<1> QED
  BY <1>0, <1>1, <1>2, <1>3, <1>4, <1>5, <1>6, <1>7, <1>8, <1>9, NextCases

\* A session that was announced and whose handler is done has parted, and a
\* parked write pump with frames to send is awake or about to be woken, however
\* sends, the pump and close requests interleave.
THEOREM NothingIsStranded == Spec => []NothingStranded
<1>1. Init => WakeInv
  BY DEF Init, WakeInv, WakeOf, Empty
<1>2. OrderInv /\ WakeInv => NothingStranded
  <2> SUFFICES ASSUME OrderInv, WakeInv, NEW s \in Sessions
               PROVE  /\ handler[s] = "done" /\ writer[s] # "off" => Parted(s)
                      /\ WakeOf(s)
    BY Zenon DEF NothingStranded, Parted, Farewell, WakeOf
  <2> QED
    BY DEF OrderInv, WakeInv, Ended
<1> QED
  BY <1>1, <1>2, WakeStep, OrderInvariant, SessionTypes, ShutdownInvariant, PTL DEF Spec

-----------------------------------------------------------------------------
(***************************************************************************)
(* Avatars created in callbacks of the tick goroutine.  A session whose    *)
(* disconnect was dispatched is closing, so the test of IsClosing keeps    *)
(* SpawnAvatar from giving it a body.                                      *)
(***************************************************************************)
InTick == scenario.avatar # "goroutine"

AvatarOf(s) ==
    /\ spawner[s] \in {"none", "hydrating", "done"}
    /\ avatar[s] \in {"none", "bound"} /\ (s \in body <=> avatar[s] = "bound")
    /\ s \in gone => avatar[s] = "none"

AvatarInv == InTick => \A s \in Sessions : AvatarOf(s)

\* A session that parted is closing.
LEMMA GoneIsClosing ==
    ASSUME ShutdownInv, OrderInv, NEW s \in Sessions, s \in gone
    PROVE  IsClosing(s)
  BY DEF ShutdownInv, OrderInv, Parted, Ended, LifeOf, Settling

LEMMA AvatarStep ==
    ASSUME TypeOK, ShutdownInv, OrderInv, AvatarInv, [Next]_vars
    PROVE  AvatarInv'
<1>0. /\ DOMAIN spawner = Sessions /\ DOMAIN avatar = Sessions
      /\ \A s \in Sessions : s \in gone => IsClosing(s)
  BY GoneIsClosing DEF TypeOK, ServerTypeOK
<1>1. CASE UNCHANGED <<scenario, spawner, avatar, body, gone>>
  BY <1>1 DEF AvatarInv, AvatarOf, InTick
<1>2. ASSUME NEW r \in Sessions, HandlerStep(r)
      PROVE  UNCHANGED <<scenario, spawner, avatar, body, gone>>
  BY <1>2, Zenon DEF HandlerStep, beginSessionHandler, Upgrade, beginAcceptedSession, Rejected,
     sendSnapshot, CloseAndReturn, addSession, Connect, ReadMessage, DeliverMessage,
     endReadPump, closeReadPump, readPumpReturns, Disconnect, removeSession, serverVars
<1>3. ASSUME NEW r \in Sessions,
             \/ ReaderStep(r) \/ WriterStep(r) \/ CloseTransport(r) \/ RequestCloseWithReason(r)
             \/ AsyncClose(r) \/ ConnectionBreaks(r) \/ SkipSession(r) \/ SendToSession(r)
      PROVE  UNCHANGED <<scenario, spawner, avatar, body, gone>>
  BY <1>3 DEF ReaderStep, ReadDatagram, DeliverDatagram, DatagramFails, DatagramReaderReturns,
     WriterStep, WriterTop, writeOne, WriterDrained, nextOutboundWake, WriterWakes,
     WriterReturns, CloseTransport, RequestCloseWithReason, AsyncClose, ConnectionBreaks,
     SkipSession, SendToSession, serverVars
<1>4. ASSUME NEW c \in Callers, CloseStep(c)
      PROVE  UNCHANGED <<scenario, spawner, avatar, body, gone>>
  BY <1>4 DEF CloseStep, CloseSessions, CloseSessionsWaits, CloseOne, waitClosed, serverVars
<1>5. CASE StartTick \/ StartPass \/ signalWake \/ EndTick \/ UNCHANGED vars
  BY <1>1, <1>5 DEF StartTick, StartPass, signalWake, EndTick, vars, serverVars
<1>6. ASSUME NEW r \in Sessions, SpawnInTick(r)
      PROVE  AvatarInv'
  BY <1>0, <1>6 DEF SpawnInTick, AvatarInv, AvatarOf, InTick
<1>7. ASSUME NEW r \in Sessions, SpawnAvatar(r)
      PROVE  AvatarInv'
  BY <1>7 DEF SpawnAvatar, CheckClosing, reserveAvatarSlot, CreateBody, commitAvatar, AvatarInv,
     AvatarOf, InTick
<1>8. CASE drainMessages
  <2>1. Head(msgQueue).sess \in Sessions
    BY <1>8, HeadEvent DEF drainMessages, ShutdownInv
  <2> QED
    BY <1>0, <1>8, <2>1 DEF drainMessages, takeAvatar, AvatarInv, AvatarOf, InTick
<1> QED
  BY <1>1, <1>2, <1>3, <1>4, <1>5, <1>6, <1>7, <1>8, NextCases

\* Where game code creates avatars in callbacks on the tick goroutine, no avatar
\* and no body of it outlives the disconnect of its session.
THEOREM TickAvatarsReaped == Spec /\ InTick => []AvatarsReaped
<1>1. Init => AvatarInv
  BY DEF Init, AvatarInv, AvatarOf
<1>2. [Next]_vars /\ InTick => InTick'
  <2> SUFFICES ASSUME [Next]_vars PROVE UNCHANGED scenario
    BY DEF InTick
  <2>1. ASSUME NEW r \in Sessions, HandlerStep(r)
        PROVE  UNCHANGED scenario
    BY <2>1, Zenon DEF HandlerStep, beginSessionHandler, Upgrade, beginAcceptedSession,
       Rejected, sendSnapshot, CloseAndReturn, addSession, Connect, ReadMessage, DeliverMessage,
       endReadPump, closeReadPump, readPumpReturns, Disconnect, removeSession
  <2> QED
    BY <2>1, NextCases DEF ReaderStep, ReadDatagram, DeliverDatagram,
       DatagramFails, DatagramReaderReturns, WriterStep, WriterTop, writeOne, WriterDrained,
       nextOutboundWake, WriterWakes, WriterReturns, CloseTransport, RequestCloseWithReason,
       AsyncClose, ConnectionBreaks, SpawnAvatar, SpawnInTick, SkipSession, SendToSession,
       CloseStep, CloseSessions, CloseSessionsWaits, CloseOne, waitClosed, StartTick,
       drainMessages, StartPass, signalWake, EndTick, vars
<1>3. TypeOK /\ InTick /\ AvatarInv => AvatarsReaped
  BY DEF TypeOK, ServerTypeOK, AvatarInv, AvatarOf, AvatarsReaped
<1> QED
  BY <1>1, <1>2, <1>3, AvatarStep, OrderInvariant, SessionTypes, ShutdownInvariant, PTL DEF Spec

=============================================================================
