--------------------------- MODULE GameClientProofs ---------------------------
(***************************************************************************)
(* Proofs about GameClient, for any number of closers, connections, cuts   *)
(* and batches and any program of the caller: the safety part of the       *)
(* refinement of ClientSession, that no connection is left open, and that  *)
(* no batch of a connection is begun after its OnDisconnect.               *)
(***************************************************************************)
EXTENDS GameClient, Integers, SequenceTheorems, TLAPS

Readers == {"off", "on", "lifecycle", "client", "stop", "notify", "end"}

Channel ==
    [kind : {"ws", "wt"}, gen : Nat, by : Callers, up : BOOLEAN, cut : BOOLEAN,
     failed : BOOLEAN, shut : BOOLEAN,
     reader : Readers, registered : BOOLEAN, installed : BOOLEAN, closed : BOOLEAN,
     opened : BOOLEAN, stopped : BOOLEAN, running : BOOLEAN, queue : Int, unread : Int,
     reading : BOOLEAN]

Attempting == {"candidate", "resolving", "dialing"}
\* The attempt has a channel in its hands, and may give it up.
Holding    == {"register", "install", "dropping", "unwinding"}
Handling   == Holding \cup {"opened"}
Leaving    == {"stopping", "closing", "clearing"}

Call ==
    [pc : {"idle", "stopped", "finish"} \cup Attempting \cup Handling \cup Leaving,
     ops : Seq(Operation), gen : Nat, done : BOOLEAN, late : BOOLEAN,
     cands : Seq({"ws", "wt"}), conn : Nat, took : Nat, cancels : Callers \cup {Nobody}]

Users == Callers \cup Closers

ClientTypeOK ==
    /\ generation \in Nat /\ attemptCancel \in Callers \cup {Nobody}
    /\ applying \in Nat /\ ended \subseteq Nat /\ told \in [Connections -> Nat]

CallTypeOK ==
    /\ call \in [Users -> Call]
    /\ \A t \in Users :
          /\ call[t].pc = "idle" \/ t \in Callers \/ call[t].pc \in Leaving
          /\ call[t].pc # "idle" /\ t \in Callers => call[t].ops # <<>>
          /\ call[t].pc \in {"resolving", "dialing", "dropping"} => call[t].cands # <<>>
          /\ call[t].pc \in Handling => call[t].conn \in 1 .. Len(chan)

ChanTypeOK ==
    /\ chan \in Seq(Channel) /\ Len(chan) <= MaxConnections
    /\ channel \in 0 .. Len(chan)

TypeOK == ClientTypeOK /\ CallTypeOK /\ ChanTypeOK

-----------------------------------------------------------------------------
\* A connection that ended was installed, is told at most once, by its reader
\* or by a Disconnect that took it, and is not current again.
ConnOf(c) ==
    /\ chan[c].gen <= generation
    /\ chan[c].shut => ~chan[c].up
    /\ chan[c].reader \notin {"off", "on"} => chan[c].cut \/ chan[c].failed \/ chan[c].shut
    /\ c \in ended => chan[c].installed
    /\ c \notin ended => told[c] = 0
    /\ told[c] # 0 => chan[c].stopped
    /\ chan[c].reader \in {"stop", "notify"} => c \in ended /\ told[c] = 0
    /\ chan[c].reader = "notify" => chan[c].stopped
    /\ channel = c => chan[c].installed /\ ~chan[c].shut /\ c \notin ended

Held(c) ==
    \/ channel = c
    \/ call[chan[c].by].conn = c /\ call[chan[c].by].pc \in Holding
    \/ \E t \in Users : call[t].pc \in {"stopping", "closing"} /\ call[t].took = c
    \/ chan[c].failed /\ chan[c].installed /\ c \in ended

\* What a Disconnect took is its to close and to report.
TookOf(t) ==
    /\ call[t].pc \in {"closing", "clearing"} => call[t].took # None
    /\ call[t].took # None =>
          /\ call[t].pc \in Leaving
          /\ call[t].took \in ended /\ call[t].took \in 1 .. Len(chan)
          /\ told[call[t].took] = 0
          /\ chan[call[t].took].reader \notin {"stop", "notify"}
          /\ call[t].pc \in {"closing", "clearing"} => chan[call[t].took].stopped
          /\ \A u \in Users : call[u].took = call[t].took => u = t

\* An attempt starts with no current connection and has at most one channel
\* open, the one it is about to install.
AttemptOf(t) ==
    /\ call[t].pc \notin {"idle", "opened", "finish"} => channel = None
    /\ call[t].pc \in Attempting =>
          \A b \in 1 .. Len(chan) : chan[b].gen = call[t].gen => chan[b].shut
    /\ call[t].pc = "dropping" =>
          \A b \in 1 .. Len(chan) : chan[b].gen = call[t].gen /\ b # call[t].conn => chan[b].shut
    /\ call[t].pc \in Holding => ~chan[call[t].conn].installed

OneOpen ==
    \A b, c \in 1 .. Len(chan) :
        b # c /\ chan[b].gen = chan[c].gen => chan[b].shut \/ chan[c].shut

ClientInv ==
    /\ \A c \in 1 .. Len(chan) : ConnOf(c) /\ (Open(c) => Held(c))
    /\ \A t \in Users : TookOf(t) /\ call[t].gen <= generation
    /\ \A t \in Callers : AttemptOf(t)
    /\ OneOpen
    /\ ended \subseteq 1 .. Len(chan)
    /\ \A c \in Connections : c \notin 1 .. Len(chan) => told[c] = 0

-----------------------------------------------------------------------------
USE DEF Readers, Attempting, Holding, Handling, Leaving, Users, None, Nobody

\* One channel of the table is replaced.
LEMMA ChanSet ==
    ASSUME chan \in Seq(Channel), NEW c \in 1 .. Len(chan), NEW r \in Channel,
           chan' = [chan EXCEPT ![c] = r]
    PROVE  /\ chan' \in Seq(Channel) /\ Len(chan') = Len(chan) /\ chan'[c] = r
           /\ \A b \in 1 .. Len(chan) : b # c => chan'[b] = chan[b]
<1>1. DOMAIN chan = 1 .. Len(chan)
  BY LenProperties
<1>2. chan' \in Seq(Channel) /\ Len(chan') = Len(chan)
  BY ExceptSeq
<1> QED
  BY <1>1, <1>2

\* A channel is one of the records of Channel.
LEMMA ChanElement ==
    ASSUME chan \in Seq(Channel), NEW c \in 1 .. Len(chan)
    PROVE  chan[c] \in Channel
  BY ElementOfSeq

\* How a step of a channel's own goroutines, or of the network, changes it.
Moves(ch, r) ==
    /\ r.gen = ch.gen /\ r.by = ch.by /\ r.installed = ch.installed /\ r.shut = ch.shut
    /\ ch.cut => r.cut
    /\ ch.failed => r.failed
    /\ ch.stopped => r.stopped
    /\ r.up => ch.up
    /\ \/ r.reader = ch.reader
       \/ ch.reader = "off" /\ r.reader = "on"
       \/ r.reader \in {"lifecycle", "client", "end"} /\ (r.cut \/ r.failed \/ r.shut)
       \/ ch.reader = "stop" /\ r.reader = "notify" /\ r.stopped

\* inbound.stop() and Close() on a channel.
LEMMA StopMoves ==
    ASSUME NEW r \in Channel
    PROVE  /\ Stopped(r) \in Channel /\ Stopped(r).stopped
           /\ Stopped(r).reader = r.reader /\ Stopped(r).up = r.up
           /\ Stopped(r).cut = r.cut /\ Stopped(r).failed = r.failed
           /\ \A ch \in Channel : Moves(ch, r) => Moves(ch, Stopped(r))
           /\ Moves(r, Stopped(r))
<1>1. /\ Stopped(r) \in Channel /\ Stopped(r).stopped
      /\ Stopped(r).gen = r.gen /\ Stopped(r).by = r.by /\ Stopped(r).installed = r.installed
      /\ Stopped(r).shut = r.shut /\ Stopped(r).cut = r.cut /\ Stopped(r).up = r.up
      /\ Stopped(r).failed = r.failed
      /\ Stopped(r).reader = r.reader
  <2> DEFINE a == [r EXCEPT !.stopped = TRUE]
             b == [a EXCEPT !.queue = 0]
             d == [b EXCEPT !.unread = 0]
  <2>1. /\ a \in Channel /\ a.stopped = TRUE
        /\ a.gen = r.gen /\ a.by = r.by /\ a.installed = r.installed
        /\ a.shut = r.shut /\ a.cut = r.cut /\ a.up = r.up /\ a.reader = r.reader
        /\ a.failed = r.failed
    BY DEF Channel
  <2> HIDE DEF a
  <2>2. /\ b \in Channel /\ b.stopped = a.stopped
        /\ b.gen = a.gen /\ b.by = a.by /\ b.installed = a.installed
        /\ b.shut = a.shut /\ b.cut = a.cut /\ b.up = a.up /\ b.reader = a.reader
        /\ b.failed = a.failed
    BY <2>1 DEF Channel
  <2> HIDE DEF b
  <2>3. /\ d \in Channel /\ d.stopped = b.stopped
        /\ d.gen = b.gen /\ d.by = b.by /\ d.installed = b.installed
        /\ d.shut = b.shut /\ d.cut = b.cut /\ d.up = b.up /\ d.reader = b.reader
        /\ d.failed = b.failed
    BY <2>2 DEF Channel
  <2>4. Stopped(r) = d
    BY DEF Stopped, a, b
  <2> HIDE DEF d
  <2> QED
    BY <2>1, <2>2, <2>3, <2>4
<1> QED
  BY <1>1 DEF Moves

LEMMA CloseShuts ==
    ASSUME NEW r \in Channel
    PROVE  /\ Closed(r) \in Channel /\ Closed(r).shut /\ ~Closed(r).up
           /\ Closed(r).gen = r.gen /\ Closed(r).by = r.by /\ Closed(r).installed = r.installed
           /\ Closed(r).cut = r.cut /\ Closed(r).stopped = r.stopped /\ Closed(r).reader = r.reader
           /\ Closed(r).failed = r.failed
  BY DEF Closed, Channel

\* The first half of Close().
LEMMA ClosingMoves ==
    ASSUME NEW r \in Channel
    PROVE  /\ Closing(r) \in Channel /\ (Closing(r).up => r.up)
           /\ Closing(r).gen = r.gen /\ Closing(r).by = r.by /\ Closing(r).installed = r.installed
           /\ Closing(r).cut = r.cut /\ Closing(r).stopped = r.stopped
           /\ Closing(r).reader = r.reader /\ Closing(r).failed = r.failed
           /\ Closing(r).shut = r.shut
  BY DEF Closing, Channel

LEMMA ChannelMoves ==
    ASSUME TypeOK, NEW c \in 1 .. Len(chan), ConnOf(c),
           \/ Cut(c) \/ ChannelFails(c) \/ Read(c) \/ enqueue(c) \/ ReadFails(c)
           \/ CloseBeforeInstall(c) \/ CloseStops(c) \/ Dispatch(c)
    PROVE  /\ UNCHANGED <<generation, attemptCancel, channel, call, ended, told>>
           /\ \E r \in Channel : chan' = [chan EXCEPT ![c] = r] /\ Moves(chan[c], r)
<1> DEFINE ch == chan[c]
<1>0. ch \in Channel /\ (ch.reader \notin {"off", "on"} => ch.cut \/ ch.failed \/ ch.shut)
  BY ChanElement DEF TypeOK, ChanTypeOK, ConnOf
<1>1. CASE Cut(c)
  <2> DEFINE r == [ch EXCEPT !.cut = TRUE]
  <2>1. r \in Channel /\ Moves(ch, r)
    BY <1>0 DEF Channel, Moves
  <2> QED
    BY <1>1, <2>1 DEF Cut, histVars
<1>2. CASE Read(c)
  <2> DEFINE r1 == [ch EXCEPT !.unread = @ - 1, !.queue = @ + 1]
             r2 == [ch EXCEPT !.unread = @ - 1, !.reading = TRUE]
  <2>0. ch.unread - 1 \in Int /\ ch.queue + 1 \in Int
    BY <1>0 DEF Channel
  <2>1. r1 \in Channel /\ r2 \in Channel
    BY <1>0, <2>0 DEF Channel
  <2>2. Moves(ch, r1) /\ Moves(ch, r2)
    BY <1>0 DEF Channel, Moves
  <2>3. chan' = [chan EXCEPT ![c] = r1] \/ chan' = [chan EXCEPT ![c] = r2]
    <3> DEFINE r == IF ch.queue < QueueSize THEN r1 ELSE r2
    <3>1. chan' = [chan EXCEPT ![c] = r]
      BY <1>2 DEF Read
    <3>2. r = r1 \/ r = r2
      OBVIOUS
    <3> HIDE DEF r, r1, r2
    <3> QED
      BY <3>1, <3>2
  <2> HIDE DEF r1, r2
  <2> QED
    BY <1>2, <2>1, <2>2, <2>3 DEF Read, histVars
<1>3. CASE enqueue(c)
  <2> DEFINE q == IF ch.stopped THEN ch.queue ELSE ch.queue + 1
             r == [ch EXCEPT !.reading = FALSE, !.queue = q]
  <2>1. q \in Int
    BY <1>0 DEF Channel
  <2> HIDE DEF q
  <2>2. r \in Channel /\ Moves(ch, r)
    BY <1>0, <2>1 DEF Channel, Moves
  <2>3. chan' = [chan EXCEPT ![c] = r]
    BY <1>3 DEF enqueue, q
  <2> QED
    BY <1>3, <2>2, <2>3 DEF enqueue, histVars
<1>4. CASE ReadFails(c)
  <2> DEFINE r == [ch EXCEPT !.up = FALSE, !.reader =
            IF ch.registered /\ (ch.kind = "ws" \/ ch.up) THEN "lifecycle" ELSE "end"]
  <2>1. r \in Channel /\ Moves(ch, r)
    BY <1>0, <1>4 DEF Channel, Moves, ReadFails
  <2>2. chan' = [chan EXCEPT ![c] = r]
    BY <1>4 DEF ReadFails
  <2> QED
    BY <1>4, <2>1, <2>2 DEF ReadFails, histVars
<1>5. CASE CloseBeforeInstall(c)
  <2> DEFINE r1 == [ch EXCEPT !.closed = TRUE, !.reader = "client"]
             r2 == [ch EXCEPT !.closed = TRUE, !.reader = "end"]
  <2>1. r1 \in Channel /\ r2 \in Channel /\ Moves(ch, r1) /\ Moves(ch, r2)
    BY <1>0, <1>5 DEF Channel, Moves, CloseBeforeInstall
  <2>2. Stopped(r2) \in Channel /\ Moves(ch, Stopped(r2))
    <3> HIDE DEF r2
    <3>1. r2 \in Channel /\ Moves(ch, r2)
      BY <2>1
    <3> HIDE DEF ch
    <3> QED
      BY <1>0, <3>1, StopMoves
  <2>3. chan' = [chan EXCEPT ![c] = r1] \/ chan' = [chan EXCEPT ![c] = Stopped(r2)]
    BY <1>5 DEF CloseBeforeInstall
  <2> HIDE DEF r1, r2
  <2> QED
    BY <1>5, <2>1, <2>2, <2>3 DEF CloseBeforeInstall, histVars
<1>6. CASE CloseStops(c)
  <2> DEFINE r == Stopped(ch)
  <2>1. r \in Channel /\ r.stopped /\ Moves(ch, r) /\ r.reader = "stop" /\ ch.reader = "stop"
    BY <1>0, <1>6, StopMoves DEF CloseStops, Moves
  <2> HIDE DEF r
  <2>2. [r EXCEPT !.reader = "notify"] \in Channel /\ Moves(ch, [r EXCEPT !.reader = "notify"])
    BY <2>1 DEF Channel, Moves
  <2>3. chan' = [chan EXCEPT ![c] = [r EXCEPT !.reader = "notify"]]
    BY <1>6 DEF CloseStops, r
  <2> QED
    BY <1>6, <2>2, <2>3 DEF CloseStops, histVars
<1>7. CASE Dispatch(c)
  <2> DEFINE r == [ch EXCEPT !.queue = @ - 1]
  <2>1. r \in Channel /\ Moves(ch, r)
    BY <1>0 DEF Channel, Moves
  <2> QED
    BY <1>7, <2>1 DEF Dispatch, histVars
<1>8. CASE ChannelFails(c)
  <2> DEFINE next == IF ch.registered THEN "lifecycle" ELSE "end"
             r == [ch EXCEPT !.up = FALSE, !.failed = TRUE, !.reader = next]
  <2>1. r \in Channel /\ Moves(ch, r)
    BY <1>0 DEF Channel, Moves
  <2>2. chan' = [chan EXCEPT ![c] = r]
    BY <1>8 DEF ChannelFails
  <2> QED
    BY <1>8, <2>1, <2>2 DEF ChannelFails, histVars
<1> QED
  BY <1>1, <1>2, <1>3, <1>4, <1>5, <1>6, <1>7, <1>8

\* A step that moves one channel and touches nothing else of the invariant.
LEMMA MovesKeep ==
    ASSUME TypeOK, ClientInv, NEW c \in 1 .. Len(chan), NEW r \in Channel,
           chan' = [chan EXCEPT ![c] = r], Moves(chan[c], r),
           UNCHANGED <<generation, attemptCancel, channel, call, ended, told>>, applying' \in Nat
    PROVE  TypeOK' /\ ClientInv'
<1>1. /\ chan' \in Seq(Channel) /\ Len(chan') = Len(chan) /\ chan'[c] = r
      /\ \A b \in 1 .. Len(chan) : b # c => chan'[b] = chan[b]
  BY ChanSet DEF TypeOK, ChanTypeOK
<1>2. TypeOK'
  BY <1>1 DEF TypeOK, ClientTypeOK, CallTypeOK, ChanTypeOK
<1>3. ASSUME NEW b \in 1 .. Len(chan) PROVE Moves(chan[b], chan'[b])
  BY <1>1 DEF Moves
<1>4. ASSUME NEW b \in 1 .. Len(chan) PROVE ConnOf(b)'
  BY <1>3 DEF ClientInv, ConnOf, Moves
<1>5. ASSUME NEW b \in 1 .. Len(chan) PROVE Open(b)' => Held(b)'
  BY <1>3 DEF ClientInv, Open, Held, At, Moves
<1>6. ASSUME NEW t \in Users PROVE TookOf(t)' /\ call'[t].gen <= generation'
  <2>1. call[t].took \in 1 .. Len(chan) => Moves(chan[call[t].took], chan'[call[t].took])
    BY <1>3
  <2> QED
    BY <1>1, <2>1 DEF ClientInv, TookOf, Moves
<1>7. ASSUME NEW t \in Callers PROVE AttemptOf(t)'
  <2>1. t \in Users /\ (call[t].pc \in Handling => call[t].conn \in 1 .. Len(chan))
    BY DEF TypeOK, CallTypeOK
  <2> QED
    BY <1>1, <1>3, <2>1 DEF ClientInv, AttemptOf, Moves
<1>8. OneOpen'
  BY <1>1, <1>3 DEF ClientInv, OneOpen, Moves
<1> QED
  BY <1>1, <1>2, <1>4, <1>5, <1>6, <1>7, <1>8 DEF ClientInv

\* A step of an attempt that only changes where the attempt is.
LEMMA AttemptKeeps ==
    ASSUME TypeOK, ClientInv, NEW t \in Callers, NEW k \in Call,
           call' = [call EXCEPT ![t] = k],
           call[t].pc \notin Leaving, call[t].pc \notin Holding,
           k.took = None, k.pc \in {"idle", "finish"} \cup Attempting,
           k.pc # "idle" => k.ops # <<>>,
           k.pc \in {"resolving", "dialing"} => k.cands # <<>>,
           k.pc \in Attempting =>
                /\ channel = None
                /\ \A b \in 1 .. Len(chan) : chan[b].gen = k.gen => chan[b].shut,
           generation' \in {generation, generation + 1}, k.gen <= generation',
           attemptCancel' \in Callers \cup {Nobody},
           UNCHANGED <<channel, chan, applying, ended, told>>
    PROVE  TypeOK' /\ ClientInv'
<1>0. /\ generation \in Nat /\ t \in Users /\ call \in [Users -> Call]
      /\ \A u \in Users : call[u] \in Call /\ call[u].gen \in Nat
      /\ \A b \in 1 .. Len(chan) : chan[b].gen \in Nat
  <2>1. \A u \in Users : call[u] \in Call
    BY DEF TypeOK, CallTypeOK
  <2>2. \A b \in 1 .. Len(chan) : chan[b] \in Channel
    BY ChanElement DEF TypeOK, ChanTypeOK
  <2> QED
    BY <2>1, <2>2 DEF TypeOK, ClientTypeOK, CallTypeOK, Call, Channel
<1>1. call' \in [Users -> Call] /\ call'[t] = k /\ \A u \in Users : u # t => call'[u] = call[u]
  BY <1>0
<1>2. TypeOK'
  BY <1>0, <1>1 DEF TypeOK, ClientTypeOK, CallTypeOK, ChanTypeOK
<1>3. call[t].took = None
  BY <1>0 DEF ClientInv, TookOf
<1>4. ASSUME NEW b \in 1 .. Len(chan) PROVE ConnOf(b)' /\ (Open(b)' => Held(b)')
  <2>1. ConnOf(b)'
    BY <1>0 DEF ClientInv, ConnOf
  <2>2. Held(b) => Held(b)'
    <3>1. ASSUME NEW u \in Users, call[u].pc \in {"stopping", "closing"},
                 call[u].took = b
          PROVE  Held(b)'
      <4>1. u # t
        BY <1>3, <3>1
      <4> QED
        BY <1>1, <3>1, <4>1 DEF Held, At
    <3>2. chan[b].by \in Users
      <4>1. chan[b] \in Channel
        BY ChanElement DEF TypeOK, ChanTypeOK
      <4> QED
        BY <4>1 DEF Channel
    <3> QED
      BY <1>1, <3>1, <3>2 DEF Held
  <2>3. Open(b)' = Open(b)
    BY DEF Open
  <2> QED
    BY <2>1, <2>2, <2>3 DEF ClientInv
<1>5. ASSUME NEW u \in Users PROVE TookOf(u)' /\ call'[u].gen <= generation'
  <2>1. call'[u].gen <= generation'
    BY <1>0, <1>1 DEF ClientInv
  <2>2. TookOf(u)'
    BY <1>0, <1>1, <1>3 DEF ClientInv, TookOf
  <2> QED
    BY <2>1, <2>2
<1>6. ASSUME NEW u \in Callers PROVE AttemptOf(u)'
  <2>1. u = t
    BY OneCaller
  <2> QED
    BY <1>1, <2>1 DEF AttemptOf
<1>7. OneOpen'
  BY DEF ClientInv, OneOpen
<1> QED
  BY <1>2, <1>4, <1>5, <1>6, <1>7 DEF ClientInv

\* The operation a caller is at, and the candidates it still has.
LEMMA OpTypes ==
    ASSUME TypeOK, NEW t \in Callers
    PROVE  /\ call[t] \in Call
           /\ call[t].ops # <<>> =>
                /\ Op(t).candidates \in Seq({"ws", "wt"}) /\ Op(t).batches \in Nat
                /\ Op(t).valid \in BOOLEAN /\ Tail(call[t].ops) \in Seq(Operation)
           /\ call[t].cands # <<>> =>
                Head(call[t].cands) \in {"ws", "wt"} /\ Tail(call[t].cands) \in Seq({"ws", "wt"})
<1>1. call[t] \in Call /\ call[t].ops \in Seq(Operation) /\ call[t].cands \in Seq({"ws", "wt"})
  BY DEF TypeOK, CallTypeOK, Call
<1>2. ASSUME call[t].ops # <<>>
      PROVE  Op(t) \in Operation /\ Tail(call[t].ops) \in Seq(Operation)
  BY <1>1, <1>2, HeadTailProperties DEF Op
<1>3. ASSUME NEW op \in Operation
      PROVE  op.candidates \in Seq({"ws", "wt"}) /\ op.batches \in Nat /\ op.valid \in BOOLEAN
  <2>1. <<"ws">> \in Seq({"ws", "wt"}) /\ <<"wt">> \in Seq({"ws", "wt"})
        /\ <<"wt", "ws">> \in Seq({"ws", "wt"})
    OBVIOUS
  <2>2. op.candidates \in {<<"ws">>, <<"wt">>, <<"wt", "ws">>} /\ op.batches \in Nat
        /\ op.valid \in BOOLEAN
    BY DEF Operation
  <2> QED
    BY <2>1, <2>2
<1>4. ASSUME call[t].cands # <<>>
      PROVE  Head(call[t].cands) \in {"ws", "wt"} /\ Tail(call[t].cands) \in Seq({"ws", "wt"})
  BY <1>1, <1>4, HeadTailProperties
<1> QED
  BY <1>1, <1>2, <1>3, <1>4

\* What an attempt knows about its caller.
LEMMA CallerFacts ==
    ASSUME TypeOK, ClientInv, NEW t \in Callers
    PROVE  /\ call[t].gen \in Nat /\ call[t].gen <= generation /\ generation \in Nat
           /\ call[t].pc # "idle" => call[t].ops # <<>>
           /\ call[t].pc \in {"resolving", "dialing", "dropping"} => call[t].cands # <<>>
           /\ call[t].pc \in Handling => call[t].conn \in 1 .. Len(chan)
           /\ call[t].pc \notin Leaving => call[t].took = None
           /\ AttemptOf(t)
<1>1. t \in Users /\ call[t] \in Call
  BY DEF TypeOK, CallTypeOK
<1> QED
  BY <1>1 DEF TypeOK, ClientTypeOK, CallTypeOK, Call, ClientInv, TookOf

LEMMA AttemptStep1 ==
    ASSUME TypeOK, ClientInv, NEW t \in Callers,
           \/ Invalid(t) \/ beginConnect(t) \/ NextCandidate(t) \/ Resolve(t)
           \/ DialTimeout(t) \/ DialFails(t) \/ notifyOpen(t) \/ finish(t)
    PROVE  TypeOK' /\ ClientInv'
<1>0. /\ call[t] \in Call
      /\ call[t].ops # <<>> => Op(t).candidates \in Seq({"ws", "wt"}) /\ Op(t).valid \in BOOLEAN
                               /\ Tail(call[t].ops) \in Seq(Operation)
      /\ call[t].cands # <<>> => Tail(call[t].cands) \in Seq({"ws", "wt"})
      /\ attemptCancel \in Callers \cup {Nobody}
  BY OpTypes DEF TypeOK, ClientTypeOK
<1>a. /\ call[t].gen \in Nat /\ call[t].gen <= generation /\ generation \in Nat
      /\ call[t].pc # "idle" => call[t].ops # <<>>
      /\ call[t].pc \in {"resolving", "dialing"} => call[t].cands # <<>>
      /\ call[t].pc \notin Leaving => call[t].took = None
      /\ call[t].pc \notin {"idle", "opened", "finish"} => channel = None
      /\ call[t].pc \in Attempting =>
            \A b \in 1 .. Len(chan) : chan[b].gen = call[t].gen => chan[b].shut
  BY CallerFacts DEF AttemptOf
\* Every one of these steps changes the caller's record and nothing else that matters.
<1>b. ASSUME NEW k \in Call, call' = [call EXCEPT ![t] = k],
             call[t].pc \notin Leaving, call[t].pc \notin Holding,
             k.took = None, k.gen = call[t].gen, k.ops = call[t].ops,
             k.pc \in {"finish"} \cup Attempting,
             k.pc \in {"resolving", "dialing"} => k.cands # <<>>,
             k.pc \in Attempting => call[t].pc \in Attempting, call[t].pc # "idle",
             UNCHANGED <<generation, attemptCancel, channel, chan, applying, ended, told>>
      PROVE  TypeOK' /\ ClientInv'
  BY <1>0, <1>a, <1>b, AttemptKeeps
<1>1. CASE Invalid(t)
  <2> DEFINE k == [call[t] EXCEPT !.ops = Tail(@)]
  <2>1. /\ call' = [call EXCEPT ![t] = k] /\ call[t].ops # <<>> /\ call[t].pc = "idle"
        /\ UNCHANGED <<generation, attemptCancel, channel, chan, applying, ended, told>>
    BY <1>1 DEF Invalid, At, histVars
  <2>2. k \in Call /\ k.pc = "idle" /\ k.took = None /\ k.gen = call[t].gen
    BY <1>0, <1>a, <2>1 DEF Call
  <2> HIDE DEF k
  <2> QED
    BY <1>0, <1>a, <2>1, <2>2, AttemptKeeps
<1>2. CASE beginConnect(t)
  <2>1. call[t].pc = "stopped" /\ channel = None /\ call[t].ops # <<>>
    BY <1>2, <1>a DEF beginConnect, At
  <2>2. PICK cands \in Seq({"ws", "wt"}), pc \in {"candidate", "finish"} :
            call' = [call EXCEPT ![t].gen = generation + 1, ![t].done = FALSE,
                                 ![t].cands = cands, ![t].pc = pc]
    <3>1. <<"ws">> \in Seq({"ws", "wt"})
      OBVIOUS
    <3> QED
      BY <1>0, <1>2, <2>1, <3>1 DEF beginConnect
  <2> DEFINE k == [call[t] EXCEPT !.gen = generation + 1, !.done = FALSE,
                                !.cands = cands, !.pc = pc]
  <2>3. /\ call' = [call EXCEPT ![t] = k] /\ generation' = generation + 1
        /\ attemptCancel' = t /\ UNCHANGED <<channel, chan, applying, ended, told>>
    BY <1>2, <2>2 DEF beginConnect, histVars
  <2>4. /\ k \in Call /\ k.pc = pc /\ k.took = None
        /\ k.gen = generation + 1 /\ k.ops = call[t].ops
    <3> DEFINE g == generation + 1
               a == [call[t] EXCEPT !.gen = g]
               b == [a EXCEPT !.done = FALSE]
               d == [b EXCEPT !.cands = cands]
    <3>0. g \in Nat /\ call[t].took = None
      BY <1>a, <2>1
    <3> HIDE DEF g
    <3>1. a \in Call /\ a.gen = g /\ a.took = None /\ a.ops = call[t].ops
      BY <1>0, <3>0 DEF Call
    <3> HIDE DEF a
    <3>2. b \in Call /\ b.gen = g /\ b.took = None /\ b.ops = call[t].ops
      BY <3>1 DEF Call
    <3> HIDE DEF b
    <3>3. d \in Call /\ d.gen = g /\ d.took = None /\ d.ops = call[t].ops
      BY <3>2 DEF Call
    <3>4. k = [d EXCEPT !.pc = pc]
      BY DEF a, b, g
    <3> HIDE DEF d, k
    <3> QED
      BY <3>3, <3>4 DEF Call, g
  <2>5. \A b \in 1 .. Len(chan) : chan[b].gen # generation + 1
    <3>1. \A b \in 1 .. Len(chan) : chan[b].gen <= generation /\ chan[b] \in Channel
      BY ChanElement DEF ClientInv, ConnOf, TypeOK, ChanTypeOK
    <3> QED
      BY <1>a, <3>1 DEF Channel
  <2> HIDE DEF k
  <2>6. /\ k \in Call /\ k.gen <= generation' /\ k.pc \in {"idle", "finish"} \cup Attempting
        /\ k.pc # "idle" => k.ops # <<>>
        /\ k.pc \notin {"resolving", "dialing"}
        /\ k.pc \in Attempting => \A b \in 1 .. Len(chan) : chan[b].gen = k.gen => chan[b].shut
    BY <1>a, <2>1, <2>3, <2>4, <2>5
  <2>7. attemptCancel' \in Callers \cup {Nobody} /\ generation' \in {generation, generation + 1}
    BY <2>3
  <2>8. call[t].pc \notin Leaving /\ call[t].pc \notin Holding /\ k.took = None
    BY <2>1, <2>4
  <2> QED
    BY <2>1, <2>3, <2>6, <2>7, <2>8, AttemptKeeps
<1>4. CASE NextCandidate(t)
  <2>1. /\ call[t].pc = "candidate"
        /\ UNCHANGED <<generation, attemptCancel, channel, chan, applying, ended, told>>
    BY <1>4 DEF NextCandidate, At, histVars
  <2>2. CASE \E pc \in {"finish", "dialing", "resolving"} :
                  /\ call' = [call EXCEPT ![t].pc = pc]
                  /\ pc # "finish" => call[t].cands # <<>>
    <3>1. PICK pc \in {"finish", "dialing", "resolving"} :
                  /\ call' = [call EXCEPT ![t].pc = pc]
                  /\ pc # "finish" => call[t].cands # <<>>
      BY <2>2
    <3> DEFINE k == [call[t] EXCEPT !.pc = pc]
    <3>2. /\ k \in Call /\ k.pc = pc /\ k.took = None /\ k.gen = call[t].gen
          /\ k.ops = call[t].ops /\ k.cands = call[t].cands
      BY <1>0, <1>a, <2>1 DEF Call
    <3>3. call' = [call EXCEPT ![t] = k]
      BY <3>1
    <3> HIDE DEF k
    <3> QED
      BY <1>b, <2>1, <3>1, <3>2, <3>3
  <2>3. CASE call' = [call EXCEPT ![t].cands = Tail(@)] /\ call[t].cands # <<>>
    <3> DEFINE k == [call[t] EXCEPT !.cands = Tail(@)]
    <3>1. /\ k \in Call /\ k.pc = "candidate" /\ k.took = None /\ k.gen = call[t].gen
          /\ k.ops = call[t].ops
      BY <1>0, <1>a, <2>1, <2>3 DEF Call
    <3>2. call' = [call EXCEPT ![t] = k]
      BY <2>3
    <3> HIDE DEF k
    <3> QED
      BY <1>b, <2>1, <3>1, <3>2
  <2> QED
    BY <1>4, <2>2, <2>3 DEF NextCandidate, Goto
<1>5. CASE Resolve(t)
  <2>1. /\ call[t].pc = "resolving"
        /\ UNCHANGED <<generation, attemptCancel, channel, chan, applying, ended, told>>
    BY <1>5 DEF Resolve, At, histVars
  <2> DEFINE k1 == [call[t] EXCEPT !.pc = "finish"]
             k2 == [call[t] EXCEPT !.pc = "dialing", !.late = FALSE]
  <2>2. /\ k1 \in Call /\ k1.pc = "finish" /\ k1.took = None /\ k1.gen = call[t].gen
        /\ k1.ops = call[t].ops
    BY <1>0, <1>a, <2>1 DEF Call
  <2>3. /\ k2 \in Call /\ k2.pc = "dialing" /\ k2.took = None /\ k2.gen = call[t].gen
        /\ k2.ops = call[t].ops /\ k2.cands = call[t].cands
    BY <1>0, <1>a, <2>1 DEF Call
  <2>4. call' = [call EXCEPT ![t] = k1] \/ call' = [call EXCEPT ![t] = k2]
    BY <1>5 DEF Resolve, Goto
  <2> HIDE DEF k1, k2
  <2> QED
    BY <1>a, <1>b, <2>1, <2>2, <2>3, <2>4
<1>6. CASE DialTimeout(t)
  <2> DEFINE k == [call[t] EXCEPT !.late = TRUE]
  <2>1. /\ call' = [call EXCEPT ![t] = k] /\ call[t].pc = "dialing"
        /\ UNCHANGED <<generation, attemptCancel, channel, chan, applying, ended, told>>
    BY <1>6 DEF DialTimeout, At, histVars
  <2>2. /\ k \in Call /\ k.pc = call[t].pc /\ k.took = None /\ k.gen = call[t].gen
        /\ k.ops = call[t].ops /\ k.cands = call[t].cands
    BY <1>0, <1>a, <2>1 DEF Call
  <2> HIDE DEF k
  <2> QED
    BY <1>a, <1>b, <2>1, <2>2
<1>7. CASE DialFails(t)
  <2>1. /\ call[t].pc = "dialing"
        /\ UNCHANGED <<generation, attemptCancel, channel, chan, applying, ended, told>>
    BY <1>7 DEF DialFails, At, histVars
  <2>2. PICK terminal \in BOOLEAN : call' = [call EXCEPT ![t] = AfterFailure(t, terminal)]
    BY <1>7 DEF DialFails
  <2> DEFINE k == AfterFailure(t, terminal)
  <2>3. /\ k \in Call /\ k.pc \in {"candidate", "finish"} /\ k.took = None
        /\ k.gen = call[t].gen /\ k.ops = call[t].ops
    BY <1>0, <1>a, <2>1 DEF AfterFailure, Call
  <2> HIDE DEF k
  <2> QED
    BY <1>b, <2>1, <2>2, <2>3 DEF k
<1>8. CASE notifyOpen(t)
  <2> DEFINE k == [call[t] EXCEPT !.pc = "finish"]
  <2>1. /\ call' = [call EXCEPT ![t] = k] /\ call[t].pc = "opened"
        /\ UNCHANGED <<generation, attemptCancel, channel, chan, applying, ended, told>>
    BY <1>8 DEF notifyOpen, At, Goto
  <2>2. /\ k \in Call /\ k.pc = "finish" /\ k.took = None /\ k.gen = call[t].gen
        /\ k.ops = call[t].ops
    BY <1>0, <1>a, <2>1 DEF Call
  <2> HIDE DEF k
  <2> QED
    BY <1>b, <2>1, <2>2
<1>9. CASE finish(t)
  <2> DEFINE k == [NoCall EXCEPT !.ops = Tail(call[t].ops)]
  <2>1. /\ call' = [call EXCEPT ![t] = k] /\ call[t].pc = "finish"
        /\ attemptCancel' \in Callers \cup {Nobody}
        /\ UNCHANGED <<generation, channel, chan, applying, ended, told>>
    BY <1>0, <1>9 DEF finish, At, histVars
  <2>2. k \in Call /\ k.pc = "idle" /\ k.took = None /\ k.gen = 0
    <3>1. <<>> \in Seq({"ws", "wt"})
      OBVIOUS
    <3> QED
      BY <1>0, <1>a, <2>1, <3>1 DEF Call, NoCall
  <2> HIDE DEF k
  <2>3. /\ k \in Call /\ k.gen <= generation' /\ k.pc \in {"idle", "finish"} \cup Attempting
        /\ k.pc = "idle" /\ k.pc \notin {"resolving", "dialing"} /\ k.pc \notin Attempting
    BY <1>a, <2>1, <2>2
  <2>4. generation' \in {generation, generation + 1}
    BY <2>1
  <2>5. call[t].pc \notin Leaving /\ call[t].pc \notin Holding /\ k.took = None
    BY <2>1, <2>2
  <2> QED
    BY <2>1, <2>3, <2>4, <2>5, AttemptKeeps
<1> QED
  BY <1>1, <1>2, <1>4, <1>5, <1>6, <1>7, <1>8, <1>9

\* The record of one goroutine is replaced.
LEMMA CallSet ==
    ASSUME TypeOK, NEW t \in Users, NEW k \in Call, call' = [call EXCEPT ![t] = k]
    PROVE  /\ call' \in [Users -> Call] /\ call'[t] = k
           /\ \A u \in Users : u # t => call'[u] = call[u]
  BY DEF TypeOK, CallTypeOK

\* The facts about one channel and one goroutine that the steps below use.
LEMMA ConnFacts ==
    ASSUME TypeOK, ClientInv, NEW c \in 1 .. Len(chan)
    PROVE  /\ chan[c] \in Channel /\ chan[c].gen \in Nat /\ chan[c].by \in Users
           /\ c \in Connections /\ told[c] \in Nat /\ ConnOf(c) /\ (Open(c) => Held(c))
<1>1. chan[c] \in Channel
  BY ChanElement DEF TypeOK, ChanTypeOK
<1>2. c \in Connections
  BY GameClientAssumption DEF TypeOK, ChanTypeOK, Connections
<1> QED
  BY <1>1, <1>2 DEF TypeOK, ClientTypeOK, ClientInv, Channel

\* The end of the caller's context changes nothing that the invariant is about.
LEMMA ContextEnds ==
    ASSUME TypeOK, ClientInv, NEW t \in Callers, ContextDone(t)
    PROVE  TypeOK' /\ ClientInv'
<1> DEFINE k == [call[t] EXCEPT !.done = TRUE]
<1>1. call[t] \in Call /\ t \in Users
  BY DEF TypeOK, CallTypeOK
<1>2. /\ call' = [call EXCEPT ![t] = k]
      /\ UNCHANGED <<generation, attemptCancel, channel, chan, applying, ended, told>>
  BY DEF ContextDone, histVars
<1>3. /\ k \in Call /\ k.pc = call[t].pc /\ k.took = call[t].took /\ k.gen = call[t].gen
      /\ k.ops = call[t].ops /\ k.cands = call[t].cands /\ k.conn = call[t].conn
  BY <1>1 DEF Call
<1> HIDE DEF k
<1>4. /\ call' \in [Users -> Call]
      /\ \A u \in Users :
            /\ call'[u].pc = call[u].pc /\ call'[u].took = call[u].took
            /\ call'[u].gen = call[u].gen /\ call'[u].ops = call[u].ops
            /\ call'[u].cands = call[u].cands /\ call'[u].conn = call[u].conn
  BY <1>1, <1>2, <1>3, CallSet
<1>5. TypeOK'
  BY <1>2, <1>4 DEF TypeOK, ClientTypeOK, CallTypeOK, ChanTypeOK
<1>6. ASSUME NEW b \in 1 .. Len(chan) PROVE ConnOf(b)' /\ (Open(b)' => Held(b)')
  BY <1>2, <1>4, ConnFacts DEF ConnOf, Open, Held
<1>7. ASSUME NEW u \in Users PROVE TookOf(u)' /\ call'[u].gen <= generation'
  BY <1>2, <1>4 DEF ClientInv, TookOf
<1>8. ASSUME NEW u \in Callers PROVE AttemptOf(u)'
  BY <1>2, <1>4 DEF ClientInv, AttemptOf
<1> QED
  BY <1>2, <1>5, <1>6, <1>7, <1>8 DEF ClientInv, OneOpen

LEMMA ReaderStep1 ==
    ASSUME TypeOK, ClientInv, NEW c \in 1 .. Len(chan),
           \/ Cut(c) \/ ChannelFails(c) \/ Read(c) \/ enqueue(c) \/ ReadFails(c)
           \/ CloseBeforeInstall(c) \/ CloseStops(c) \/ Dispatch(c)
    PROVE  TypeOK' /\ ClientInv'
<1>1. ConnOf(c)
  BY ConnFacts
<1>2. PICK r \in Channel : chan' = [chan EXCEPT ![c] = r] /\ Moves(chan[c], r)
  BY <1>1, ChannelMoves
<1>3. UNCHANGED <<generation, attemptCancel, channel, call, ended, told>>
  BY <1>1, ChannelMoves
<1>4. applying' \in Nat
  BY DEF Cut, ChannelFails, Read, enqueue, ReadFails, CloseBeforeInstall, CloseStops, Dispatch,
         TypeOK, ClientTypeOK
<1> QED
  BY <1>2, <1>3, <1>4, MovesKeep

\* OnClose of the current connection takes it out of the client.
LEMMA ReaderStep2 ==
    ASSUME TypeOK, ClientInv, NEW c \in 1 .. Len(chan), CloseOfChannel(c)
    PROVE  TypeOK' /\ ClientInv'
<1> DEFINE ch == chan[c]
<1>0. /\ ch \in Channel /\ ch.reader = "client" /\ ConnOf(c) /\ c \in Connections
  BY ConnFacts DEF CloseOfChannel
<1>1. CASE ~(generation = chan[c].gen /\ channel = c)
  <2> DEFINE r == [ch EXCEPT !.reader = "end"]
  <2>1. r \in Channel /\ Moves(ch, r)
    BY <1>0 DEF Channel, Moves, ConnOf
  <2> HIDE DEF r
  <2>2. Stopped(r) \in Channel /\ Moves(ch, Stopped(r))
    <3> HIDE DEF ch
    <3> QED
      BY <1>0, <2>1, StopMoves
  <2>3. /\ chan' = [chan EXCEPT ![c] = Stopped(r)] /\ applying' \in Nat
        /\ UNCHANGED <<generation, attemptCancel, channel, call, ended, told>>
    BY <1>1 DEF CloseOfChannel, r, TypeOK, ClientTypeOK
  <2> QED
    BY <2>2, <2>3, MovesKeep
<1>2. CASE generation = chan[c].gen /\ channel = c
  <2> DEFINE r == [ch EXCEPT !.reader = "stop"]
  <2>1. /\ channel' = None /\ ended' = ended \cup {c} /\ chan' = [chan EXCEPT ![c] = r]
        /\ UNCHANGED <<generation, attemptCancel, call, applying, told>>
    BY <1>2 DEF CloseOfChannel
  <2>2. /\ r \in Channel /\ r.gen = ch.gen /\ r.by = ch.by /\ r.installed = ch.installed
        /\ r.shut = ch.shut /\ r.cut = ch.cut /\ r.failed = ch.failed
        /\ r.stopped = ch.stopped /\ r.up = ch.up /\ r.reader = "stop"
    BY <1>0 DEF Channel
  <2> HIDE DEF r
  <2>3. /\ chan' \in Seq(Channel) /\ Len(chan') = Len(chan) /\ chan'[c] = r
        /\ \A b \in 1 .. Len(chan) : b # c => chan'[b] = chan[b]
    BY <2>1, <2>2, ChanSet DEF TypeOK, ChanTypeOK
  <2>4. c \notin ended /\ told[c] = 0 /\ ch.installed /\ (ch.cut \/ ch.failed \/ ch.shut)
    <3>1. c \notin ended /\ chan[c].installed
      BY <1>0, <1>2 DEF ConnOf
    <3>2. told[c] = 0
      BY <1>0, <3>1 DEF ConnOf
    <3>3. chan[c].cut \/ chan[c].failed \/ chan[c].shut
      BY <1>0 DEF ConnOf
    <3> QED
      BY <3>1, <3>2, <3>3
  <2>5. TypeOK'
    <3>1. ended' \subseteq Nat
      <4>1. c \in Nat
        OBVIOUS
      <4> QED
        BY <2>1, <4>1 DEF TypeOK, ClientTypeOK
    <3>2. ClientTypeOK'
      BY <2>1, <3>1 DEF TypeOK, ClientTypeOK
    <3>3. CallTypeOK'
      BY <2>1, <2>3 DEF TypeOK, CallTypeOK
    <3>4. ChanTypeOK'
      <4>1. 0 \in 0 .. Len(chan)
        BY LenProperties DEF TypeOK, ChanTypeOK
      <4> QED
        BY <2>1, <2>3, <4>1 DEF TypeOK, ChanTypeOK
    <3> QED
      BY <3>2, <3>3, <3>4 DEF TypeOK
  <2>6. ASSUME NEW b \in 1 .. Len(chan) PROVE ConnOf(b)' /\ (Open(b)' => Held(b)')
    <3>1. CASE b = c
      <4>1. channel' # c /\ c \in ended' /\ told'[c] = 0 /\ generation' = generation
        BY <2>1, <2>4
      <4>2. chan'[c] = r /\ (r.cut \/ r.failed \/ r.shut) /\ r.installed
        BY <2>2, <2>3, <2>4
      <4>3. ch.gen <= generation /\ (ch.shut => ~ch.up)
        BY <1>0 DEF ConnOf
      <4>4. ConnOf(c)'
        BY <2>2, <4>1, <4>2, <4>3 DEF ConnOf
      <4> QED
        BY <2>2, <4>1, <3>1, <4>2, <4>4 DEF Open, Held
    <3>2. CASE b # c
      BY <1>2, <2>1, <2>3, <3>2, ConnFacts DEF ConnOf, Open, Held, At
    <3> QED
      BY <3>1, <3>2
  <2>7. ASSUME NEW t \in Users PROVE TookOf(t)' /\ call'[t].gen <= generation'
    <3>1. call[t].took # c
      BY <2>4 DEF ClientInv, TookOf
    <3> QED
      BY <2>1, <2>3, <3>1 DEF ClientInv, TookOf
  <2>8. ASSUME NEW t \in Callers PROVE AttemptOf(t)'
    <3>1. t \in Users /\ (call[t].pc \in Handling => call[t].conn \in 1 .. Len(chan))
      BY DEF TypeOK, CallTypeOK
    <3> QED
      BY <2>1, <2>2, <2>3, <3>1 DEF ClientInv, AttemptOf
  <2>9. OneOpen'
    BY <2>2, <2>3 DEF ClientInv, OneOpen
  <2> QED
    BY <2>1, <2>3, <2>5, <2>6, <2>7, <2>8, <2>9 DEF ClientInv
<1> QED
  BY <1>1, <1>2

LEMMA ReaderStep3 ==
    ASSUME TypeOK, ClientInv, NEW c \in 1 .. Len(chan), CloseNotifies(c)
    PROVE  TypeOK' /\ ClientInv'
<1> DEFINE ch == chan[c]
           r == [ch EXCEPT !.reader = "end"]
<1>0. ch \in Channel /\ ch.reader = "notify" /\ ConnOf(c) /\ c \in Connections
  BY ConnFacts DEF CloseNotifies
<1>1. /\ told' = [told EXCEPT ![c] = told[c] + 1] /\ chan' = [chan EXCEPT ![c] = r]
      /\ UNCHANGED <<generation, attemptCancel, channel, call, applying, ended>>
  BY DEF CloseNotifies
<1>2. /\ r \in Channel /\ r.gen = ch.gen /\ r.by = ch.by /\ r.installed = ch.installed
      /\ r.shut = ch.shut /\ r.cut = ch.cut /\ r.failed = ch.failed
      /\ r.stopped = ch.stopped /\ r.up = ch.up /\ r.reader = "end"
  BY <1>0 DEF Channel
<1> HIDE DEF r
<1>3. /\ chan' \in Seq(Channel) /\ Len(chan') = Len(chan) /\ chan'[c] = r
      /\ \A b \in 1 .. Len(chan) : b # c => chan'[b] = chan[b]
  BY <1>1, <1>2, ChanSet DEF TypeOK, ChanTypeOK
<1>4. /\ c \in ended /\ told[c] = 0 /\ ch.installed /\ ch.stopped /\ channel # c
      /\ ch.cut \/ ch.failed \/ ch.shut
  BY <1>0 DEF ConnOf
<1>5. /\ told' \in [Connections -> Nat] /\ told'[c] = 1
      /\ \A b \in Connections : b # c => told'[b] = told[b]
  BY <1>0, <1>1, <1>4 DEF TypeOK, ClientTypeOK
<1>6. TypeOK'
  BY <1>1, <1>3, <1>5 DEF TypeOK, ClientTypeOK, CallTypeOK, ChanTypeOK
<1>7. ASSUME NEW b \in 1 .. Len(chan) PROVE ConnOf(b)' /\ (Open(b)' => Held(b)')
  <2>0. b \in Connections /\ ConnOf(b) /\ (Open(b) => Held(b))
    BY ConnFacts
  <2>1. CASE b = c
    <3>1. ConnOf(b)'
      <4>1. ch.gen <= generation /\ (ch.shut => ~ch.up)
        BY <1>0 DEF ConnOf
      <4>2. /\ chan'[c].gen <= generation' /\ (chan'[c].shut => ~chan'[c].up)
            /\ chan'[c].reader = "end" /\ (chan'[c].cut \/ chan'[c].failed \/ chan'[c].shut)
            /\ chan'[c].installed /\ chan'[c].stopped
        BY <1>1, <1>2, <1>3, <1>4, <4>1
      <4>3. c \in ended' /\ channel' # c
        BY <1>1, <1>4
      <4> QED
        BY <2>1, <4>2, <4>3 DEF ConnOf
    <3>2. r.installed /\ (r.cut \/ r.failed \/ r.shut) /\ c \in ended'
      BY <1>1, <1>2, <1>4
    <3> QED
      BY <1>3, <2>1, <3>1, <3>2 DEF Open, Held
  <2>2. CASE b # c
    BY <1>1, <1>3, <1>5, <2>0, <2>2 DEF ConnOf, Open, Held, At
  <2> QED
    BY <2>1, <2>2
<1>8. ASSUME NEW t \in Users PROVE TookOf(t)' /\ call'[t].gen <= generation'
  <2>1. call[t].took # c
    BY <1>0 DEF ClientInv, TookOf
  <2>2. call[t].took \in 1 .. Len(chan) => call[t].took \in Connections
    BY ConnFacts
  <2> QED
    BY <1>1, <1>3, <1>5, <2>1, <2>2 DEF ClientInv, TookOf
<1>9. ASSUME NEW t \in Callers PROVE AttemptOf(t)'
  <2>1. t \in Users /\ (call[t].pc \in Handling => call[t].conn \in 1 .. Len(chan))
    BY DEF TypeOK, CallTypeOK
  <2> QED
    BY <1>1, <1>2, <1>3, <2>1 DEF ClientInv, AttemptOf
<1>10. OneOpen'
  BY <1>2, <1>3 DEF ClientInv, OneOpen
<1> QED
  BY <1>1, <1>3, <1>5, <1>6, <1>7, <1>8, <1>9, <1>10 DEF ClientInv

LEMMA ApplyKeeps ==
    ASSUME TypeOK, ClientInv, NEW c \in 1 .. Len(chan), Apply(c)
    PROVE  TypeOK' /\ ClientInv'
<1>1. /\ applying' \in Nat
      /\ UNCHANGED <<generation, attemptCancel, channel, call, chan, ended, told>>
  BY DEF Apply, histVars
<1> QED
  BY <1>1 DEF TypeOK, ClientTypeOK, CallTypeOK, ChanTypeOK, ClientInv, ConnOf, Open, Held, At,
              TookOf, AttemptOf, OneOpen

\* Disconnect takes the current connection.
LEMMA DisconnectTakes ==
    ASSUME TypeOK, ClientInv, NEW t \in Users, Disconnect(t)
    PROVE  TypeOK' /\ ClientInv'
<1> DEFINE g == generation + 1
           k == [call[t] EXCEPT !.pc = "stopping", !.took = channel,
                                !.cancels = attemptCancel, !.gen = g]
<1>0. /\ generation' = g /\ call' = [call EXCEPT ![t] = k] /\ attemptCancel' = Nobody
      /\ channel' = None /\ ended' = ended \cup ({channel} \ {None})
      /\ UNCHANGED <<chan, applying, told>>
      /\ call[t].pc = "idle" /\ (t \in Callers => call[t].ops # <<>>)
  BY DEF Disconnect, At
<1>1. /\ call[t] \in Call /\ call \in [Users -> Call] /\ generation \in Nat /\ g \in Nat
      /\ generation <= g /\ channel \in Nat /\ channel \in 0 .. Len(chan)
      /\ attemptCancel \in Callers \cup {Nobody} /\ Len(chan) \in Nat
  BY LenProperties DEF TypeOK, ClientTypeOK, CallTypeOK, ChanTypeOK
<1>2. /\ k \in Call /\ k.pc = "stopping" /\ k.took = channel /\ k.gen = g
      /\ k.ops = call[t].ops
  <2> HIDE DEF g
  <2> DEFINE a == [call[t] EXCEPT !.pc = "stopping"]
             b == [a EXCEPT !.took = channel]
             d == [b EXCEPT !.cancels = attemptCancel]
  <2>1. a \in Call /\ a.pc = "stopping" /\ a.ops = call[t].ops
    BY <1>1 DEF Call
  <2> HIDE DEF a
  <2>2. b \in Call /\ b.pc = "stopping" /\ b.ops = call[t].ops /\ b.took = channel
    BY <1>1, <2>1 DEF Call
  <2> HIDE DEF b
  <2>3. d \in Call /\ d.pc = "stopping" /\ d.ops = call[t].ops /\ d.took = channel
    BY <1>1, <2>2 DEF Call
  <2>4. k = [d EXCEPT !.gen = g]
    BY DEF a, b
  <2> HIDE DEF d, k
  <2> QED
    BY <1>1, <2>3, <2>4 DEF Call
<1> HIDE DEF k
<1>3. /\ call' \in [Users -> Call] /\ call'[t] = k
      /\ \A u \in Users : u # t => call'[u] = call[u]
  BY <1>0, <1>2, CallSet
<1>4. TypeOK'
  <2>1. ClientTypeOK' /\ ChanTypeOK'
    <3>1. ended' \subseteq Nat
      BY <1>0, <1>1 DEF TypeOK, ClientTypeOK
    <3>2. 0 \in 0 .. Len(chan)
      BY <1>1
    <3> HIDE DEF g
    <3> QED
      BY <1>0, <1>1, <3>1, <3>2 DEF TypeOK, ClientTypeOK, ChanTypeOK
  <2>2. CallTypeOK'
    BY <1>0, <1>2, <1>3 DEF TypeOK, CallTypeOK
  <2> QED
    BY <2>1, <2>2 DEF TypeOK
<1>5. channel # None => /\ channel \in 1 .. Len(chan) /\ channel \notin ended
                        /\ told[channel] = 0 /\ chan[channel].installed
                        /\ chan[channel].reader \notin {"stop", "notify"}
  <2>1. channel # None => channel \in 1 .. Len(chan)
    BY <1>1
  <2> QED
    BY <2>1 DEF ClientInv, ConnOf
<1>6. ASSUME NEW b \in 1 .. Len(chan) PROVE ConnOf(b)' /\ (Open(b)' => Held(b)')
  <2>0. /\ ConnOf(b) /\ (Open(b) => Held(b)) /\ chan[b].gen \in Nat /\ chan[b].by \in Users
    BY ConnFacts
  <2>1. chan[b].gen <= g
    BY <1>1, <2>0 DEF ConnOf
  <2>2. ConnOf(b)'
    <3> HIDE DEF g
    <3> QED
      BY <1>0, <1>5, <2>0, <2>1 DEF ConnOf
  <2>3. ASSUME Held(b) PROVE Held(b)'
    <3>1. CASE channel = b
      BY <1>2, <1>3, <3>1 DEF Held, At
    <3>2. CASE call[chan[b].by].conn = b /\ call[chan[b].by].pc \in Holding
      BY <1>0, <1>3, <2>0, <3>2 DEF Held
    <3>3. CASE \E u \in Users : call[u].pc \in {"stopping", "closing"} /\ call[u].took = b
      BY <1>0, <1>3, <3>3 DEF Held, At
    <3>4. CASE chan[b].failed /\ chan[b].installed /\ b \in ended
      BY <1>0, <3>4 DEF Held
    <3> QED
      BY <2>3, <3>1, <3>2, <3>3, <3>4 DEF Held
  <2>4. Open(b)' = Open(b)
    BY <1>0 DEF Open
  <2> QED
    BY <2>0, <2>2, <2>3, <2>4
<1>7. ASSUME NEW u \in Users PROVE TookOf(u)' /\ call'[u].gen <= generation'
  <2>1. call'[u].gen <= generation'
    <3>1. call[u].gen \in Nat /\ call[u].gen <= generation
      BY <1>1 DEF ClientInv, Call
    <3> QED
      BY <1>0, <1>1, <1>2, <1>3, <3>1
  <2>2. TookOf(u)'
    <3>1. \A v \in Users : call[v].took # None =>
              call[v].took \in ended /\ call[v].took \in 1 .. Len(chan)
      BY DEF ClientInv, TookOf
    <3>2. CASE u = t
      <4>1. \A v \in Users : call'[v].took = channel /\ channel # None => v = t
        BY <1>3, <1>5, <3>1
      <4> QED
        BY <1>0, <1>2, <1>3, <1>5, <3>2, <4>1 DEF TookOf
    <3>3. CASE u # t
      <4>1. call[u].took # None => \A v \in Users : call'[v].took = call[u].took => v = u
        <5>1. call[u].took # None => call[u].took # channel
          BY <1>5, <3>1
        <5> QED
          BY <1>2, <1>3, <5>1 DEF ClientInv, TookOf
      <4> QED
        BY <1>0, <1>3, <3>3, <4>1 DEF ClientInv, TookOf
    <3> QED
      BY <3>2, <3>3
  <2> QED
    BY <2>1, <2>2
<1>8. ASSUME NEW u \in Callers PROVE AttemptOf(u)'
  <2>1. CASE u = t
    BY <1>0, <1>2, <1>3, <2>1 DEF AttemptOf
  <2>2. CASE u # t
    BY <1>0, <1>3, <2>2 DEF ClientInv, AttemptOf
  <2> QED
    BY <2>1, <2>2
<1>9. OneOpen'
  BY <1>0 DEF ClientInv, OneOpen
<1>10. ended' \subseteq 1 .. Len(chan')
  BY <1>0, <1>5 DEF ClientInv
<1> QED
  BY <1>0, <1>4, <1>6, <1>7, <1>8, <1>9, <1>10 DEF ClientInv

\* Disconnect stops the dispatcher of what it took, closes it and cancels the attempt.
LEMMA DisconnectCloses ==
    ASSUME TypeOK, ClientInv, NEW t \in Users, DisconnectStops(t)
    PROVE  TypeOK' /\ ClientInv'
<1> DEFINE c == call[t].took
           k == [call[t] EXCEPT !.pc = IF c = None THEN Resumed(t) ELSE "closing",
                                !.cancels = Nobody]
<1>0. /\ call[t].pc = "stopping"
      /\ chan' = IF c = None THEN chan ELSE [chan EXCEPT ![c] = Closing(Stopped(chan[c]))]
      /\ UNCHANGED <<generation, attemptCancel, channel, applying, ended, told>>
      /\ call' = [s \in DOMAIN call |->
            IF s = t THEN k
            ELSE IF s = call[t].cancels THEN [call[s] EXCEPT !.done = TRUE] ELSE call[s]]
  BY DEF DisconnectStops, At, histVars
<1>1. call \in [Users -> Call] /\ \A u \in Users : call[u] \in Call
  BY DEF TypeOK, CallTypeOK
<1>2. /\ k \in Call /\ k.pc = (IF c = None THEN Resumed(t) ELSE "closing") /\ k.took = c
      /\ k.gen = call[t].gen /\ k.ops = call[t].ops
  <2>1. call[t] \in Call
    BY <1>1
  <2> QED
    BY <2>1 DEF Call, Resumed
<1> HIDE DEF k
<1>3. /\ call' \in [Users -> Call] /\ call'[t] = k
      /\ \A u \in Users : u # t =>
            /\ call'[u].pc = call[u].pc /\ call'[u].ops = call[u].ops
            /\ call'[u].gen = call[u].gen /\ call'[u].cands = call[u].cands
            /\ call'[u].conn = call[u].conn /\ call'[u].took = call[u].took
  <2>1. ASSUME NEW u \in Users
        PROVE  LET d == [call[u] EXCEPT !.done = TRUE] IN
               /\ d \in Call /\ d.pc = call[u].pc /\ d.ops = call[u].ops
               /\ d.gen = call[u].gen /\ d.cands = call[u].cands
               /\ d.conn = call[u].conn /\ d.took = call[u].took
    <3>1. call[u] \in Call
      BY <1>1
    <3> QED
      BY <3>1 DEF Call
  <2>2. DOMAIN call = Users
    BY <1>1
  <2>3. ASSUME NEW u \in Users, u # t
        PROVE  call'[u] = [call[u] EXCEPT !.done = TRUE] \/ call'[u] = call[u]
    BY <1>0, <2>2, <2>3
  <2>4. call'[t] = k
    BY <1>0, <2>2
  <2>5. \A u \in Users : call'[u] \in Call
    BY <1>1, <1>2, <2>1, <2>3, <2>4
  <2>6. call' \in [Users -> Call]
    BY <1>0, <2>2, <2>5
  <2> QED
    BY <2>1, <2>3, <2>4, <2>6
<1>4. c # None =>
        /\ c \in 1 .. Len(chan) /\ c \in ended /\ told[c] = 0 /\ channel # c
        /\ chan[c].reader \notin {"stop", "notify"} /\ chan[c].installed
        /\ \A u \in Users : call[u].took = c => u = t
  <2>1. c # None =>
        /\ c \in 1 .. Len(chan) /\ c \in ended /\ told[c] = 0
        /\ chan[c].reader \notin {"stop", "notify"}
        /\ \A u \in Users : call[u].took = c => u = t
    BY DEF ClientInv, TookOf
  <2> QED
    BY <2>1 DEF ClientInv, ConnOf
<1>5. /\ chan' \in Seq(Channel) /\ Len(chan') = Len(chan)
      /\ \A b \in 1 .. Len(chan) : b # c => chan'[b] = chan[b]
      /\ c # None =>
            /\ chan'[c].shut = chan[c].shut /\ (chan'[c].up => chan[c].up) /\ chan'[c].stopped
            /\ chan'[c].failed = chan[c].failed
            /\ chan'[c].gen = chan[c].gen /\ chan'[c].by = chan[c].by
            /\ chan'[c].installed = chan[c].installed /\ chan'[c].cut = chan[c].cut
            /\ chan'[c].reader = chan[c].reader
  <2>1. CASE c = None
    BY <1>0, <2>1 DEF TypeOK, ChanTypeOK
  <2>2. CASE c # None
    <3> DEFINE r == Closing(Stopped(chan[c]))
    <3>0. c \in 1 .. Len(chan) /\ chan[c] \in Channel
      BY <1>4, <2>2, ChanElement DEF TypeOK, ChanTypeOK
    <3>1. /\ Stopped(chan[c]) \in Channel /\ Stopped(chan[c]).stopped
          /\ Moves(chan[c], Stopped(chan[c]))
          /\ Stopped(chan[c]).reader = chan[c].reader /\ Stopped(chan[c]).cut = chan[c].cut
          /\ Stopped(chan[c]).failed = chan[c].failed
      BY <3>0, StopMoves
    <3>2. /\ r \in Channel /\ r.shut = chan[c].shut /\ (r.up => chan[c].up) /\ r.stopped
          /\ r.gen = chan[c].gen /\ r.by = chan[c].by /\ r.installed = chan[c].installed
          /\ r.cut = chan[c].cut /\ r.failed = chan[c].failed /\ r.reader = chan[c].reader
      BY <3>1, ClosingMoves DEF Moves
    <3> HIDE DEF r
    <3>3. chan' = [chan EXCEPT ![c] = r]
      BY <1>0, <2>2 DEF r
    <3>4. /\ chan' \in Seq(Channel) /\ Len(chan') = Len(chan) /\ chan'[c] = r
          /\ \A b \in 1 .. Len(chan) : b # c => chan'[b] = chan[b]
      <4> HIDE DEF c
      <4> QED
        BY <3>0, <3>2, <3>3, ChanSet DEF TypeOK, ChanTypeOK
    <3> QED
      BY <3>2, <3>4
  <2> QED
    BY <2>1, <2>2
<1>6. t \in Callers => channel = None /\ call[t].ops # <<>>
  BY <1>0, CallerFacts DEF AttemptOf
<1>7. TypeOK'
  <2>1. ClientTypeOK' /\ ChanTypeOK'
    BY <1>0, <1>5 DEF TypeOK, ClientTypeOK, ChanTypeOK
  <2>2. CallTypeOK'
    <3>1. ASSUME NEW u \in Users
          PROVE  /\ call'[u].pc = "idle" \/ u \in Callers \/ call'[u].pc \in Leaving
                 /\ call'[u].pc # "idle" /\ u \in Callers => call'[u].ops # <<>>
                 /\ call'[u].pc \in {"resolving", "dialing", "dropping"} => call'[u].cands # <<>>
                 /\ call'[u].pc \in Handling => call'[u].conn \in 1 .. Len(chan')
      <4>1. CASE u = t
        BY <1>2, <1>3, <1>6, <4>1 DEF Resumed
      <4>2. CASE u # t
        BY <1>3, <1>5, <4>2 DEF TypeOK, CallTypeOK
      <4> QED
        BY <4>1, <4>2
    <3> QED
      BY <1>3, <3>1 DEF CallTypeOK
  <2> QED
    BY <2>1, <2>2 DEF TypeOK
<1>8. ASSUME NEW b \in 1 .. Len(chan) PROVE ConnOf(b)' /\ (Open(b)' => Held(b)')
  <2>0. ConnOf(b) /\ (Open(b) => Held(b)) /\ chan[b].by \in Users
    BY ConnFacts
  <2>1. CASE b = c
    <3>1. c # None
      BY <2>1
    <3>2. call'[t].pc = "closing" /\ call'[t].took = b
      BY <1>2, <1>3, <2>1, <3>1
    <3> HIDE DEF c
    <3>3. ConnOf(b)'
      BY <1>0, <1>4, <1>5, <2>0, <2>1, <3>1 DEF ConnOf
    <3> QED
      BY <3>2, <3>3 DEF Held
  <2>2. CASE b # c
    <3>1. ConnOf(b)'
      BY <1>0, <1>5, <2>0, <2>2 DEF ConnOf
    <3>2. ASSUME Held(b) PROVE Held(b)'
      <4>1. CASE channel = b
        BY <1>0, <4>1 DEF Held
      <4>2. CASE call[chan[b].by].conn = b /\ call[chan[b].by].pc \in Holding
        BY <1>0, <1>3, <1>5, <2>0, <2>2, <4>2 DEF Held
      <4>3. CASE \E u \in Users : call[u].pc \in {"stopping", "closing"} /\ call[u].took = b
        BY <1>0, <1>3, <2>2, <4>3 DEF Held, At
      <4>4. CASE chan[b].failed /\ chan[b].installed /\ b \in ended
        BY <1>0, <1>5, <2>2, <4>4 DEF Held
      <4> QED
        BY <3>2, <4>1, <4>2, <4>3, <4>4 DEF Held
    <3>3. Open(b)' = Open(b)
      BY <1>5, <2>2 DEF Open
    <3> QED
      BY <2>0, <3>1, <3>2, <3>3
  <2> QED
    BY <2>1, <2>2
<1>9. ASSUME NEW u \in Users PROVE TookOf(u)' /\ call'[u].gen <= generation'
  <2>0. call'[u].gen <= generation' /\ TookOf(u) /\ \A v \in Users : call'[v].took = call[v].took
    BY <1>0, <1>2, <1>3 DEF ClientInv
  <2>1. CASE u = t
    <3>1. call'[u].took = c /\ call'[u].pc = k.pc
      BY <1>2, <1>3, <2>1
    <3>2. c = None => k.pc \in {"idle", "stopped"}
      BY <1>2 DEF Resumed
    <3>3. c # None => k.pc = "closing"
      BY <1>2
    <3>4. c # None => chan'[c].stopped /\ chan'[c].reader \notin {"stop", "notify"}
      BY <1>4, <1>5
    <3>5. \A v \in Users : call'[v].took = c /\ c # None => v = t
      BY <1>4, <2>0
    <3> HIDE DEF c
    <3> QED
      BY <1>0, <1>4, <1>5, <2>0, <2>1, <3>1, <3>2, <3>3, <3>4, <3>5 DEF TookOf
  <2>2. CASE u # t
    <3>1. call[u].took # None => call[u].took # c
      BY <1>4, <2>2
    <3>2. call[u].took \in 1 .. Len(chan) /\ call[u].took # None =>
              chan'[call[u].took] = chan[call[u].took]
      BY <1>5, <3>1
    <3>3. call'[u].pc = call[u].pc /\ call'[u].took = call[u].took /\ Len(chan') = Len(chan)
          /\ ended' = ended /\ told' = told
      BY <1>0, <1>3, <1>5, <2>2
    <3> QED
      BY <2>0, <3>2, <3>3 DEF TookOf
  <2> QED
    BY <2>1, <2>2
<1>10. ASSUME NEW u \in Callers PROVE AttemptOf(u)'
  <2>1. CASE u = t
    BY <1>0, <1>2, <1>3, <1>6, <2>1 DEF AttemptOf, Resumed
  <2>2. CASE u # t
    <3>1. u \in Users /\ (call[u].pc \in Handling => call[u].conn \in 1 .. Len(chan))
      BY DEF TypeOK, CallTypeOK
    <3> QED
      BY <1>0, <1>3, <1>5, <2>2, <3>1 DEF ClientInv, AttemptOf
  <2> QED
    BY <2>1, <2>2
<1>11. OneOpen'
  BY <1>5 DEF ClientInv, OneOpen
<1> QED
  BY <1>0, <1>5, <1>7, <1>8, <1>9, <1>10, <1>11 DEF ClientInv

\* Disconnect reports what it took.
LEMMA DisconnectTells ==
    ASSUME TypeOK, ClientInv, NEW t \in Users, DisconnectNotifies(t)
    PROVE  TypeOK' /\ ClientInv'
<1> DEFINE c == call[t].took
           k == [call[t] EXCEPT !.pc = Resumed(t), !.took = None]
<1>0. /\ call[t].pc = "clearing" /\ call' = [call EXCEPT ![t] = k]
      /\ told' = [told EXCEPT ![c] = told[c] + 1]
      /\ UNCHANGED <<generation, attemptCancel, channel, chan, applying, ended>>
  BY DEF DisconnectNotifies, At
<1>1. /\ k \in Call /\ k.pc = Resumed(t) /\ k.took = None /\ k.gen = call[t].gen
      /\ k.ops = call[t].ops
  <2>1. call[t] \in Call
    BY DEF TypeOK, CallTypeOK
  <2> QED
    BY <2>1 DEF Call, Resumed
<1> HIDE DEF k
<1>2. /\ call' \in [Users -> Call] /\ call'[t] = k
      /\ \A u \in Users : u # t => call'[u] = call[u]
  BY <1>0, <1>1, CallSet
<1>3. /\ c \in 1 .. Len(chan) /\ c \in ended /\ told[c] = 0 /\ chan[c].stopped
      /\ chan[c].reader \notin {"stop", "notify"}
      /\ \A u \in Users : call[u].took = c => u = t
  BY <1>0 DEF ClientInv, TookOf
<1>4. c \in Connections /\ channel # c
  BY <1>3, ConnFacts DEF ConnOf
<1>5. /\ told' \in [Connections -> Nat] /\ told'[c] = 1
      /\ \A b \in Connections : b # c => told'[b] = told[b]
  BY <1>0, <1>3, <1>4 DEF TypeOK, ClientTypeOK
<1>6. t \in Callers => channel = None /\ call[t].ops # <<>>
  BY <1>0, CallerFacts DEF AttemptOf
<1>7. TypeOK'
  <2>1. ClientTypeOK' /\ ChanTypeOK'
    BY <1>0, <1>5 DEF TypeOK, ClientTypeOK, ChanTypeOK
  <2>2. CallTypeOK'
    BY <1>0, <1>1, <1>2, <1>6 DEF TypeOK, CallTypeOK, Resumed
  <2> QED
    BY <2>1, <2>2 DEF TypeOK
<1>8. ASSUME NEW b \in 1 .. Len(chan) PROVE ConnOf(b)' /\ (Open(b)' => Held(b)')
  <2>0. ConnOf(b) /\ (Open(b) => Held(b)) /\ chan[b].by \in Users /\ b \in Connections
    BY ConnFacts
  <2>1. ConnOf(b)'
    <3>1. CASE b = c
      <4> HIDE DEF c
      <4> QED
        BY <1>0, <1>3, <1>4, <1>5, <2>0, <3>1 DEF ConnOf
    <3>2. CASE b # c
      BY <1>0, <1>5, <2>0, <3>2 DEF ConnOf
    <3> QED
      BY <3>1, <3>2
  <2>2. ASSUME Held(b) PROVE Held(b)'
    BY <1>0, <1>2, <2>0, <2>2 DEF Held, At
  <2> QED
    BY <1>0, <2>0, <2>1, <2>2 DEF Open
<1>9. ASSUME NEW u \in Users PROVE TookOf(u)' /\ call'[u].gen <= generation'
  <2>1. CASE u = t
    BY <1>0, <1>1, <1>2, <2>1 DEF ClientInv, TookOf, Resumed
  <2>2. CASE u # t
    <3>1. call[u].took # None => call[u].took # c /\ call[u].took \in Connections
      BY <1>3, <2>2, ConnFacts DEF ClientInv, TookOf
    <3> QED
      BY <1>0, <1>1, <1>2, <1>5, <2>2, <3>1 DEF ClientInv, TookOf
  <2> QED
    BY <2>1, <2>2
<1>10. ASSUME NEW u \in Callers PROVE AttemptOf(u)'
  <2>1. CASE u = t
    BY <1>0, <1>1, <1>2, <1>6, <2>1 DEF AttemptOf, Resumed
  <2>2. CASE u # t
    BY <1>0, <1>2, <2>2 DEF ClientInv, AttemptOf
  <2> QED
    BY <2>1, <2>2
<1>11. OneOpen'
  BY <1>0 DEF ClientInv, OneOpen
<1>12. \A b \in Connections : b \notin 1 .. Len(chan') => told'[b] = 0
  BY <1>0, <1>3, <1>5 DEF ClientInv
<1> QED
  BY <1>0, <1>7, <1>8, <1>9, <1>10, <1>11, <1>12 DEF ClientInv

\* What a failed candidate leaves of the caller's record.
LEMMA FailureMoves ==
    ASSUME TypeOK, ClientInv, NEW t \in Callers, call[t].pc \in {"dialing", "dropping"},
           NEW terminal \in BOOLEAN
    PROVE  /\ AfterFailure(t, terminal) \in Call
           /\ AfterFailure(t, terminal).pc \in {"candidate", "finish"}
           /\ AfterFailure(t, terminal).took = None
           /\ AfterFailure(t, terminal).gen = call[t].gen
           /\ AfterFailure(t, terminal).ops = call[t].ops
<1>1. call[t] \in Call /\ Tail(call[t].cands) \in Seq({"ws", "wt"}) /\ call[t].took = None
  BY OpTypes, CallerFacts
<1> QED
  BY <1>1 DEF AfterFailure, Call

\* A dial that returns adds a channel; one that is of no use is closed already.
LEMMA DialAdds ==
    ASSUME TypeOK, ClientInv, NEW t \in Callers, DialReturns(t)
    PROVE  TypeOK' /\ ClientInv'
<1> DEFINE c == Len(chan) + 1
           useless == call[t].done \/ call[t].late \/ generation # call[t].gen
           fresh == NewChannel(Head(call[t].cands), t)
           n == IF useless THEN Closing(fresh) ELSE fresh
           k == [call[t] EXCEPT !.pc = IF useless THEN "dropping" ELSE "register", !.conn = c]
<1>0. /\ call[t].pc = "dialing" /\ c \in Connections
      /\ chan' = Append(chan, n) /\ call' = [call EXCEPT ![t] = k]
      /\ UNCHANGED <<generation, attemptCancel, channel, applying, ended, told>>
  BY DEF DialReturns, At, histVars
<1>1. /\ t \in Users /\ call[t] \in Call /\ call[t].gen \in Nat /\ call[t].gen <= generation
      /\ call[t].ops # <<>> /\ call[t].took = None /\ channel = None /\ call[t].cands # <<>>
      /\ Head(call[t].cands) \in {"ws", "wt"} /\ Op(t).batches \in Nat
      /\ \A b \in 1 .. Len(chan) : chan[b].gen = call[t].gen => chan[b].shut
      /\ Len(chan) \in Nat /\ chan \in Seq(Channel)
  <2>1. call[t].ops # <<>> /\ call[t].cands # <<>>
    BY <1>0, CallerFacts
  <2>2. Len(chan) \in Nat /\ chan \in Seq(Channel)
    BY LenProperties DEF TypeOK, ChanTypeOK
  <2>3. call[t] \in Call /\ Head(call[t].cands) \in {"ws", "wt"} /\ Op(t).batches \in Nat
    BY <2>1, OpTypes
  <2> QED
    BY <1>0, <2>1, <2>2, <2>3, CallerFacts DEF AttemptOf
<1>2. /\ fresh \in Channel /\ fresh.gen = call[t].gen /\ fresh.by = t /\ fresh.installed = FALSE
      /\ fresh.reader \in {"off", "on"} /\ fresh.up = TRUE /\ fresh.shut = FALSE
  BY <1>1 DEF NewChannel, Channel
<1> HIDE DEF fresh
<1>3. /\ n \in Channel /\ n.gen = call[t].gen /\ n.by = t /\ n.installed = FALSE
      /\ n.reader \in {"off", "on"} /\ n.shut = FALSE
  BY <1>2, ClosingMoves
<1>4. /\ k \in Call /\ k.took = None /\ k.gen = call[t].gen /\ k.ops = call[t].ops
      /\ k.pc \in {"dropping", "register"} /\ k.conn = c /\ k.cands = call[t].cands
  <2> DEFINE pc == IF useless THEN "dropping" ELSE "register"
  <2>1. c \in Nat /\ pc \in {"dropping", "register"}
    BY <1>1
  <2> HIDE DEF c, pc
  <2> QED
    BY <1>1, <2>1 DEF Call
<1> HIDE DEF n, k, useless
<1>5. /\ chan' \in Seq(Channel) /\ Len(chan') = c /\ chan'[c] = n
      /\ \A b \in 1 .. Len(chan) : chan'[b] = chan[b]
  BY <1>0, <1>1, <1>3, AppendProperties
<1>6. /\ call' \in [Users -> Call] /\ call'[t] = k
      /\ \A u \in Users : u # t => call'[u] = call[u]
  BY <1>0, <1>1, <1>4, CallSet
<1>7. /\ c \notin 1 .. Len(chan) /\ c \in 1 .. c /\ c \in Nat
      /\ \A b \in 1 .. c : b # c => b \in 1 .. Len(chan)
      /\ \A b \in 1 .. Len(chan) : b \in 1 .. c /\ b # c
      /\ c <= MaxConnections
  BY <1>0, <1>1, GameClientAssumption DEF Connections
<1> HIDE DEF c
<1>8. TypeOK'
  <2>1. ClientTypeOK'
    BY <1>0 DEF TypeOK, ClientTypeOK
  <2>2. ChanTypeOK'
    BY <1>0, <1>1, <1>5, <1>7 DEF ChanTypeOK
  <2>3. CallTypeOK'
    <3>1. ASSUME NEW u \in Users
          PROVE  /\ call'[u].pc = "idle" \/ u \in Callers \/ call'[u].pc \in Leaving
                 /\ call'[u].pc # "idle" /\ u \in Callers => call'[u].ops # <<>>
                 /\ call'[u].pc \in {"resolving", "dialing", "dropping"} => call'[u].cands # <<>>
                 /\ call'[u].pc \in Handling => call'[u].conn \in 1 .. Len(chan')
      <4>1. CASE u = t
        BY <1>1, <1>4, <1>5, <1>6, <1>7, <4>1
      <4>2. CASE u # t
        BY <1>5, <1>6, <1>7, <4>2 DEF TypeOK, CallTypeOK
      <4> QED
        BY <4>1, <4>2
    <3> QED
      BY <1>6, <3>1 DEF CallTypeOK
  <2> QED
    BY <2>1, <2>2, <2>3 DEF TypeOK
<1>9. ASSUME NEW b \in 1 .. c PROVE ConnOf(b)' /\ (Open(b)' => Held(b)')
  <2>1. CASE b = c
    <3>1. c \notin ended /\ told[c] = 0 /\ channel # c
      BY <1>0, <1>1, <1>7 DEF ClientInv
    <3>2. ConnOf(b)'
      BY <1>0, <1>1, <1>3, <1>5, <2>1, <3>1 DEF ConnOf
    <3>3. Open(b)' => Held(b)'
      BY <1>1, <1>3, <1>4, <1>5, <1>6, <2>1 DEF Open, Held
    <3> QED
      BY <3>2, <3>3
  <2>2. CASE b # c
    <3>0. b \in 1 .. Len(chan) /\ chan'[b] = chan[b]
      BY <1>5, <1>7, <2>2
    <3>1. ConnOf(b) /\ (Open(b) => Held(b)) /\ chan[b].by \in Users
      BY <3>0, ConnFacts
    <3>2. ConnOf(b)'
      BY <1>0, <3>0, <3>1 DEF ConnOf
    <3>3. ASSUME Held(b) PROVE Held(b)'
      BY <1>0, <1>6, <3>0, <3>1, <3>3 DEF Held, At
    <3> QED
      BY <3>0, <3>1, <3>2, <3>3 DEF Open
  <2> QED
    BY <2>1, <2>2
<1>10. ASSUME NEW u \in Users PROVE TookOf(u)' /\ call'[u].gen <= generation'
  <2>1. TookOf(u) /\ call[u].gen <= generation
    BY DEF ClientInv
  <2>2. \A v \in Users : call'[v].took = call[v].took /\ call'[v].gen = call[v].gen
    BY <1>1, <1>4, <1>6
  <2>3. call[u].took # None => /\ call[u].pc \in Leaving /\ call'[u].pc = call[u].pc
                               /\ call[u].took \in 1 .. Len(chan)
                               /\ call[u].took \in 1 .. Len(chan')
                               /\ chan'[call[u].took] = chan[call[u].took]
    BY <1>1, <1>5, <1>6, <1>7, <2>1 DEF TookOf
  <2>4. call'[u].pc \in {"closing", "clearing"} => call[u].took # None
    BY <1>4, <1>6, <2>1 DEF TookOf
  <2> QED
    BY <1>0, <2>1, <2>2, <2>3, <2>4 DEF TookOf
<1>11. ASSUME NEW u \in Callers PROVE AttemptOf(u)'
  <2>1. u = t
    BY OneCaller
  <2>2. \A b \in 1 .. c : chan'[b].gen = call'[t].gen /\ b # call'[t].conn => chan'[b].shut
    BY <1>1, <1>3, <1>4, <1>5, <1>6, <1>7
  <2>3. ~chan'[call'[t].conn].installed /\ call'[t].pc \notin Attempting
    BY <1>3, <1>4, <1>5, <1>6
  <2> QED
    BY <1>0, <1>1, <1>5, <2>1, <2>2, <2>3 DEF AttemptOf
<1>12. OneOpen'
  BY <1>1, <1>3, <1>5, <1>7 DEF ClientInv, OneOpen
<1>13. ended' \subseteq 1 .. c /\ \A b \in Connections : b \notin 1 .. c => told'[b] = 0
  BY <1>0, <1>7 DEF ClientInv
<1> QED
  BY <1>5, <1>8, <1>9, <1>10, <1>11, <1>12, <1>13 DEF ClientInv

\* installChannel: the callbacks, then the channel is installed or closed.
LEMMA InstallSteps ==
    ASSUME TypeOK, ClientInv, NEW t \in Callers, Register(t) \/ InstallFails(t) \/ Install(t)
    PROVE  TypeOK' /\ ClientInv'
<1> DEFINE c == call[t].conn
           ch == chan[c]
<1>0. /\ call[t].pc \in {"register", "install"}
      /\ UNCHANGED <<generation, attemptCancel, applying, ended, told>>
  BY DEF Register, InstallFails, Install, At, histVars
<1>1. /\ t \in Users /\ call[t] \in Call /\ call[t].ops # <<>> /\ call[t].took = None
      /\ c \in 1 .. Len(chan) /\ channel = None /\ ch.installed = FALSE /\ ch \in Channel
  <2>1. /\ t \in Users /\ call[t] \in Call /\ call[t].ops # <<>> /\ call[t].took = None
        /\ c \in 1 .. Len(chan) /\ channel = None /\ ~ch.installed
    BY <1>0, OpTypes, CallerFacts DEF AttemptOf
  <2>2. ch \in Channel
    BY <2>1, ChanElement DEF TypeOK, ChanTypeOK
  <2> QED
    BY <2>1, <2>2 DEF Channel
<1>2. ConnOf(c) /\ c \notin ended /\ told[c] = 0 /\ c \in Nat /\ c # None
  BY <1>1, ConnFacts DEF ConnOf
\* The new record of the channel, where the caller goes on, and the current connection.
<1>3. ASSUME NEW r \in Channel, NEW pc \in {"install", "unwinding", "opened", "finish"},
             chan' = [chan EXCEPT ![c] = r], call' = [call EXCEPT ![t].pc = pc],
             r.gen = ch.gen, r.by = ch.by, r.cut = ch.cut, r.failed = ch.failed,
             r.shut = ch.shut, r.shut => ~r.up,
             r.reader = ch.reader \/ r.reader = "on",
             \/ pc \in {"install", "unwinding"} /\ channel' = channel /\ r.installed = FALSE
             \/ pc \in {"opened", "finish"} /\ channel' = c /\ r.installed /\ ~r.shut
      PROVE  TypeOK' /\ ClientInv'
  <2> DEFINE k == [call[t] EXCEPT !.pc = pc]
  <2>1. /\ k \in Call /\ k.pc = pc /\ k.took = None /\ k.gen = call[t].gen /\ k.conn = c
        /\ k.ops = call[t].ops
    BY <1>1 DEF Call
  <2>2. call' = [call EXCEPT ![t] = k]
    BY <1>3
  <2> HIDE DEF k
  <2>3. /\ call' \in [Users -> Call] /\ call'[t] = k
        /\ \A u \in Users : u # t => call'[u] = call[u]
    BY <1>1, <2>1, <2>2, CallSet
  <2> HIDE DEF c
  <2>4. /\ chan' \in Seq(Channel) /\ Len(chan') = Len(chan) /\ chan'[c] = r
        /\ \A b \in 1 .. Len(chan) : b # c => chan'[b] = chan[b]
    BY <1>1, <1>3, ChanSet DEF TypeOK, ChanTypeOK
  <2>5. channel' = None \/ channel' = c
    BY <1>1, <1>3
  <2>6. TypeOK'
    <3>1. ClientTypeOK'
      BY <1>0 DEF TypeOK, ClientTypeOK
    <3>2. ChanTypeOK'
      BY <1>1, <2>4, <2>5 DEF TypeOK, ChanTypeOK
    <3>3. CallTypeOK'
      BY <1>1, <2>1, <2>3, <2>4 DEF TypeOK, CallTypeOK
    <3> QED
      BY <3>1, <3>2, <3>3 DEF TypeOK
  <2>7. ASSUME NEW b \in 1 .. Len(chan) PROVE ConnOf(b)' /\ (Open(b)' => Held(b)')
    <3>0. ConnOf(b) /\ (Open(b) => Held(b)) /\ chan[b].by \in Users
      BY ConnFacts
    <3>1. CASE b = c
      <4>1. ch.reader \notin {"off", "on", "stop", "notify"} => ch.cut \/ ch.failed \/ ch.shut
        BY <1>2 DEF ConnOf
      <4>2. ch.reader \notin {"stop", "notify"} /\ ch.gen <= generation
        BY <1>2 DEF ConnOf
      <4>3. r.reader \notin {"off", "on"} => r.cut \/ r.failed \/ r.shut
        BY <1>3, <4>1, <4>2
      <4>4. r.reader \notin {"stop", "notify"} /\ r.gen <= generation'
        BY <1>0, <1>3, <4>2
      <4>5. channel' = c => r.installed /\ ~r.shut
        BY <1>1, <1>2, <1>3
      <4>6. ConnOf(b)'
        BY <1>0, <1>2, <1>3, <2>4, <3>1, <4>3, <4>4, <4>5 DEF ConnOf
      <4>7. channel' = b \/ pc \in Holding
        BY <1>3, <3>1
      <4>8. pc \in Holding => (Open(b)' => Held(b)')
        <5>1. ASSUME pc \in Holding, Open(b)' PROVE Held(b)
          BY <1>2, <1>3, <2>4, <5>1, <3>0, <3>1 DEF Open
        <5>2. ASSUME pc \in Holding, Held(b) PROVE Held(b)'
          BY <1>0, <1>1, <1>2, <1>3, <2>1, <2>3, <2>4, <3>0, <3>1, <5>2 DEF Held, At
        <5> QED
          BY <5>1, <5>2
      <4> QED
        BY <4>6, <4>7, <4>8 DEF Held
    <3>2. CASE b # c
      <4>1. channel' # b /\ channel # b
        BY <1>1, <2>5, <3>2
      <4>2. ConnOf(b)'
        BY <1>0, <2>4, <3>0, <3>2, <4>1 DEF ConnOf
      <4>3. ASSUME Held(b) PROVE Held(b)'
        <5>1. CASE call[chan[b].by].conn = b /\ call[chan[b].by].pc \in Holding
          <6>1. chan[b].by # t
            BY <5>1, <3>2 DEF c
          <6> QED
            BY <2>3, <2>4, <3>0, <3>2, <5>1, <6>1 DEF Held
        <5>2. CASE \E u \in Users : call[u].pc \in {"stopping", "closing"} /\ call[u].took = b
          BY <1>0, <2>3, <5>2 DEF Held, At
        <5>3. CASE chan[b].failed /\ chan[b].installed /\ b \in ended
          BY <1>0, <2>4, <3>2, <5>3 DEF Held
        <5> QED
          BY <4>1, <4>3, <5>1, <5>2, <5>3 DEF Held
      <4>4. Open(b)' = Open(b)
        BY <2>4, <3>2 DEF Open
      <4> QED
        BY <3>0, <4>2, <4>3, <4>4
    <3> QED
      BY <3>1, <3>2
  <2>8. ASSUME NEW u \in Users PROVE TookOf(u)' /\ call'[u].gen <= generation'
    <3>1. TookOf(u) /\ call[u].gen <= generation
      BY DEF ClientInv
    <3>2. \A v \in Users : call'[v].took = call[v].took /\ call'[v].gen = call[v].gen
      BY <1>1, <2>1, <2>3
    <3>3. call[u].took # None => /\ call'[u].pc = call[u].pc
                                 /\ call[u].took \in 1 .. Len(chan) /\ Len(chan') = Len(chan)
                                 /\ chan'[call[u].took] = chan[call[u].took]
      BY <1>1, <1>2, <2>3, <2>4, <3>1 DEF TookOf
    <3>4. call'[u].pc \in {"closing", "clearing"} => call[u].took # None
      BY <2>1, <2>3, <3>1 DEF TookOf
    <3> QED
      BY <1>0, <3>1, <3>2, <3>3, <3>4 DEF TookOf
  <2>9. ASSUME NEW u \in Callers PROVE AttemptOf(u)'
    <3>1. u = t
      BY OneCaller
    <3> QED
      BY <1>1, <1>3, <2>1, <2>3, <2>4, <3>1 DEF AttemptOf
  <2>10. OneOpen'
    BY <1>3, <2>4 DEF ClientInv, OneOpen
  <2> QED
    BY <1>0, <2>4, <2>6, <2>7, <2>8, <2>9, <2>10 DEF ClientInv
<1>4. CASE Register(t)
  <2> DEFINE r == [ch EXCEPT !.registered = TRUE, !.opened = ch.up,
                             !.reader = IF ch.reader = "off" THEN "on" ELSE ch.reader]
  <2>1. /\ r \in Channel /\ r.gen = ch.gen /\ r.by = ch.by /\ r.cut = ch.cut /\ r.shut = ch.shut
        /\ r.failed = ch.failed /\ r.up = ch.up /\ r.installed = FALSE
        /\ r.reader = ch.reader \/ r.reader = "on"
    BY <1>1 DEF Channel
  <2>2. chan' = [chan EXCEPT ![c] = r] /\ call' = [call EXCEPT ![t].pc = "install"]
        /\ channel' = channel
    BY <1>4 DEF Register, Goto
  <2> HIDE DEF r, c
  <2>3. r.shut => ~r.up
    BY <1>2, <2>1 DEF ConnOf
  <2> QED
    BY <1>3, <2>1, <2>2, <2>3
<1>5. CASE InstallFails(t)
  <2> DEFINE r == Closing(Stopped(ch))
  <2>1. /\ Stopped(ch) \in Channel /\ Moves(ch, Stopped(ch)) /\ Stopped(ch).reader = ch.reader
        /\ Stopped(ch).cut = ch.cut /\ Stopped(ch).failed = ch.failed
    BY <1>1, StopMoves
  <2>2. /\ r \in Channel /\ r.gen = ch.gen /\ r.by = ch.by /\ r.cut = ch.cut /\ r.shut = ch.shut
        /\ r.failed = ch.failed /\ (r.up => ch.up) /\ r.installed = FALSE /\ r.reader = ch.reader
    BY <1>1, <2>1, ClosingMoves DEF Moves
  <2>3. chan' = [chan EXCEPT ![c] = r] /\ call' = [call EXCEPT ![t].pc = "unwinding"]
        /\ channel' = channel
    BY <1>5 DEF InstallFails, Goto
  <2> HIDE DEF r, c
  <2>4. r.shut => ~r.up
    BY <1>2, <2>2 DEF ConnOf
  <2> QED
    BY <1>3, <2>2, <2>3, <2>4
<1>6. CASE Install(t)
  <2> DEFINE r == [ch EXCEPT !.installed = TRUE, !.running = TRUE]
  <2>1. /\ r \in Channel /\ r.gen = ch.gen /\ r.by = ch.by /\ r.cut = ch.cut /\ r.shut = ch.shut
        /\ r.failed = ch.failed /\ r.up = ch.up /\ r.installed = TRUE /\ r.reader = ch.reader
    BY <1>1 DEF Channel
  <2>2. chan' = [chan EXCEPT ![c] = r] /\ channel' = c /\ ch.up
    BY <1>6 DEF Install
  <2>3. PICK pc \in {"opened", "finish"} : call' = [call EXCEPT ![t].pc = pc]
    BY <1>6 DEF Install, Goto
  <2> HIDE DEF r, c
  <2>4. ~r.shut
    BY <1>2, <2>1, <2>2 DEF ConnOf
  <2> QED
    BY <1>3, <2>1, <2>2, <2>3, <2>4
<1> QED
  BY <1>4, <1>5, <1>6

\* What Close() does to a channel at its end, whoever called it: what remains to
\* show is where that goroutine goes on.
LEMMA ShutKeeps ==
    ASSUME TypeOK, ClientInv, NEW t \in Users, NEW k \in Call, NEW c \in 1 .. Len(chan),
           chan' = [chan EXCEPT ![c] = Closed(@)], call' = [call EXCEPT ![t] = k],
           UNCHANGED <<generation, attemptCancel, channel, applying, ended, told>>,
           channel # c, k.took = call[t].took, k.gen = call[t].gen, k.ops = call[t].ops,
           call[t].took # None => call[t].took = c,
           call[t].conn = c \/ call[t].took = c, call[t].pc # "idle",
           \/ call[t].pc = "closing" /\ k.pc = "clearing" /\ call[t].took = c
           \/ /\ t \in Callers /\ call[t].pc \in {"dropping", "unwinding"}
              /\ k.took = None /\ k.pc \in {"candidate", "finish"}
              /\ call[t].conn = c /\ (k.pc = "candidate" => call[t].pc = "dropping")
    PROVE  TypeOK' /\ ClientInv'
<1>1. /\ chan[c] \in Channel /\ ConnOf(c) /\ c # None /\ c \in Nat
      /\ call \in [Users -> Call] /\ call[t] \in Call
  BY ConnFacts DEF TypeOK, CallTypeOK
<1>2. /\ call' \in [Users -> Call] /\ call'[t] = k
      /\ \A u \in Users : u # t => call'[u] = call[u]
  BY CallSet
<1> DEFINE r == Closed(chan[c])
<1>3. /\ r \in Channel /\ r.shut /\ ~r.up /\ r.gen = chan[c].gen /\ r.by = chan[c].by
      /\ r.installed = chan[c].installed /\ r.cut = chan[c].cut /\ r.failed = chan[c].failed
      /\ r.stopped = chan[c].stopped /\ r.reader = chan[c].reader
  BY <1>1, CloseShuts
<1>4. chan' = [chan EXCEPT ![c] = r]
  OBVIOUS
<1> HIDE DEF r
<1>5. /\ chan' \in Seq(Channel) /\ Len(chan') = Len(chan) /\ chan'[c] = r
      /\ \A b \in 1 .. Len(chan) : b # c => chan'[b] = chan[b]
  BY <1>3, <1>4, ChanSet DEF TypeOK, ChanTypeOK
<1>6. TypeOK'
  <2>1. ClientTypeOK' /\ ChanTypeOK'
    BY <1>5 DEF TypeOK, ClientTypeOK, ChanTypeOK
  <2>2. CallTypeOK'
    BY <1>2, <1>5 DEF TypeOK, CallTypeOK
  <2> QED
    BY <2>1, <2>2 DEF TypeOK
<1>7. ASSUME NEW b \in 1 .. Len(chan) PROVE ConnOf(b)' /\ (Open(b)' => Held(b)')
  <2>0. ConnOf(b) /\ (Open(b) => Held(b)) /\ chan[b].by \in Users
    BY ConnFacts
  <2>1. CASE b = c
    BY <1>3, <1>5, <2>0, <2>1 DEF ConnOf, Open
  <2>2. CASE b # c
    <3>1. ConnOf(b)' /\ Open(b)' = Open(b)
      BY <1>5, <2>0, <2>2 DEF ConnOf, Open
    <3>2. ASSUME Held(b) PROVE Held(b)'
      <4>1. CASE channel = b \/ (chan[b].failed /\ chan[b].installed /\ b \in ended)
        BY <1>5, <2>2, <4>1 DEF Held
      <4>2. CASE call[chan[b].by].conn = b /\ call[chan[b].by].pc \in Holding
        <5>1. chan[b].by # t
          BY <2>2, <4>2
        <5> QED
          BY <1>2, <1>5, <2>0, <2>2, <4>2, <5>1 DEF Held
      <4>3. CASE \E u \in Users : call[u].pc \in {"stopping", "closing"} /\ call[u].took = b
        <5>1. PICK u \in Users : call[u].pc \in {"stopping", "closing"} /\ call[u].took = b
          BY <4>3
        <5>2. u # t
          BY <2>2, <5>1
        <5> QED
          BY <1>2, <5>1, <5>2 DEF Held
      <4> QED
        BY <3>2, <4>1, <4>2, <4>3 DEF Held
    <3> QED
      BY <2>0, <3>1, <3>2
  <2> QED
    BY <2>1, <2>2
<1>8. ASSUME NEW u \in Users PROVE TookOf(u)' /\ call'[u].gen <= generation'
  <2>1. TookOf(u) /\ TookOf(t) /\ call[u].gen <= generation
    BY DEF ClientInv
  <2>2. \A v \in Users : call'[v].took = call[v].took /\ call'[v].gen = call[v].gen
    BY <1>2
  <2>3. \A b \in 1 .. Len(chan) :
            chan'[b].stopped = chan[b].stopped /\ chan'[b].reader = chan[b].reader
    BY <1>3, <1>5
  <2>4. CASE u = t
    BY <1>2, <1>5, <2>1, <2>2, <2>3, <2>4 DEF TookOf
  <2>5. CASE u # t
    BY <1>2, <1>5, <2>1, <2>2, <2>3, <2>5 DEF TookOf
  <2> QED
    BY <2>4, <2>5
<1>9. ASSUME NEW u \in Callers PROVE AttemptOf(u)'
  <2>1. AttemptOf(u) /\ u \in Users /\ (call[u].pc \in Handling => call[u].conn \in 1 .. Len(chan))
    BY DEF ClientInv, TypeOK, CallTypeOK
  <2>2. \A b \in 1 .. Len(chan) :
            /\ chan'[b].gen = chan[b].gen /\ chan'[b].installed = chan[b].installed
            /\ (chan[b].shut \/ b = c => chan'[b].shut)
    BY <1>3, <1>5
  <2>3. CASE u = t
    BY <1>2, <1>5, <2>1, <2>2, <2>3 DEF AttemptOf
  <2>4. CASE u # t
    BY <1>2, <1>5, <2>1, <2>2, <2>4 DEF AttemptOf
  <2> QED
    BY <2>3, <2>4
<1>10. OneOpen'
  BY <1>3, <1>5 DEF ClientInv, OneOpen
<1> QED
  BY <1>5, <1>6, <1>7, <1>8, <1>9, <1>10 DEF ClientInv

LEMMA CloseReturnsKeeps ==
    ASSUME TypeOK, ClientInv, NEW t \in Users, CloseReturns(t)
    PROVE  TypeOK' /\ ClientInv'
<1>1. /\ call[t] \in Call
      /\ UNCHANGED <<generation, attemptCancel, channel, applying, ended, told>>
  BY DEF TypeOK, CallTypeOK, CloseReturns, histVars
<1>2. CASE call[t].pc = "closing"
  <2> DEFINE c == call[t].took
             k == [call[t] EXCEPT !.pc = "clearing"]
  <2>1. chan' = [chan EXCEPT ![c] = Closed(@)] /\ call' = [call EXCEPT ![t] = k]
    BY <1>2 DEF CloseReturns, At, Goto, Closee
  <2>2. c \in 1 .. Len(chan) /\ c \in ended
    BY <1>2 DEF ClientInv, TookOf
  <2>3. channel # c
    BY <2>2, ConnFacts DEF ConnOf
  <2>4. k \in Call /\ k.took = call[t].took /\ k.gen = call[t].gen /\ k.ops = call[t].ops
        /\ k.pc = "clearing"
    BY <1>1 DEF Call
  <2> HIDE DEF k
  <2> QED
    BY <1>1, <1>2, <2>1, <2>2, <2>3, <2>4, ShutKeeps
<1>3. CASE call[t].pc \in {"dropping", "unwinding"}
  <2> DEFINE c == call[t].conn
  <2>1. t \in Callers
    BY <1>3 DEF TypeOK, CallTypeOK
  <2>2. c \in 1 .. Len(chan) /\ channel # c /\ call[t].took = None
    BY <1>3, <2>1, CallerFacts DEF AttemptOf
  <2>3. chan' = [chan EXCEPT ![c] = Closed(@)]
    BY <1>3 DEF CloseReturns, At, Closee
  <2>4. CASE call[t].pc = "dropping"
    <3> DEFINE k == AfterFailure(t, FALSE)
    <3>1. call' = [call EXCEPT ![t] = k]
      BY <2>4 DEF CloseReturns, At
    <3>2. k \in Call /\ k.pc \in {"candidate", "finish"} /\ k.took = None
          /\ k.gen = call[t].gen /\ k.ops = call[t].ops
      BY <2>1, <2>4, FailureMoves
    <3>3. t \in Users /\ call[t].pc # "idle" /\ (k.pc = "candidate" => call[t].pc = "dropping")
          /\ call[t].conn = c
      BY <2>1, <2>4
    <3> HIDE DEF k, c
    <3> QED
      BY <1>1, <2>1, <2>2, <2>3, <2>4, <3>1, <3>2, <3>3, ShutKeeps
  <2>5. CASE call[t].pc = "unwinding"
    <3> DEFINE k == [call[t] EXCEPT !.pc = "finish"]
    <3>1. call' = [call EXCEPT ![t] = k]
      BY <2>5 DEF CloseReturns, At, Goto
    <3>2. k \in Call /\ k.pc = "finish" /\ k.took = None
          /\ k.gen = call[t].gen /\ k.ops = call[t].ops
      BY <1>1, <2>2 DEF Call
    <3>3. t \in Users /\ call[t].pc # "idle" /\ k.pc # "candidate" /\ call[t].conn = c
      BY <2>1, <2>5, <3>2
    <3> HIDE DEF k, c
    <3> QED
      BY <1>1, <2>1, <2>2, <2>3, <2>5, <3>1, <3>2, <3>3, ShutKeeps
  <2> QED
    BY <1>3, <2>4, <2>5
<1> QED
  BY <1>2, <1>3 DEF CloseReturns, At

-----------------------------------------------------------------------------
LEMMA InitClient == Init => TypeOK /\ ClientInv
<1> SUFFICES ASSUME Init PROVE TypeOK /\ ClientInv
  OBVIOUS
<1>1. PICK p \in Programs : call = [t \in Callers \cup Closers |->
                                [NoCall EXCEPT !.ops = IF t \in Callers THEN p ELSE <<>>]]
  BY DEF Init
<1>2. p \in Seq(Operation) /\ <<>> \in Seq(Operation) /\ <<>> \in Seq({"ws", "wt"})
  BY GameClientAssumption
<1>3. ASSUME NEW ops \in Seq(Operation)
      PROVE  LET k == [NoCall EXCEPT !.ops = ops]
             IN  k \in Call /\ k.pc = "idle" /\ k.gen = 0 /\ k.took = None
  BY <1>2 DEF NoCall, Call
<1>4. \A t \in Users : call[t] \in Call /\ call[t].pc = "idle" /\ call[t].gen = 0
                       /\ call[t].took = None
  BY <1>1, <1>2, <1>3
<1>5. call \in [Users -> Call]
  BY <1>1, <1>4
<1>6. chan \in Seq(Channel) /\ Len(chan) = 0
  BY DEF Init
<1>7. TypeOK
  <2>1. ClientTypeOK
    BY DEF Init, ClientTypeOK
  <2>2. ChanTypeOK
    BY <1>6, GameClientAssumption DEF Init, ChanTypeOK
  <2>3. CallTypeOK
    BY <1>4, <1>5 DEF CallTypeOK
  <2> QED
    BY <2>1, <2>2, <2>3 DEF TypeOK
<1>8. \A c \in 1 .. Len(chan) : FALSE
  BY <1>6
<1>9. \A t \in Users : TookOf(t) /\ call[t].gen <= generation
  <2>1. generation = 0
    BY DEF Init
  <2> QED
    BY <1>4, <2>1 DEF TookOf
<1>10. \A t \in Callers : AttemptOf(t)
  BY <1>4 DEF AttemptOf
<1>11. OneOpen /\ ended \subseteq 1 .. Len(chan) /\ \A c \in Connections : told[c] = 0
  BY <1>8 DEF Init, OneOpen
<1> QED
  BY <1>7, <1>8, <1>9, <1>10, <1>11 DEF ClientInv

LEMMA NextClient == TypeOK /\ ClientInv /\ [Next]_vars => TypeOK' /\ ClientInv'
<1> SUFFICES ASSUME TypeOK, ClientInv, [Next]_vars PROVE TypeOK' /\ ClientInv'
  OBVIOUS
<1>1. CASE UNCHANGED vars
  BY <1>1 DEF vars, TypeOK, ClientTypeOK, CallTypeOK, ChanTypeOK, ClientInv, ConnOf, Open, Held,
              At, TookOf, AttemptOf, OneOpen
<1>2. ASSUME NEW t \in Users, Disconnect(t) \/ DisconnectStep(t) \/ CloseReturns(t)
      PROVE  TypeOK' /\ ClientInv'
  BY <1>2, DisconnectTakes, DisconnectCloses, DisconnectTells, CloseReturnsKeeps DEF
     DisconnectStep
<1>3. ASSUME NEW t \in Callers,
             Invalid(t) \/ AttemptStep(t) \/ ContextDone(t) \/ DialTimeout(t)
      PROVE  TypeOK' /\ ClientInv'
  BY <1>3, AttemptStep1, ContextEnds, DialAdds, InstallSteps DEF AttemptStep
<1>4. ASSUME NEW c \in 1 .. Len(chan), Cut(c) \/ ChannelFails(c) \/ Read(c) \/ ReaderStep(c)
                                     \/ DispatcherStep(c)
      PROVE  TypeOK' /\ ClientInv'
  BY <1>4, ReaderStep1, ReaderStep2, ReaderStep3, ApplyKeeps DEF ReaderStep, DispatcherStep
<1> QED
  BY <1>1, <1>2, <1>3, <1>4 DEF Next

\* The inductive invariant of the client.
THEOREM ClientInvariant == Spec => [](TypeOK /\ ClientInv)
  BY InitClient, NextClient, PTL DEF Spec

\* Dials that were overtaken, came too late or ended early leave nothing open,
\* and no two channels of an attempt are open at once.
THEOREM NothingLeftOpen == Spec => []NoneLeftOpen
<1>1. TypeOK /\ ClientInv => NoneLeftOpen
  <2> SUFFICES ASSUME TypeOK, ClientInv PROVE NoneLeftOpen
    OBVIOUS
  <2>1. DOMAIN call = Users
    BY DEF TypeOK, CallTypeOK
  <2> QED
    BY <2>1, ConnFacts DEF ClientInv, OneOpen, Held, NoneLeftOpen
<1> QED
  BY <1>1, ClientInvariant, PTL

\* A batch is begun only while its dispatcher is not stopped, and a connection
\* is reported as over only after its dispatcher was stopped.
THEOREM NoLateBatch == Spec => NoBatchAfterDisconnect
<1>1. TypeOK /\ ClientInv /\ [Next]_vars
        => [applying' # applying /\ applying' # None => told[applying'] = 0]_vars
  <2> SUFFICES ASSUME TypeOK, ClientInv, Next, applying' # applying, applying' # None
               PROVE  told[applying'] = 0
    OBVIOUS
  <2>1. PICK c \in 1 .. Len(chan) : Dispatch(c)
    BY DEF Next, Disconnect, DisconnectStep, DisconnectStops, DisconnectNotifies, Invalid,
       AttemptStep, beginConnect, NextCandidate, Resolve, DialFails, DialReturns, Register,
       InstallFails, Install, notifyOpen, CloseReturns, finish, ContextDone, DialTimeout, Cut,
       ChannelFails, Read, ReaderStep, enqueue, ReadFails, CloseBeforeInstall, CloseOfChannel,
       CloseStops, CloseNotifies, DispatcherStep, Apply
  <2> QED
    BY <2>1 DEF Dispatch, ClientInv, ConnOf
<1> QED
  BY <1>1, ClientInvariant, PTL DEF Spec, NoBatchAfterDisconnect

-----------------------------------------------------------------------------
(* The safety part of the refinement of ClientSession. *)

LEMMA RefinesInit == Init => Session!Init
  BY DEF Init, Session!Init, Session!None

\* A channel becomes current when there is none, and never after it ended.
LEMMA InstallStarts ==
    ASSUME TypeOK, ClientInv, NEW t \in Callers, Install(t)
    PROVE  \E c \in Connections : Session!Start(c)
<1>1. call[t].conn \in 1 .. Len(chan) /\ channel = None /\ ~chan[call[t].conn].installed
  BY CallerFacts DEF Install, At, AttemptOf
<1>2. call[t].conn \in Connections /\ call[t].conn \notin ended
  BY <1>1, ConnFacts DEF ConnOf
<1>3. Session!Start(call[t].conn)
  BY <1>1, <1>2 DEF Install, histVars, Session!Start, Session!None
<1> QED
  BY <1>2, <1>3

LEMMA OpenGreets ==
    ASSUME TypeOK, ClientInv, NEW t \in Callers, notifyOpen(t)
    PROVE  (\E c \in Connections : Session!Greet(c)) \/ UNCHANGED Session!sessionVars
<1> DEFINE c == call[t].conn
<1>1. c \in Connections
  <2>1. c \in 1 .. Len(chan)
    BY CallerFacts DEF notifyOpen, At
  <2> QED
    BY <2>1, ConnFacts
<1>2. CASE generation = call[t].gen /\ channel = c /\ c \notin greeted
  <2>1. Session!Greet(c)
    BY <1>2 DEF notifyOpen, Session!Greet
  <2> QED
    BY <1>1, <2>1
<1>3. CASE ~(generation = call[t].gen /\ channel = c /\ c \notin greeted)
  <2>1. greeted' = greeted
    BY <1>3 DEF notifyOpen
  <2> QED
    BY <2>1 DEF notifyOpen, Session!sessionVars
<1> QED
  BY <1>2, <1>3

LEMMA DisconnectEnds ==
    ASSUME TypeOK, ClientInv, NEW t \in Users, Disconnect(t)
    PROVE  Session!End \/ UNCHANGED Session!sessionVars
<1>1. CASE channel = None
  BY <1>1 DEF Disconnect, Session!sessionVars
<1>2. CASE channel # None
  BY <1>2 DEF Disconnect, Session!End, Session!None
<1> QED
  BY <1>1, <1>2

LEMMA CloseEnds ==
    ASSUME TypeOK, ClientInv, NEW c \in 1 .. Len(chan), CloseOfChannel(c)
    PROVE  Session!End \/ UNCHANGED Session!sessionVars
<1>1. CASE generation = chan[c].gen /\ channel = c
  BY <1>1 DEF CloseOfChannel, Session!End, Session!None
<1>2. CASE ~(generation = chan[c].gen /\ channel = c)
  BY <1>2 DEF CloseOfChannel, Session!sessionVars
<1> QED
  BY <1>1, <1>2

\* Its reader, or the Disconnect that took it, reports a connection, never both.
LEMMA ReaderTells ==
    ASSUME TypeOK, ClientInv, NEW c \in 1 .. Len(chan), CloseNotifies(c)
    PROVE  \E b \in Connections : Session!Tell(b)
<1>1. c \in Connections /\ c \in ended /\ told[c] = 0
  BY ConnFacts DEF ConnOf, CloseNotifies
<1>2. told' = [told EXCEPT ![c] = 1]
  <2>1. told[c] + 1 = 1
    BY <1>1
  <2> QED
    BY <2>1 DEF CloseNotifies
<1>3. Session!Tell(c)
  BY <1>1, <1>2 DEF CloseNotifies, Session!Tell
<1> QED
  BY <1>1, <1>3

LEMMA CallerTells ==
    ASSUME TypeOK, ClientInv, NEW t \in Users, DisconnectNotifies(t)
    PROVE  \E b \in Connections : Session!Tell(b)
<1> DEFINE c == call[t].took
<1>1. c \in 1 .. Len(chan) /\ c \in ended /\ told[c] = 0
  BY DEF ClientInv, TookOf, DisconnectNotifies, At
<1>2. c \in Connections
  BY <1>1, ConnFacts
<1>3. told' = [told EXCEPT ![c] = 1]
  <2>1. told[c] + 1 = 1
    BY <1>1
  <2> QED
    BY <2>1 DEF DisconnectNotifies
<1>4. Session!Tell(c)
  BY <1>1, <1>3 DEF DisconnectNotifies, Session!Tell
<1> QED
  BY <1>2, <1>4

LEMMA RefinesNext ==
    TypeOK /\ ClientInv /\ [Next]_vars => [Session!Next]_(Session!sessionVars)
<1> SUFFICES ASSUME TypeOK, ClientInv, [Next]_vars
             PROVE  Session!Next \/ UNCHANGED Session!sessionVars
  BY DEF Session!sessionVars
<1>1. CASE UNCHANGED vars
  BY <1>1 DEF vars, Session!sessionVars
<1>2. ASSUME NEW t \in Users, Disconnect(t) \/ DisconnectStep(t) \/ CloseReturns(t)
      PROVE  Session!Next \/ UNCHANGED Session!sessionVars
  <2>1. CASE DisconnectStops(t)
    BY <2>1 DEF DisconnectStops, histVars, Session!sessionVars
  <2>2. CASE Disconnect(t)
    BY <2>2, DisconnectEnds DEF Session!Next
  <2>3. CASE DisconnectNotifies(t)
    BY <2>3, CallerTells DEF Session!Next
  <2>4. CASE CloseReturns(t)
    BY <2>4 DEF CloseReturns, histVars, Session!sessionVars
  <2> QED
    BY <1>2, <2>1, <2>2, <2>3, <2>4 DEF DisconnectStep
<1>3. ASSUME NEW t \in Callers,
             Invalid(t) \/ AttemptStep(t) \/ ContextDone(t) \/ DialTimeout(t)
      PROVE  Session!Next \/ UNCHANGED Session!sessionVars
  <2>1. CASE Install(t)
    BY <2>1, InstallStarts DEF Session!Next
  <2>2. CASE notifyOpen(t)
    BY <2>2, OpenGreets DEF Session!Next
  <2>3. CASE ~Install(t) /\ ~notifyOpen(t)
    BY <1>3, <2>3 DEF Invalid, AttemptStep, beginConnect, NextCandidate, Resolve, DialFails,
           DialReturns, Register, InstallFails, finish, ContextDone, DialTimeout, histVars,
           Session!sessionVars
  <2> QED
    BY <2>1, <2>2, <2>3
<1>4. ASSUME NEW c \in 1 .. Len(chan), Cut(c) \/ ChannelFails(c) \/ Read(c) \/ ReaderStep(c)
                                     \/ DispatcherStep(c)
      PROVE  Session!Next \/ UNCHANGED Session!sessionVars
  <2>1. CASE CloseOfChannel(c)
    BY <2>1, CloseEnds DEF Session!Next
  <2>2. CASE CloseNotifies(c)
    BY <2>2, ReaderTells DEF Session!Next
  <2>3. CASE ~CloseOfChannel(c) /\ ~CloseNotifies(c)
    BY <1>4, <2>3 DEF Cut, ChannelFails, Read, ReaderStep, enqueue, ReadFails,
       CloseBeforeInstall, CloseStops, DispatcherStep, Dispatch, Apply, histVars,
       Session!sessionVars
  <2> QED
    BY <2>1, <2>2, <2>3
<1> QED
  BY <1>1, <1>2, <1>3, <1>4 DEF Next

\* Every behaviour of the client is one of ClientSession, its fairness aside:
\* the game sees one connection after the other, OnConnect only for the current
\* one, and at most one OnDisconnect for each, after it ended.
THEOREM ClientImplementsSession == Spec => Session!SafeSpec
  BY RefinesInit, RefinesNext, ClientInvariant, PTL DEF Spec, Session!SafeSpec

=============================================================================
