----------------------------- MODULE Replication -----------------------------
(***************************************************************************)
(* Entity replication to one WebTransport session in broadcast mode, from  *)
(* the registry of entities to the client's EntityManager: the tick of     *)
(* golem/loop.go (runBroadcastTick, blind and filtered), the registry,     *)
(* visibility groups, owner-only fields (golem/owner_replication.go), the  *)
(* connect snapshot, the eventual-state lane (golem/eventual_state.go) and *)
(* the generated entity and manager code (codegen/templates).              *)
(*                                                                         *)
(* Spawns, removals, full states and oversized deltas travel on the        *)
(* session's ordered stream, other deltas in datagrams that may arrive     *)
(* late, out of order or never.  The verdict on a datagram (DatagramLink)  *)
(* comes back through the server's message queue.  A field's value is the  *)
(* revision of its entity at which it was set, 0 the default.              *)
(*                                                                         *)
(* Game code (a tick or OnUpdates callback, a task, another goroutine) may *)
(* run between the steps of a tick: the flush, the serialization of each   *)
(* removal, the sends to the session with what follows them.  The list of  *)
(* removals of a pass shares its memory with the deletions recorded after  *)
(* its flush.  A session that closes is not modelled here.                 *)
(***************************************************************************)
EXTENDS EventualTracker

CONSTANTS Entities, Fields, Scenarios

Owners == {"me", "other", "none"}     \* the session, another one, nobody
Ops == {"set", "create", "delete", "owner", "group", "loss"}

\* What a behaviour starts from: is the session connected already, entities
\* registered before it connects, owner-only fields (visibility: owner), fields
\* too big for a datagram, frames that fit in one, the capacity of the message
\* queue, and how often each kind of operation may happen.
ScenarioType ==
    [joined : BOOLEAN, live : SUBSET Entities, private : SUBSET Fields,
     big : SUBSET Fields, budget : Nat \ {0}, queueCap : Nat, cap : [Ops -> Nat]]

ASSUME ReplicationAssumption ==
    /\ CompactSlack \in Nat
    /\ IsFiniteSet(Entities) /\ Entities \subseteq Nat \ {0}
    /\ \A s \in Scenarios : s \in ScenarioType

VARIABLES
    scenario, used,     \* chosen once; operations of each kind so far
    live, born,         \* registry: entities registered now, and ever
    val, rev,           \* entity: field values, state revision
    fdirty, flushMask,  \* entity: dirty, lastFlushMask
    owner, refresh,     \* registry owners; ownershipRefresh
    grouped, member,    \* entities in the group; is the session in it
    spawned, despawned, \* registry: since the last flush
    pass,               \* the flushed tick that has not been sent yet
    sess, known,        \* state of the session; its broadcastKnown
    tracker, nextToken, \* its eventualStateTracker; nextEventualToken
    stream, net,        \* frames on the stream, datagrams not yet received
    open, msgQueue,     \* tokens without a verdict; queued verdicts
    client,             \* its EntityManager: entities, lastRevisions
    handed,             \* history: field values handed to the client's side
    missed, astray      \* history: values nothing will send again; removed
                        \* entities on which known and the client may differ

gameVars   == <<live, born, val, rev, fdirty, flushMask, owner, refresh, grouped,
                member, spawned, despawned>>
sendVars   == <<known, tracker, nextToken, stream, net, open>>
histVars   == <<handed, missed, astray>>
vars == <<scenario, used, gameVars, pass, sess, sendVars, msgQueue, client, histVars>>

Scoped  == scenario.private # {}        \* entities are OwnerScopedEntity
Mine(e) == owner[e] = "me"
NoPass  == [at |-> "idle"]

\* visibility.Manager.Allows
Allows(e) == e \notin grouped \/ member

May(op)   == used[op] < scenario.cap[op]
Spend(op) == May(op) /\ used' = [used EXCEPT ![op] = @ + 1]

Init ==
    /\ scenario \in Scenarios
    /\ used = [op \in Ops |-> 0]
    /\ live = scenario.live /\ born = scenario.live
    /\ val = [e \in Entities |-> [f \in Fields |-> 0]]
    /\ rev = [e \in Entities |-> 0]
    /\ fdirty = [e \in Entities |-> {}] /\ flushMask = [e \in Entities |-> {}]
    /\ owner = [e \in Entities |-> "none"] /\ refresh = <<>>
    /\ grouped = {} /\ member = FALSE
    /\ spawned = {} /\ despawned = <<>>
    /\ pass = NoPass
    /\ sess = IF scenario.joined THEN "live" ELSE "new"
    /\ known = IF scenario.joined THEN live ELSE {}
    /\ tracker = newEventualStateTracker /\ nextToken = 0
    /\ stream = <<>> /\ net = {} /\ open = {} /\ msgQueue = <<>>
    /\ client = [ents |-> [e \in known |-> val[e]], last |-> [e \in known |-> 0]]
    /\ handed = val /\ missed = {} /\ astray = {}

-----------------------------------------------------------------------------
(* Game code, at any time. *)

SetField(e, f) ==
    /\ e \in live /\ Spend("set")
    /\ rev' = [rev EXCEPT ![e] = @ + 1]
    /\ val' = [val EXCEPT ![e][f] = rev[e] + 1]
    /\ fdirty' = [fdirty EXCEPT ![e] = @ \cup {f}]
    /\ UNCHANGED <<scenario, live, born, flushMask, owner, refresh, grouped, member,
                   spawned, despawned, pass, sess, sendVars, msgQueue, client, histVars>>

\* IDs are never used again (Server.nextID).
CreateEntity(e, o) ==
    /\ e \notin born /\ (o = "me" => sess = "live") /\ Spend("create")
    /\ live' = live \cup {e} /\ born' = born \cup {e}
    /\ owner' = [owner EXCEPT ![e] = o]
    /\ spawned' = spawned \cup {e}
    /\ UNCHANGED <<scenario, val, rev, fdirty, flushMask, refresh, grouped, member,
                   despawned, pass, sess, sendVars, msgQueue, client, histVars>>

removalRevision(e) == rev[e] + 1

\* FlushAll hands out the slices it truncates: the deletions after a flush are
\* written over the removals of the pass under way, from the first one on.
Despawn(removal) ==
    LET slot == Len(despawned) + 1 IN
    /\ despawned' = Append(despawned, removal)
    /\ IF pass # NoPass /\ slot \in DOMAIN pass.removals
       THEN /\ pass' = [pass EXCEPT !.removals[slot] = removal]
            /\ astray' = astray \cup {pass.removals[slot].id, removal.id}
       ELSE UNCHANGED <<pass, astray>>

DeleteEntity(e) ==
    /\ e \in live /\ Spend("delete")
    /\ live' = live \ {e}
    /\ owner' = [owner EXCEPT ![e] = "none"]
    /\ Despawn([id |-> e, rev |-> removalRevision(e)])
    /\ UNCHANGED <<scenario, born, val, rev, fdirty, flushMask, refresh, grouped, member,
                   spawned, sess, sendVars, msgQueue, client, handed, missed>>

\* A -> ... -> A between two passes cancels out.
queueOwnershipRefresh(e, old, new) ==
    LET clear == IF e \in DOMAIN refresh THEN refresh[e].clear ELSE old IN
    IF clear = new THEN Drop(refresh, {e})
    ELSE With(refresh, e, [clear |-> clear, new |-> new])

\* Registry.SetOwner; session 0 is "none".
Owns(e, o) == owner' = [owner EXCEPT ![e] = o]

\* Game code learns the session's ID when it is connected.
SetOwner(e, o) ==
    /\ e \in live /\ owner[e] # o /\ (o = "me" => sess = "live") /\ Spend("owner")
    /\ Owns(e, o)
    /\ refresh' = IF Scoped THEN queueOwnershipRefresh(e, owner[e], o) ELSE refresh
    /\ UNCHANGED <<scenario, live, born, val, rev, fdirty, flushMask, grouped, member,
                   spawned, despawned, pass, sess, sendVars, msgQueue, client, histVars>>

SetEntityVisibilityGroup(e, in) ==
    /\ e \in live /\ in # (e \in grouped) /\ Spend("group")
    /\ grouped' = IF in THEN grouped \cup {e} ELSE grouped \ {e}
    /\ UNCHANGED <<scenario, live, born, val, rev, fdirty, flushMask, owner, refresh,
                   member, spawned, despawned, pass, sess, sendVars, msgQueue, client, histVars>>

\* JoinVisibilityGroup, LeaveVisibilityGroup
SetMember ==
    /\ sess = "live" /\ Spend("group")
    /\ member' = ~member
    /\ UNCHANGED <<scenario, live, born, val, rev, fdirty, flushMask, owner, refresh,
                   grouped, spawned, despawned, pass, sess, sendVars, msgQueue, client, histVars>>

-----------------------------------------------------------------------------
(* Frames: "full" replaces a client entity, "delta" and "compact" update it, *)
(* "removed" removes it.                                                     *)

Frame(kind, e, vals) == [kind |-> kind, id |-> e, rev |-> rev[e], vals |-> vals]
FullUpdate(e)        == Frame("full", e, val[e])
PublicFullUpdate(e)  ==
    Frame("full", e, [f \in Fields |-> IF f \in scenario.private THEN 0 ELSE val[e][f]])
DeltaOf(kind, e, mask) == Frame(kind, e, Restrict(val[e], mask))
Removed(e, revision)  == [kind |-> "removed", id |-> e, rev |-> revision, vals |-> <<>>]

fullUpdateForSession(e) == IF Scoped /\ ~Mine(e) THEN PublicFullUpdate(e) ELSE FullUpdate(e)

\* A tick reuses the authoritative state that FlushAll serialized for a spawn.
wrappedFullForSession(e) ==
    IF (Scoped => Mine(e)) /\ e \in DOMAIN pass.spawns THEN pass.spawns[e]
    ELSE fullUpdateForSession(e)

Frames(S, F(_)) == LET ids == SetToSeq(S) IN [i \in 1 .. Len(ids) |-> F(ids[i])]

\* What the client's side has after frames were put on its stream or given to it.
AfterFrames(h, frames) ==
    LET step(g, fr) ==
            [g EXCEPT ![fr.id] =
                CASE fr.kind = "full"    -> fr.vals
                  [] fr.kind = "removed" -> [f \in Fields |-> 0]
                  [] OTHER -> [f \in Fields |-> IF f \in DOMAIN fr.vals /\ fr.vals[f] > @[f]
                                                THEN fr.vals[f] ELSE @[f]]]
    IN  FoldLeft(step, h, frames)

-----------------------------------------------------------------------------
(* The connection goroutine: the snapshot is selected and written first, the *)
(* session joins the listener's sessions, and so the ticks, afterwards.      *)

SendSnapshot ==
    /\ sess = "new"
    /\ LET ids    == {e \in live : Allows(e)}
           frames == Frames(ids, fullUpdateForSession)
       IN  /\ known' = ids
           /\ stream' = stream \o frames
           /\ handed' = AfterFrames(handed, frames)
    /\ sess' = "snapshot"
    /\ UNCHANGED <<scenario, used, gameVars, pass, tracker, nextToken, net, open, msgQueue,
                   client, missed, astray>>

AddSession ==
    /\ sess = "snapshot"
    /\ sess' = "live"
    /\ UNCHANGED <<scenario, used, gameVars, pass, sendVars, msgQueue, client, histVars>>

-----------------------------------------------------------------------------
(* The tick. *)

applyEventualStateFeedback(t, feedback) == applyFeedback(t, feedback, live)

\* drainMessages: every queued verdict, oldest first.
DrainMessages ==
    /\ pass = NoPass /\ msgQueue # <<>>
    /\ tracker' = FoldLeft(LAMBDA t, f : applyEventualStateFeedback(t, f), tracker, msgQueue)
    /\ msgQueue' = <<>>
    /\ UNCHANGED <<scenario, used, gameVars, pass, sess, known, nextToken, stream, net, open,
                   client, histVars>>

shouldFilterBroadcast ==
    \/ grouped # {}
    \/ refresh # <<>>
    \/ Scoped /\ live # {}
    \/ sess = "live" /\ known # live

\* Registry.FlushAll at the start of a pass.
Flush(filter) ==
    LET flushed == {e \in live \ spawned : fdirty[e] # {}} IN
    /\ pass = NoPass
    /\ pass' = [at |-> "send", filter |-> filter,
                spawns |-> [e \in spawned |-> FullUpdate(e)],
                deltas |-> [e \in flushed |-> DeltaOf("delta", e, fdirty[e])],
                removals |-> despawned, read |-> 0, removed |-> <<>>]
    /\ flushMask' = [e \in Entities |-> IF e \in live \ spawned THEN fdirty[e] ELSE flushMask[e]]
    /\ fdirty' = [e \in Entities |-> IF e \in flushed THEN {} ELSE fdirty[e]]
    /\ spawned' = {} /\ despawned' = <<>>
    /\ UNCHANGED <<scenario, used, live, born, val, rev, owner, refresh, grouped, member,
                   sess, sendVars, msgQueue, client, histVars>>

\* runBroadcastTick chooses between the blind and the filtered pass.
FlushAll == Flush(shouldFilterBroadcast)

RemovalIDs == {r.id : r \in ToSet(pass.removals)}

\* clearEventualEntities: both passes forget what waits for a removed entity.
clearEventualEntities(t) == clearEntities(t, RemovalIDs)

\* Each pass turns its removals into frames (removalData), one by one; after the
\* last one it drops what waits for those entities.  The ID and the revision of a
\* removal are read together: a deletion between the two reads would mix those of
\* two entities that are astray.
SerializeRemoval ==
    /\ pass # NoPass /\ pass.read + 1 \in DOMAIN pass.removals
    /\ LET r == pass.removals[pass.read + 1] IN
       pass' = [pass EXCEPT !.read = @ + 1, !.removed = With(@, r.id, r.rev)]
    /\ tracker' = IF pass.read + 1 = Len(pass.removals) THEN clearEventualEntities(tracker)
                  ELSE tracker
    /\ UNCHANGED <<scenario, used, gameVars, sess, known, nextToken, stream, net, open, msgQueue,
                   client, histVars>>

\* What the pass sends is put together from here on.
Sending == pass # NoPass /\ pass.read = Len(pass.removals)

eventualChangeForDelta(e) ==
    IF e \in live /\ flushMask[e] # {} THEN Change(e, flushMask[e], FALSE, FALSE)
    ELSE Change(e, {}, TRUE, FALSE)

\* Mutant: every session is sent the change as it is.
changeUnredacted(ch) == ch

eventualChangeForSession(ch) ==
    IF ~Scoped \/ Mine(ch.id) THEN ch
    ELSE Change(ch.id, ch.mask \ scenario.private, ch.full, TRUE)

SentMask(ch) == IF ch.public THEN ch.mask \ scenario.private ELSE ch.mask
HasFrame(ch) == ch.id \in live /\ (ch.full \/ SentMask(ch) # {})
Fits(ch)     == ~ch.full /\ SentMask(ch) \cap scenario.big = {}

eventualFrameForChange(ch) ==
    IF ch.full THEN IF ch.public THEN PublicFullUpdate(ch.id) ELSE FullUpdate(ch.id)
    ELSE DeltaOf(IF Fits(ch) THEN "compact" ELSE "delta", ch.id, SentMask(ch))

EventualFrames(changes) == [i \in 1 .. Len(changes) |-> eventualFrameForChange(changes[i])]

\* Frames are packed into datagrams in order; what needs the stream follows.
\* The values sent are the current ones, whenever the change was recorded.
sendEventualStateChanges(t, changes) ==
    LET fit   == Only(changes, {ch \in ToSet(changes) : HasFrame(ch) /\ Fits(ch)})
        slow  == Only(changes, {ch \in ToSet(changes) : HasFrame(ch) /\ ~Fits(ch)})
        count == (Len(fit) + scenario.budget - 1) \div scenario.budget
        group(i) == SubSeq(fit, (i - 1) * scenario.budget + 1,
                           IF i = count THEN Len(fit) ELSE i * scenario.budget)
        groups == [i \in 1 .. count |-> [token |-> nextToken + i, changes |-> group(i)]]
        rest  == clearDirty(t, {ch.id : ch \in {c \in ToSet(changes) : ~(HasFrame(c) /\ Fits(c))}})
    IN  [tracker |-> FoldLeft(LAMBDA u, g : markSent(u, g.token, g.changes), rest, groups),
         frames  |-> EventualFrames(slow),
         packets |-> {[token |-> groups[i].token, frames |-> EventualFrames(groups[i].changes)] :
                      i \in 1 .. count}]

sendEventualState(t) ==
    LET sent == sendEventualStateChanges(t, dirtyChanges(t)) IN
    [sent EXCEPT !.tracker = compactDirtyQueue(@)]

\* A tick's own changes go out as they are unless older ones wait to be sent.
sendSessionEventualState(t, changes) ==
    IF changes # <<>> /\ Dirty(t) = {} THEN sendEventualStateChanges(t, changes)
    ELSE sendEventualState(markAll(t, changes))

sendBlindEventualState(t, changes) ==
    IF Dirty(t) = {} THEN sendEventualStateChanges(t, changes)
    ELSE sendEventualState(markAll(t, changes))

\* The sends of one pass: frames for the stream, then the eventual state.
Send(frames, sent) ==
    LET all == frames \o sent.frames IN
    /\ stream' = stream \o all
    /\ handed' = AfterFrames(handed, all)
    /\ tracker' = sent.tracker
    /\ net' = net \cup sent.packets
    /\ nextToken' = nextToken + Cardinality(sent.packets)
    /\ open' = open \cup {p.token : p \in sent.packets}

Removals(S) == Frames(S, LAMBDA e : Removed(e, pass.removed[e]))

EndPass ==
    /\ pass' = NoPass
    /\ grouped' = grouped \ RemovalIDs        \* cleanupVisibilityForRemovals
    /\ UNCHANGED <<scenario, used, live, born, val, rev, fdirty, flushMask, owner, member,
                   spawned, despawned, sess, msgQueue, client>>

\* The queued sends count as known.
applyBlindBroadcastKnown == (known \cup DOMAIN pass.spawns) \ RemovalIDs

Idle == pass.deltas = <<>> /\ pass.spawns = <<>> /\ pass.removals = <<>>

\* runBroadcastTickBlind; with nothing flushed it returns before any send.
BroadcastBlind ==
    /\ Sending /\ ~pass.filter /\ sess = "live"
    /\ \E order \in SetToSeqs(DOMAIN pass.deltas) :
         LET gone    == DOMAIN pass.removed
             changes == [i \in 1 .. Len(order) |-> eventualChangeForDelta(order[i])]
         IN  IF Idle THEN UNCHANGED <<sendVars, handed>>
             ELSE /\ Send(Frames(DOMAIN pass.spawns, LAMBDA e : pass.spawns[e]) \o Removals(gone),
                          sendBlindEventualState(tracker, changes))
                  /\ known' = applyBlindBroadcastKnown
    /\ EndPass /\ UNCHANGED <<refresh, missed, astray>>

\* Mutant: leaving sight looks like a deletion.
ExitAsDeleted(e) ==
    Removed(e, IF e \in DOMAIN pass.removed THEN pass.removed[e] ELSE removalRevision(e))

\* What a session that loses sight of an entity is sent: the pass's removal of it;
\* if there is none, one at its current revision, or at 0 when it is gone.
ExitFrame(e) ==
    IF e \in DOMAIN pass.removed THEN Removed(e, pass.removed[e])
    ELSE Removed(e, IF e \in live THEN rev[e] ELSE 0)

\* appendOwnershipRefreshFrames: one frame clears, one grants; a grant was
\* decided when the pending transitions were taken.
Refreshed(pending, stayed) ==
    {e \in DOMAIN pending \cap stayed \cap live : "me" \in {pending[e].clear, pending[e].new}}
GrantFrame(e) == IF e \in DOMAIN pass.spawns THEN pass.spawns[e] ELSE FullUpdate(e)
RefreshFrames(pending, S) ==
    Frames({e \in S : pending[e].clear = "me"}, PublicFullUpdate) \o
    Frames({e \in S : pending[e].new = "me"}, GrantFrame)

computeBroadcastDiff ==
    LET desired == {e \in live : Allows(e)} IN
    [entered |-> desired \ known, stayed |-> desired \cap known, exited |-> known \ desired,
     known |-> desired]

\* The deltas of a pass as one session gets them, in any order.
SessionChanges(order) ==
    LET changes == [i \in 1 .. Len(order) |-> eventualChangeForSession(eventualChangeForDelta(order[i]))]
    IN  Only(changes, {ch \in ToSet(changes) : ch.full \/ ch.mask # {}})

\* runBroadcastTickFiltered
BroadcastFiltered ==
    /\ Sending /\ pass.filter /\ sess = "live"
    /\ LET diff      == computeBroadcastDiff
           refreshed == Refreshed(refresh, diff.stayed)
           respawned == diff.stayed \cap DOMAIN pass.spawns
           cleared   == clearEntities(tracker, diff.entered \cup diff.exited \cup refreshed)
       IN  \E order \in SetToSeqs(diff.stayed \cap DOMAIN pass.deltas) :
             /\ Send(Frames(diff.entered \cup respawned, wrappedFullForSession) \o
                     Frames(diff.exited, ExitFrame) \o RefreshFrames(refresh, refreshed),
                     sendSessionEventualState(cleared, SessionChanges(order)))
             /\ known' = diff.known
             /\ astray' = astray \cup (diff.exited \ (live \cup DOMAIN pass.removed))
    /\ refresh' = <<>>
    /\ EndPass /\ UNCHANGED missed

\* A pass while this session is not among the listener's.
BroadcastToOthers ==
    /\ Sending /\ sess # "live"
    /\ refresh' = IF pass.filter THEN <<>> ELSE refresh
    /\ missed' = missed \cup (IF sess = "new" THEN {}
                              ELSE UNION {{<<e, f, val[e][f]>> : f \in flushMask[e] \ fdirty[e]} :
                                           e \in DOMAIN pass.deltas})
    /\ EndPass /\ UNCHANGED <<sendVars, handed, astray>>

-----------------------------------------------------------------------------
(* The client: generated EntityManager. *)

\* Mutant: frames are applied as they come.
neverStale(c, fr) == FALSE

isStale(c, fr) == fr.id \in DOMAIN c.last /\ fr.rev < c.last[fr.id]

\* Deltas update entities the client has; full states create them.
Apply(c, fr) ==
    LET has  == fr.id \in DOMAIN c.ents
        seen == [c EXCEPT !.last = With(@, fr.id, fr.rev)]
    IN  IF isStale(c, fr) THEN c
        ELSE IF fr.kind = "removed" THEN [seen EXCEPT !.ents = Drop(@, {fr.id})]
        ELSE IF fr.kind = "full" THEN [seen EXCEPT !.ents = With(@, fr.id, fr.vals)]
        ELSE IF has THEN [seen EXCEPT !.ents[fr.id] = Over(fr.vals, @)]
        ELSE c

StreamDeliver ==
    /\ stream # <<>>
    /\ client' = Apply(client, Head(stream))
    /\ stream' = Tail(stream)
    /\ UNCHANGED <<scenario, used, gameVars, pass, sess, known, tracker, nextToken, net, open,
                   msgQueue, histVars>>

DatagramDeliver ==
    \E d \in net :
        /\ client' = FoldLeft(Apply, client, d.frames)
        /\ net' = net \ {d}
        /\ handed' = AfterFrames(handed, d.frames)
        /\ UNCHANGED <<scenario, used, gameVars, pass, sess, known, tracker, nextToken, stream,
                       open, msgQueue, missed, astray>>

\* The sender's verdict on a datagram (DatagramLink); enqueue drops it when the
\* message queue is full.
Enqueue(token, delivered) ==
    LET full == Len(msgQueue) >= scenario.queueCap
        lost == {fr \in UNION {ToSet(d.frames) : d \in {n \in net : n.token = token}} :
                 ~delivered}
    IN  /\ open' = open \ {token}
        /\ msgQueue' = IF full THEN msgQueue
                       ELSE Append(msgQueue, [token |-> token, delivered |-> delivered])
        /\ missed' = IF full THEN missed \cup UNION {{<<fr.id, f, fr.vals[f]>> : f \in DOMAIN fr.vals} :
                                                     fr \in lost}
                     ELSE missed
        /\ UNCHANGED <<scenario, gameVars, pass, sess, known, tracker, nextToken, stream, net,
                       client, handed, astray>>

Acknowledged ==
    \E token \in open \ {d.token : d \in net} : Enqueue(token, TRUE) /\ UNCHANGED used

\* Also when the datagram arrived and its acknowledgements did not.
Lost == \E token \in open : Enqueue(token, FALSE) /\ Spend("loss")

Next ==
    \/ \E e \in Entities, f \in Fields : SetField(e, f)
    \/ \E e \in Entities, o \in Owners : CreateEntity(e, o)
    \/ \E e \in Entities : DeleteEntity(e)
    \/ \E e \in Entities, o \in Owners : SetOwner(e, o)
    \/ \E e \in Entities, in \in BOOLEAN : SetEntityVisibilityGroup(e, in)
    \/ SetMember
    \/ SendSnapshot \/ AddSession
    \/ DrainMessages \/ FlushAll \/ SerializeRemoval
    \/ BroadcastBlind \/ BroadcastFiltered \/ BroadcastToOthers
    \/ StreamDeliver \/ DatagramDeliver
    \/ Acknowledged \/ Lost

Spec == Init /\ [][Next]_vars

-----------------------------------------------------------------------------
FrameKinds == {"full", "delta", "compact", "removed"}
IsFrame(fr) ==
    /\ fr.kind \in FrameKinds /\ fr.id \in Entities /\ fr.rev \in Nat
    /\ DOMAIN fr.vals \subseteq Fields /\ fr.vals \in [DOMAIN fr.vals -> Nat]
ChangeType == [id : Entities, mask : SUBSET Fields, full : BOOLEAN, public : BOOLEAN]

\* Every variable keeps its type; in particular changes always name something
\* to send, and a datagram in flight carries at least one.
TypeOK ==
    /\ live \subseteq born /\ born \subseteq Entities
    /\ val \in [Entities -> [Fields -> Nat]] /\ rev \in [Entities -> Nat]
    /\ fdirty \in [Entities -> SUBSET Fields] /\ flushMask \in [Entities -> SUBSET Fields]
    /\ owner \in [Entities -> Owners] /\ DOMAIN refresh \subseteq Entities
    /\ grouped \subseteq Entities /\ known \subseteq Entities
    /\ \A e \in Dirty(tracker) : tracker.dirtySet[e] \in ChangeType /\ tracker.dirtySet[e].id = e
    /\ \A k \in DOMAIN tracker.inFlight :
          tracker.inFlight[k] # <<>> /\ ToSet(tracker.inFlight[k]) \subseteq ChangeType
    /\ \A i \in 1 .. Len(stream) : IsFrame(stream[i])
    /\ \A d \in net : \A i \in 1 .. Len(d.frames) : IsFrame(d.frames[i])
    /\ \A e \in DOMAIN client.ents : client.ents[e] \in [Fields -> Nat]

\* The queue of the tracker names every entity with something to send exactly
\* once, whatever was sent, lost, merged or cleared before (markDirtyChange
\* compacts only when the lengths differ): nothing is sent twice or starves.
DirtyQueueExact ==
    \A e \in Dirty(tracker) :
        Cardinality({i \in 1 .. Len(tracker.dirtyQueue) : tracker.dirtyQueue[i] = e}) = 1

View(e) == IF Scoped /\ ~Mine(e) THEN Fields \ scenario.private ELSE Fields

Covers(ch, f) == ch.full \/ f \in ch.mask

\* The current value of e's field f is on its way: waiting to be sent, or in a
\* datagram on the network or reported lost, the verdict on which is to come.
OnItsWay(e, f) ==
    \/ e \in Dirty(tracker) /\ Covers(tracker.dirtySet[e], f)
    \/ \E k \in DOMAIN tracker.inFlight :
          /\ \E i \in 1 .. Len(tracker.inFlight[k]) :
                tracker.inFlight[k][i].id = e /\ Covers(tracker.inFlight[k][i], f)
          /\ \/ k \in open /\ \E d \in net : d.token = k /\ \E i \in 1 .. Len(d.frames) :
                     d.frames[i].id = e /\ f \in DOMAIN d.frames[i].vals
                     /\ d.frames[i].vals[f] = val[e][f]
             \/ \E i \in 1 .. Len(msgQueue) : msgQueue[i] = [token |-> k, delivered |-> FALSE]

\* Between ticks, every flushed value of every entity the session knows was
\* handed to the client's side or is still on its way to it, through losses,
\* merges, clears, respawns and changes of owner, and waits in the queue once.
\* The exceptions are the values in missed: flushed while the session was
\* connecting, after its snapshot, or in a datagram whose loss report found the
\* message queue full.
NothingForgotten ==
    /\ DirtyQueueExact
    /\ pass = NoPass /\ sess = "live" =>
        \A e \in (known \cap live) \ DOMAIN refresh : \A f \in View(e) \ fdirty[e] :
            \/ handed[e][f] = val[e][f]
            \/ OnItsWay(e, f)
            \/ <<e, f, val[e][f]>> \in missed

\* When the stream has been read, the client shows exactly the entities the
\* server takes it to know (broadcastKnown), whatever arrived in datagrams in
\* between, except for deleted entities whose removal carried no revision, or
\* lost or took a place in the list of a pass under way.
KnownMatchesClient ==
    pass = NoPass /\ sess = "live" /\ stream = <<>> =>
        /\ known \ astray \subseteq DOMAIN client.ents
        /\ DOMAIN client.ents \ known \subseteq astray
        /\ live \cap astray = {}

\* A frame for a live entity carries an owner-only value only when the session
\* owns the entity at that moment, also when the change is the retry of one that
\* was recorded while it did.
PrivateOnlyToOwner ==
    [][\A fr \in (UNION {ToSet(d.frames) : d \in net' \ net}) \cup
                 ToSet(IF Len(stream') > Len(stream)
                       THEN SubSeq(stream', Len(stream) + 1, Len(stream')) ELSE <<>>) :
         fr.id \in live =>
           \A f \in DOMAIN fr.vals \cap scenario.private : fr.vals[f] # 0 => Mine(fr.id)]_vars

\* No frame takes a field of an entity the client shows back to an older value
\* (EntityManager.isStale), in whatever order the two lanes are read; only a
\* full state may clear an owner-only field.
NeverGoesBack ==
    [][\A e \in DOMAIN client.ents \cap DOMAIN client'.ents : \A f \in Fields :
         \/ client'.ents[e][f] >= client.ents[e][f]
         \/ f \in scenario.private /\ client'.ents[e][f] = 0]_vars

=============================================================================
