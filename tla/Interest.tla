------------------------------ MODULE Interest ------------------------------
(***************************************************************************)
(* Replication to one session with interest management (CellSize > 0):     *)
(* the spatial hash grid (golem/interest/grid.go), fields of interest and  *)
(* their diffs (manager.go) and Server.runInterestTick (golem/loop.go).    *)
(* Entities, owners, groups, frames, the eventual-state lane and the       *)
(* client are those of Replication; known is the manager's known set of    *)
(* the session.                                                            *)
(*                                                                         *)
(* A tick has these steps, with game code of other goroutines, or of the   *)
(* OnUpdates callback, in between: the diff under interestMu, the flush of *)
(* the registry, the serialization of each removal, and the sends.         *)
(* Positions are integer points, lists of entities are sets, and the marks *)
(* that tell this tick's candidates from earlier ones (candidateMarks,     *)
(* their generation and compaction) are the set of candidates.  The        *)
(* connect snapshot has no entities in this mode.                          *)
(***************************************************************************)
EXTENDS Replication, Integers

CONSTANTS
    CellSize,   \* ServerConfig.CellSize
    Places,     \* points <<x, y>> entities move between
    PosField,   \* the field that carries the position
    Settings    \* [case, globals, start, fois, stream, foiOps]

\* case: the scenario of Replication it goes with; globals: entities whose type is
\* global; start: first positions; fois: fields the game assigns; stream: a
\* WebSocket session, or the stream lane; foiOps: how often fields are assigned or
\* removed.
FOIType == [anchor : Entities, radius : Nat, margin : Nat]

ASSUME InterestAssumption ==
    /\ CellSize \in Nat \ {0}
    /\ Places \subseteq Int \X Int /\ PosField \in Fields
    /\ \A s \in Settings : /\ s.case \in Scenarios
                           /\ s.globals \subseteq Entities /\ s.start \in [Entities -> Places]
                           /\ s.fois \subseteq FOIType /\ s.stream \in BOOLEAN /\ s.foiOps \in Nat

VARIABLES
    setting, foiOps,    \* chosen once; fields assigned or removed so far
    pos,                \* position of every entity
    foi,                \* the session's field of interest
    grid, globals,      \* Manager: grid and globals, as of the last UpdateGrid
    diff,               \* the diff of the tick under way
    forgotten,          \* history: known entities dropped by RemoveFOI
    trusted             \* history: entities whose changes were sent whole to the
                        \* session, as their owner, since they were last Restated

interestVars == <<setting, foiOps, pos, foi, grid, globals, diff, forgotten, trusted>>
allVars == <<vars, interestVars>>

NoFOI  == [anchor |-> 0, radius |-> 0, margin |-> 0]
NoDiff == [at |-> "idle"]

InitInterest ==
    /\ Init /\ ~scenario.joined
    /\ setting \in Settings /\ setting.case = scenario /\ foiOps = 0
    /\ pos = setting.start
    /\ foi = NoFOI
    /\ grid = [positions |-> <<>>, cellOf |-> <<>>, cells |-> <<>>] /\ globals = {}
    /\ diff = NoDiff /\ forgotten = {} /\ trusted = {}

-----------------------------------------------------------------------------
(* grid.go.  positions and cellOf are keyed by entity; cells, keyed by cell, *)
(* holds no empty cell.                                                      *)

cellKey(x, y) == <<x \div CellSize, y \div CellSize>>
toCell(p) == cellKey(p[1], p[2])

CellWithout(cells, ck, e) ==
    IF cells[ck] = {e} THEN Drop(cells, {ck}) ELSE [cells EXCEPT ![ck] = @ \ {e}]
CellWith(cells, ck, e) ==
    With(cells, ck, {e} \cup IF ck \in DOMAIN cells THEN cells[ck] ELSE {})

Has(g, e) == e \in DOMAIN g.positions

GridInsert(g, e, p) ==
    [positions |-> With(g.positions, e, p), cellOf |-> With(g.cellOf, e, toCell(p)),
     cells |-> CellWith(g.cells, toCell(p), e)]

GridRemove(g, e) ==
    IF ~Has(g, e) THEN g
    ELSE [positions |-> Drop(g.positions, {e}), cellOf |-> Drop(g.cellOf, {e}),
          cells |-> CellWithout(g.cells, g.cellOf[e], e)]

\* Mutant: the entity stays in its old cell as well.
MoveKeepsOldCell(g, e, p) ==
    [positions |-> With(g.positions, e, p), cellOf |-> With(g.cellOf, e, toCell(p)),
     cells |-> CellWith(g.cells, g.cellOf[e], e)]

\* Entities are rehashed only when they cross a cell boundary.
GridMove(g, e, p) ==
    [positions |-> With(g.positions, e, p), cellOf |-> With(g.cellOf, e, toCell(p)),
     cells |-> IF g.cellOf[e] = toCell(p) THEN g.cells
               ELSE CellWith(CellWithout(g.cells, g.cellOf[e], e), toCell(p), e)]

Dist2(p, q) == (p[1] - q[1]) * (p[1] - q[1]) + (p[2] - q[2]) * (p[2] - q[2])

QueryInto(g, p, radius) ==
    LET min == cellKey(p[1] - radius, p[2] - radius)
        max == cellKey(p[1] + radius, p[2] + radius)
        scanned == {ck \in DOMAIN g.cells : ck[1] \in min[1] .. max[1] /\ ck[2] \in min[2] .. max[2]}
    IN  {e \in UNION {g.cells[ck] : ck \in scanned} : Dist2(g.positions[e], p) <= radius * radius}

-----------------------------------------------------------------------------
(* Game code. *)

\* SetPosition: the position is a replicated field as well.
MoveEntity(e, p) ==
    /\ pos[e] # p /\ SetField(e, PosField)
    /\ pos' = [pos EXCEPT ![e] = p]
    /\ UNCHANGED <<setting, foiOps, foi, grid, globals, diff, forgotten, trusted>>

GameStep ==
    /\ \/ \E e \in Entities, f \in Fields \ {PosField} : SetField(e, f)
       \/ \E e \in Entities, o \in Owners : CreateEntity(e, o)
       \/ \E e \in Entities : DeleteEntity(e)
       \/ \E e \in Entities, o \in Owners : SetOwner(e, o)
       \/ \E e \in Entities, in \in BOOLEAN : SetEntityVisibilityGroup(e, in)
       \/ SetMember
    /\ UNCHANGED interestVars

\* The known set of a session that has a field already is kept.
AssignFOI(f) ==
    /\ sess = "live" /\ f # foi /\ foiOps < setting.foiOps
    /\ foiOps' = foiOps + 1
    /\ foi' = f
    /\ UNCHANGED <<vars, setting, pos, grid, globals, diff, forgotten, trusted>>

\* The client is told nothing.
RemoveFOI ==
    /\ foi # NoFOI /\ foiOps < setting.foiOps
    /\ foiOps' = foiOps + 1
    /\ foi' = NoFOI
    /\ known' = {} /\ forgotten' = forgotten \cup known
    /\ UNCHANGED <<scenario, used, gameVars, pass, sess, tracker, nextToken, stream, net, open,
                   msgQueue, client, histVars, setting, pos, grid, globals, diff, trusted>>

\* serveAcceptedSession: sendSnapshot returns after the world data.
Connect ==
    /\ sess = "new"
    /\ sess' = "live"
    /\ UNCHANGED <<scenario, used, gameVars, pass, sendVars, msgQueue, client, histVars,
                   interestVars>>

-----------------------------------------------------------------------------
(* The tick. *)

isGlobal(e) == e \in setting.globals

UpdateGrid ==
    LET put(g, e)  == IF Has(g, e) THEN GridMove(g, e, pos[e]) ELSE GridInsert(g, e, pos[e])
        spatial    == {e \in live : ~isGlobal(e)}
        gone       == DOMAIN grid.positions \ spatial
    IN  FoldLeft(GridRemove, FoldLeft(put, grid, SetToSeq(spatial)), SetToSeq(gone))

\* Mutant: an entity that has gone too far to be a candidate is overlooked.
SpatialDiffCandidatesOnly(g, p) ==
    LET candidates == QueryInto(g, p, foi.radius + foi.margin)
        near(e, r) == Dist2(g.positions[e], p) <= r * r /\ Allows(e)
    IN  [entered |-> {e \in candidates \ known : near(e, foi.radius)},
         stayed  |-> {e \in candidates \cap known : near(e, foi.radius + foi.margin)},
         exited  |-> {e \in candidates \cap known : ~near(e, foi.radius + foi.margin)}]

\* Mutant: inside the margin an entity gets no verdict.
SpatialDiffNoMargin(g, p) ==
    LET candidates == QueryInto(g, p, foi.radius + foi.margin)
        near(e, r) == Dist2(g.positions[e], p) <= r * r /\ Allows(e)
    IN  [entered |-> {e \in candidates \ known : near(e, foi.radius)},
         stayed  |-> {e \in candidates \cap known : near(e, foi.radius)},
         exited  |-> {e \in candidates \cap known : ~near(e, foi.radius + foi.margin)}
                     \cup {e \in known \ candidates : ~(isGlobal(e) /\ e \in live)}]

\* The verdicts on entities on the grid g around the point p.
SpatialDiff(g, p) ==
    LET candidates == QueryInto(g, p, foi.radius + foi.margin)
        near(e, r) == Dist2(g.positions[e], p) <= r * r /\ Allows(e)
    IN  [entered |-> {e \in candidates \ known : near(e, foi.radius)},
         stayed  |-> {e \in candidates \cap known : near(e, foi.radius + foi.margin)},
         exited  |-> {e \in candidates \cap known : ~near(e, foi.radius + foi.margin)}
                     \cup {e \in known \ candidates : ~(isGlobal(e) /\ e \in live)}]

\* appendGlobalsFiltered, with the globals that left since the last tick.
GlobalsDiff ==
    LET now == {e \in live : isGlobal(e)} IN
    [entered |-> {e \in now \ known : Allows(e)},
     stayed  |-> {e \in now \cap known : Allows(e)},
     exited  |-> {e \in now \cap known : ~Allows(e)} \cup ((globals \ now) \cap known)]

\* ComputeDiffsFiltered: no spatial verdicts while the anchor is not on the grid.
ComputeDiffsFiltered(g) ==
    LET none == [entered |-> {}, stayed |-> {}, exited |-> {}]
        s == IF Has(g, foi.anchor) THEN SpatialDiff(g, g.positions[foi.anchor]) ELSE none
        all == GlobalsDiff
    IN  [entered |-> s.entered \cup all.entered, stayed |-> s.stayed \cup all.stayed,
         exited |-> s.exited \cup all.exited]

\* The critical section at the start of runInterestTick; the pending changes of
\* ownership are taken with the diff, whether or not the session has a field.
ComputeDiffs ==
    /\ pass = NoPass /\ diff = NoDiff /\ sess = "live"
    /\ grid' = UpdateGrid
    /\ globals' = {e \in live : isGlobal(e)}
    /\ LET d == ComputeDiffsFiltered(grid') IN
       IF foi = NoFOI
       THEN /\ diff' = [has |-> FALSE, refresh |-> refresh]
            /\ UNCHANGED <<known, forgotten>>
       ELSE /\ diff' = [has |-> TRUE, anchored |-> Has(grid', foi.anchor),
                        refresh |-> refresh, entered |-> d.entered,
                        stayed |-> d.stayed, exited |-> d.exited]
            /\ known' = (known \cup d.entered) \ d.exited
            /\ forgotten' = forgotten \ known'
    /\ refresh' = <<>>
    /\ UNCHANGED <<scenario, used, live, born, val, rev, fdirty, flushMask, owner, grouped, member,
                   spawned, despawned, pass, sess, tracker, nextToken, stream, net, open, msgQueue,
                   client, histVars, setting, foiOps, pos, foi, trusted>>

InterestDrain == diff = NoDiff /\ DrainMessages /\ UNCHANGED interestVars
InterestFlush == diff # NoDiff /\ Flush(FALSE) /\ UNCHANGED interestVars
InterestSerialize == SerializeRemoval /\ UNCHANGED interestVars

\* What a stayed entity's delta is on the stream: the session that owns it gets
\* the flushed bytes, others the public fields as they are now, if any.
streamDeltaForSession(e) ==
    IF ~Scoped \/ Mine(e) THEN pass.deltas[e]
    ELSE DeltaOf("delta", e, flushMask[e] \ scenario.private)

StreamDeltas(S) ==
    Frames({e \in S : ~Scoped \/ Mine(e) \/ flushMask[e] \ scenario.private # {}},
           streamDeltaForSession)

\* Mutant: a change of owner drops nothing.
SupersededByDiff == diff.entered \cup diff.exited

\* The entities whose queued and unacknowledged changes a pass drops.
Superseded == diff.entered \cup diff.exited \cup Refreshed(diff.refresh, diff.stayed)

\* The entities the tick tells the session about from scratch, or whose end of
\* ownership it does: nothing from before may be sent for them again.
Restated ==
    diff.entered \cup diff.exited \cup
    {e \in diff.stayed \cap DOMAIN diff.refresh : diff.refresh[e].clear = "me"}

\* Entities known that a tick without an anchor has no verdict on.
Adrift == IF diff.anchored THEN {} ELSE known \ globals

\* The sends to the session; one whose diff is missing is skipped.
InterestSend ==
    /\ Sending
    /\ IF ~diff.has
       THEN UNCHANGED <<tracker, nextToken, stream, net, open, histVars, trusted>>
       ELSE LET changed == diff.stayed \cap live \cap DOMAIN pass.deltas
                fulls   == live \cap (diff.entered \cup (diff.stayed \cap DOMAIN pass.spawns))
                regrant == Refreshed(diff.refresh, diff.stayed)
                cleared == clearEntities(tracker, Superseded)
                frames  == Frames(diff.exited, ExitFrame) \o RefreshFrames(diff.refresh, regrant)
            IN  /\ IF setting.stream
                   THEN Send(Frames(fulls, wrappedFullForSession) \o StreamDeltas(changed) \o frames,
                             [tracker |-> cleared, frames |-> <<>>, packets |-> {}])
                   ELSE \E order \in SetToSeqs(changed) :
                          Send(Frames(fulls, wrappedFullForSession) \o frames,
                               sendSessionEventualState(cleared, SessionChanges(order)))
                /\ trusted' = (trusted \ Restated) \cup {e \in changed : Mine(e)}
                /\ astray' = astray \cup (diff.exited \ (live \cup DOMAIN pass.removed))
                /\ missed' = missed \cup
                     UNION {{<<e, f, val[e][f]>> : f \in
                         (IF e \in DOMAIN pass.deltas THEN flushMask[e] ELSE {}) \cup
                         (IF e \in DOMAIN diff.refresh THEN scenario.private ELSE {})} : e \in Adrift}
    /\ diff' = NoDiff
    /\ EndPass /\ UNCHANGED <<known, refresh, setting, foiOps, pos, foi, grid, globals, forgotten>>

NetworkStep ==
    /\ StreamDeliver \/ DatagramDeliver \/ Acknowledged \/ Lost
    /\ UNCHANGED interestVars

\* Behaviours are followed from the moment the session has connected.
NextInterest ==
    \/ Connect
    \/ sess = "live" /\ \E e \in Entities, p \in Places : MoveEntity(e, p)
    \/ sess = "live" /\ GameStep
    \/ \E f \in setting.fois : AssignFOI(f)
    \/ RemoveFOI
    \/ InterestDrain \/ ComputeDiffs \/ InterestFlush \/ InterestSerialize \/ InterestSend
    \/ NetworkStep

SpecInterest == InitInterest /\ [][NextInterest]_allVars

-----------------------------------------------------------------------------
\* The three indexes of the grid agree: whatever was inserted, moved and
\* removed, a query by cells finds exactly the entities within the radius, for
\* negative coordinates and points on a cell's border too.
GridQueryExact ==
    /\ DOMAIN grid.positions = DOMAIN grid.cellOf
    /\ \A p \in Places, f \in setting.fois : \A r \in {f.radius, f.radius + f.margin} :
        QueryInto(grid, p, r) = {e \in DOMAIN grid.positions : Dist2(grid.positions[e], p) <= r * r}

\* Every tick, the known set is the one the positions, the groups and the known
\* set before call for: inside the radius to enter, beyond radius plus margin to
\* leave; without an anchor only globals and what was known.
KnownFollowsPositions ==
    [][diff = NoDiff /\ diff' # NoDiff /\ foi # NoFOI =>
        LET reach(e)  == IF e \in known THEN foi.radius + foi.margin ELSE foi.radius
            anchored  == foi.anchor \in live /\ ~isGlobal(foi.anchor)
            seen(e)   == e \in live /\ Allows(e) /\ Dist2(pos[e], pos[foi.anchor]) <= reach(e) * reach(e)
        IN  known' = {e \in live : isGlobal(e) /\ Allows(e)} \cup
                     {e \in Entities : ~isGlobal(e) /\ IF anchored THEN seen(e) ELSE e \in known}]_allVars

Between == pass = NoPass /\ diff = NoDiff /\ sess = "live"

\* Between ticks, when the stream has been read, the client shows the entities
\* the manager takes it to know.  It may show more: entities dropped by a
\* RemoveFOI, and entities whose removal carried no revision (deleted between
\* the diff and the flush or while the anchor was missing, or another deletion
\* took the place of theirs).
InterestKnownMatchesClient ==
    Between /\ stream = <<>> =>
        /\ known \cap live \subseteq DOMAIN client.ents
        /\ DOMAIN client.ents \ known \subseteq astray \cup forgotten

\* Between ticks, every flushed value of every known entity was handed to the
\* client's side or is on its way, on either lane.  The exceptions in missed are
\* what was flushed, or changed owner, while the anchor was missing, and losses
\* reported to a full message queue.
InterestNothingForgotten ==
    Between => \A e \in (known \cap live) \ DOMAIN refresh : \A f \in View(e) \ fdirty[e] :
        \/ handed[e][f] = val[e][f]
        \/ OnItsWay(e, f)
        \/ <<e, f, val[e][f]>> \in missed

\* Of the entities the interest manager takes the session to know, the client
\* shows all and lacks no value that is not on its way: the diffs, the grid, the
\* two lanes and the tracker agree, tick after tick.
InterestComplete == InterestKnownMatchesClient /\ InterestNothingForgotten

NewFrames ==
    (UNION {ToSet(d.frames) : d \in net' \ net}) \cup
    ToSet(IF Len(stream') > Len(stream) THEN SubSeq(stream', Len(stream) + 1, Len(stream')) ELSE <<>>)

\* State is sent, or sent again after a loss, only for entities the manager
\* takes the session to know (an exit drops what was queued and in flight;
\* entities dropped by a RemoveFOI keep theirs).  Owner-only values are sent
\* while the session owns the entity, or when the tick's diff took a pending
\* change that made it the owner; and sent again at most until a tick tells the
\* session that the entity is no longer its own, which no tick does when the
\* owner changed after a diff and changed back before the next.
InterestConfined ==
    [][\A fr \in NewFrames :
         /\ fr.kind # "removed" => fr.id \in known \cup forgotten
         /\ fr.id \in live => \A f \in DOMAIN fr.vals \cap scenario.private :
              \/ fr.vals[f] = 0 \/ Mine(fr.id) \/ fr.id \in trusted'
              \/ fr.id \in DOMAIN diff.refresh /\ diff.refresh[fr.id].new = "me"]_allVars

=============================================================================
