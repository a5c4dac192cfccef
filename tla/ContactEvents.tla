---------------------------- MODULE ContactEvents ----------------------------
(***************************************************************************)
(* Collision in the tick loop: the entity registry, the shapes kept by a   *)
(* collision backend, the step of every tick, the spatial queries, and the *)
(* Enter / Stay / Exit callbacks, during which game code may create, move, *)
(* reshape and delete entities.                                            *)
(*                                                                         *)
(* Three backends share the state: cp (a physics space with its own        *)
(* spatial index), resolv and collision3d's SimpleBackend (plain maps).    *)
(* The index of cp is the field bb of a shape: where its bounding box was  *)
(* last computed.  Layer bit sets are sets of layer names.  3-D positions  *)
(* have z = 0 throughout.                                                  *)
(***************************************************************************)
EXTENDS CastMath

CONSTANTS
    MaxId,        \* entity IDs 1 .. MaxId are handed out by nextID
    Pos,          \* positions
    Colliders,    \* what Collider() may return: [shape, layer, trigger]
    Rules,        \* pairs of layer names given to SetCollides
    Queries,      \* sweeps and boxes asked for, with their origin and layer mask
    Backends,     \* the backends to run with
    MaxOps,       \* bound on calls by game code
    MaxTicks      \* bound on ticks

ASSUME ContactAssumption == {MaxId, MaxOps, MaxTicks} \subseteq Nat

Ids == 1 .. MaxId
Kinds == {"trigger", "solid"}
Origin == <<0, 0>>
NoCall == [to |-> 0]

VARIABLES
    backend,      \* the backend in use
    alive,        \* IDs in the registry
    used,         \* idCounter
    pos,          \* entity positions
    providers,    \* entities that implement ColliderProvider
    entries,      \* the backend's shapes by entity ID
    enabled,      \* contactEventsEnabled
    pairs,        \* triggerPairs and solidPairs
    contacts,     \* currentTrigger and currentSolid: the last step's contacts
    pc,           \* "idle", "stepped" (onContact) or "dispatch"
    phase,        \* which of the four loops of dispatchContactEvents runs
    todo,         \* its pairs still to visit
    second,       \* the call to the pair's second entity, already decided
    inCall,       \* a callback of game code is running
    inside,       \* history: what each entity was told, as <<to, about, kind>>
    call,         \* history: the last callback made by the loop that runs
    settled,      \* history: a dispatch ended since EnableContactEvents
    ops, ticks    \* bounds

game == <<alive, used, pos, providers, entries>>
dispatch == <<pairs, contacts, pc, phase, todo, second, inCall, settled, enabled>>
history == <<inside, call>>
vars == <<backend, game, dispatch, history, ops, ticks>>

-----------------------------------------------------------------------------
(* Layers                                                                   *)

Mask(layer) == {b \in UNION {{r[1], r[2]} : r \in Rules} :
                   <<layer, b>> \in Rules \/ <<b, layer>> \in Rules}

-----------------------------------------------------------------------------
(* Backend operations, as functions of the shapes.                          *)

Shape(c, at, bb, dynamic) ==
    [shape |-> c.shape, layer |-> c.layer, mask |-> Mask(c.layer),
     trigger |-> c.trigger, dynamic |-> dynamic, at |-> at, bb |-> bb]

Put(E, e, s) == [i \in DOMAIN E \cup {e} |-> IF i = e THEN s ELSE E[i]]

\* A new kinematic shape sits at the origin until the next Update.
Add(E, e, c) == Put(E, e, Shape(c, Origin, Origin, FALSE))

AddDynamic(E, e, c, p) == Put(E, e, Shape(c, p, p, TRUE))

RemoveShape(E, e) == [i \in DOMAIN E \ {e} |-> E[i]]

\* Set keeps the position.  cp replaces the body: a kinematic one enters the
\* index at the origin before Update moves it, a dynamic one where it is.
SetBody(E, e, c) ==
    LET old == E[e]
    IN  Put(E, e, Shape(c, old.at, IF old.dynamic THEN old.at ELSE Origin, old.dynamic))

SetInPlace(E, e, c) == Put(E, e, Shape(c, E[e].at, E[e].at, FALSE))

SetShape(E, e, c) == IF backend = "cp" THEN SetBody(E, e, c) ELSE SetInPlace(E, e, c)

Update(E, at) ==
    [i \in DOMAIN E |-> IF i \in alive /\ ~E[i].dynamic THEN [E[i] EXCEPT !.at = at[i]]
                        ELSE E[i]]

\* Physics moves dynamic bodies somewhere (external) and every shape is indexed.
Moved(E, physics) ==
    [i \in DOMAIN E |-> LET at == IF E[i].dynamic THEN physics[i] ELSE E[i].at
                        IN  [E[i] EXCEPT !.at = at, !.bb = at]]

\* Mutant of ReadBack: physics does not reach the entities.
ReadBackKinematic(E) ==
    [i \in Ids |-> IF i \in alive \cap DOMAIN E /\ ~E[i].dynamic THEN E[i].at ELSE pos[i]]

ReadBack(E) == [i \in Ids |-> IF i \in alive \cap DOMAIN E THEN E[i].at ELSE pos[i]]

Near(a, b, touch) ==
    IF Circle(a.shape) THEN overlapCircleShape(a.at, a.shape.r, b.at, b.shape, touch)
    ELSE overlapBoxShape(a.at, a.shape.hw, a.shape.hh, b.at, b.shape, touch)

Deep(a, b) == Near(a, b, FALSE)
Touching(a, b) == Near(a, b, TRUE) /\ ~Deep(a, b)
Filtered(a, b) == a.layer \notin b.mask \/ b.layer \notin a.mask

Tested(E) == UNION {{{a, b} : b \in {b \in DOMAIN E : a < b /\ ~Filtered(E[a], E[b])}} :
                       a \in DOMAIN E}
One(p) == Min(p)
Other(p) == Max(p)
IsTrigger(E, p) == E[One(p)].trigger \/ E[Other(p)].trigger

\* Shapes that only touch: a library may report them, and only a trigger passes.
Grazing(E) == IF backend = "simple" THEN {}
              ELSE {p \in Tested(E) : IsTrigger(E, p) /\ Touching(E[One(p)], E[Other(p)])}

Contacts(E, grazed) ==
    LET deep == {p \in Tested(E) : Deep(E[One(p)], E[Other(p)])}
    IN  [trigger |-> {p \in deep : IsTrigger(E, p)} \cup grazed,
         solid   |-> {p \in deep : ~IsTrigger(E, p)}]

-----------------------------------------------------------------------------
(* Spatial queries                                                          *)

HalfX(s) == IF Circle(s) THEN s.r ELSE s.hw
HalfY(s) == IF Circle(s) THEN s.r ELSE s.hh

\* cp asks its index for boxes that meet the box at c, and its filter also
\* rejects a shape whose own mask is empty.
Broadphase(x, c, hw, hh) ==
    backend = "cp" =>
        /\ x.mask # {}
        /\ Abs(x.bb[1] - c[1]) <= hw + HalfX(x.shape)
        /\ Abs(x.bb[2] - c[2]) <= hh + HalfY(x.shape)

\* The queries that the backend implements: SimpleBackend has no swept shapes.
Offers(q) == backend = "simple" => Ray(q)

Selected(q) == {i \in DOMAIN entries : entries[i].layer \in q.layers}

OverlapBox(q) ==
    {i \in Selected(q) :
        /\ Broadphase(entries[i], q.at, q.hw, q.hh)
        /\ overlapBoxShape(q.at, q.hw, q.hh, entries[i].at, entries[i].shape, FALSE)}

OverlapCircle(q) ==
    {i \in Selected(q) :
        /\ Broadphase(entries[i], q.at, q.r, q.r)
        /\ overlapCircleShape(q.at, q.r, entries[i].at, entries[i].shape, FALSE)}

\* Mutant of Pad: the broadphase covers the path of the centre only.
PadOfRay(q) == IF Circle(q) THEN q.r ELSE 0

Pad(q) == CASE Ray(q)    -> 0
            [] Circle(q) -> q.r
            [] OTHER     -> Max({q.hw, q.hh})

\* castSegment with collectAll: the hits, as <<entity, distance>>.
castSegment(q) ==
    LET half == Abs(q.dx) \div 2
        mid == <<q.at[1] + Sgn(q.dx) * half, q.at[2]>>
        hit(i) == IF backend = "simple"
                  THEN raycastShape(q.at, q, entries[i].at, entries[i].shape)
                  ELSE Cast(q.at, q, entries[i].at, entries[i].shape)
    IN  IF q.dx = 0 THEN {}
        ELSE {<<i, hit(i)>> :
                 i \in {i \in Selected(q) :
                          /\ Broadphase(entries[i], mid, half + Pad(q), Pad(q))
                          /\ hit(i) # NoHit}}

-----------------------------------------------------------------------------
(* Game code, between ticks or inside a callback                            *)

InGame == /\ pc = "idle" \/ inCall
          /\ UNCHANGED <<backend, dispatch, history, ticks>>

\* Every call but the creation of an entity, which MaxId bounds.
Counted == ops < MaxOps /\ ops' = ops + 1

registerCollider(E, e, c, provider) == IF provider THEN Add(E, e, c) ELSE E
unregisterCollider(E, e) == IF e \in providers THEN RemoveShape(E, e) ELSE E

CreateEntity(c, p, provider) ==
    /\ InGame
    /\ used < MaxId
    /\ UNCHANGED ops
    /\ LET e == used + 1
       IN  /\ used' = e
           /\ alive' = alive \cup {e}
           /\ pos' = [pos EXCEPT ![e] = p]
           /\ providers' = IF provider THEN providers \cup {e} ELSE providers
           /\ entries' = registerCollider(entries, e, c, provider)

DeleteEntity(e) ==
    /\ InGame /\ Counted
    /\ e \in alive
    /\ entries' = unregisterCollider(entries, e)
    /\ alive' = alive \ {e}
    /\ UNCHANGED <<used, pos, providers>>

SetPosition(e, p) ==
    /\ InGame /\ Counted
    /\ e \in alive
    /\ pos[e] # p
    /\ pos' = [pos EXCEPT ![e] = p]
    /\ UNCHANGED <<alive, used, providers, entries>>

\* Shapes that game code registers itself; only cp has dynamic bodies.
AddCollider(e, c, dynamic) ==
    /\ InGame /\ Counted
    /\ e \in alive \ DOMAIN entries
    /\ dynamic => backend = "cp"
    /\ entries' = IF dynamic THEN AddDynamic(entries, e, c, pos[e]) ELSE Add(entries, e, c)
    /\ UNCHANGED <<alive, used, pos, providers>>

SetCollider(e, c) ==
    /\ InGame /\ Counted
    /\ e \in DOMAIN entries
    /\ entries' = SetShape(entries, e, c)
    /\ UNCHANGED <<alive, used, pos, providers>>

RemoveCollider(e) ==
    /\ InGame /\ Counted
    /\ e \in DOMAIN entries
    /\ entries' = RemoveShape(entries, e)
    /\ UNCHANGED <<alive, used, pos, providers>>

\* Tracking starts empty, so everything that overlaps enters again.
EnableContactEvents ==
    /\ pc = "idle"
    /\ IF enabled THEN Counted ELSE UNCHANGED ops
    /\ enabled' = TRUE
    /\ pairs' = [k \in Kinds |-> {}]
    /\ inside' = {}
    /\ settled' = FALSE
    /\ UNCHANGED <<backend, game, contacts, pc, phase, todo, second, inCall, call, ticks>>

-----------------------------------------------------------------------------
(* The tick                                                                 *)

CollisionTick(physics) ==
    /\ pc = "idle"
    /\ ticks < MaxTicks
    /\ ticks' = ticks + 1
    /\ LET E == Moved(Update(entries, pos), physics)
       IN  /\ entries' = E
           /\ pos' = IF backend = "cp" THEN ReadBack(E) ELSE pos
           /\ \E grazed \in SUBSET Grazing(E) : contacts' = Contacts(E, grazed)
           /\ inCall' = (contacts' # [k \in Kinds |-> {}])
    /\ pc' = "stepped"
    /\ UNCHANGED <<backend, alive, used, providers, enabled, pairs, phase, todo, second,
                   settled, history, ops>>

\* The pairs that the loops of dispatchContactEvents range over: present and
\* past trigger pairs, then present and past solid pairs.
Ranged(n) ==
    CASE n = 1 -> contacts["trigger"]
      [] n = 2 -> pairs["trigger"] \ contacts["trigger"]
      [] n = 3 -> contacts["solid"]
      [] n = 4 -> pairs["solid"] \ contacts["solid"]

\* On to the next loop that has a pair; after the last one the maps are swapped.
FromLoop(n) ==
    LET rest == {m \in n .. 4 : Ranged(m) # {}}
    IN  IF rest # {}
        THEN /\ pc' = "dispatch"
             /\ phase' = Min(rest)
             /\ todo' = Ranged(Min(rest))
             /\ UNCHANGED <<pairs, settled>>
        ELSE /\ pc' = "idle"
             /\ pairs' = contacts
             /\ settled' = TRUE
             /\ todo' = {}
             /\ phase' = 1

\* onContact has returned.  The 3-D branch of the tick has no contact events.
AfterContact ==
    /\ pc = "stepped"
    /\ inCall' = FALSE
    /\ IF enabled /\ backend # "simple" THEN FromLoop(1)
       ELSE pc' = "idle" /\ UNCHANGED <<pairs, settled, phase, todo>>
    /\ UNCHANGED <<backend, game, contacts, second, enabled, history, ops, ticks>>

PhaseKind == IF phase <= 2 THEN "trigger" ELSE "solid"
Exiting == phase \in {2, 4}

\* Mutant of Event: the tracking maps are swapped before the loops.
EventAfterSwap(p) ==
    IF Exiting THEN "exit" ELSE IF p \in contacts[PhaseKind] THEN "stay" ELSE "enter"

Event(p) == IF Exiting THEN "exit" ELSE IF p \in pairs[PhaseKind] THEN "stay" ELSE "enter"

\* A callback, and what the entity then knows.
Deliver(c, first) ==
    LET fact == <<c.to, c.about, PhaseKind>>
    IN  /\ call' = [to |-> c.to, ev |-> c.ev, was |-> fact \in inside,
                    live |-> first => c.to \in alive]
        /\ inside' = IF c.ev = "exit" THEN inside \ {fact} ELSE inside \cup {fact}

\* Mutant of CallFirst: the second entity is called in an else branch.
CallEither(p, a) ==
    /\ pc = "dispatch"
    /\ second = NoCall
    /\ p \in todo
    /\ a \in p
    /\ Exiting => a = One(p)
    /\ LET b == CHOOSE b \in p : b # a
       IN  /\ second' = IF b \in alive /\ a \notin alive THEN [to |-> b, about |-> a, ev |-> Event(p)]
                        ELSE NoCall
           /\ IF a \in alive THEN Deliver([to |-> a, about |-> b, ev |-> Event(p)], TRUE)
              ELSE UNCHANGED history
    /\ todo' = todo \ {p}
    /\ inCall' = (a \in alive)
    /\ UNCHANGED <<backend, game, pairs, contacts, pc, phase, settled, enabled, ops, ticks>>

\* Both entities are looked up, then the first one is called.  A contact names
\* its entities in either order, an exit in the order of the key.
CallFirst(p, a) ==
    /\ pc = "dispatch"
    /\ second = NoCall
    /\ p \in todo
    /\ a \in p
    /\ Exiting => a = One(p)
    /\ LET b == CHOOSE b \in p : b # a
       IN  /\ second' = IF b \in alive THEN [to |-> b, about |-> a, ev |-> Event(p)]
                        ELSE NoCall
           /\ IF a \in alive THEN Deliver([to |-> a, about |-> b, ev |-> Event(p)], TRUE)
              ELSE UNCHANGED history
    /\ todo' = todo \ {p}
    /\ inCall' = (a \in alive)
    /\ UNCHANGED <<backend, game, pairs, contacts, pc, phase, settled, enabled, ops, ticks>>

\* The second one was looked up before the first callback ran.
CallSecond ==
    /\ pc = "dispatch"
    /\ second # NoCall
    /\ Deliver(second, FALSE)
    /\ second' = NoCall
    /\ inCall' = TRUE
    /\ UNCHANGED <<backend, game, pairs, contacts, pc, phase, todo, settled, enabled,
                   ops, ticks>>

EndLoop ==
    /\ pc = "dispatch"
    /\ second = NoCall
    /\ todo = {}
    /\ inCall' = FALSE
    /\ FromLoop(phase + 1)
    /\ call' = NoCall
    /\ UNCHANGED <<backend, game, contacts, second, enabled, inside, ops, ticks>>

-----------------------------------------------------------------------------

Init ==
    /\ backend \in Backends
    /\ alive = {} /\ used = 0 /\ providers = {}
    /\ pos = [i \in Ids |-> Origin]
    /\ entries = << >>
    /\ enabled = FALSE /\ settled = FALSE
    /\ pairs = [k \in Kinds |-> {}]
    /\ contacts = [k \in Kinds |-> {}]
    /\ pc = "idle" /\ phase = 1 /\ todo = {} /\ second = NoCall /\ inCall = FALSE
    /\ inside = {} /\ call = NoCall
    /\ ops = 0 /\ ticks = 0

Dynamic == {i \in DOMAIN entries : entries[i].dynamic}

Next ==
    \/ \E c \in Colliders, p \in Pos, provider \in BOOLEAN : CreateEntity(c, p, provider)
    \/ \E e \in Ids : DeleteEntity(e) \/ RemoveCollider(e)
    \/ \E e \in Ids, p \in Pos : SetPosition(e, p)
    \/ \E e \in Ids, c \in Colliders :
          SetCollider(e, c) \/ \E dynamic \in BOOLEAN : AddCollider(e, c, dynamic)
    \/ EnableContactEvents
    \/ \E physics \in [Dynamic -> Pos] : CollisionTick(physics)
    \/ AfterContact
    \/ \E p \in todo : \E a \in p : CallFirst(p, a)
    \/ CallSecond
    \/ EndLoop

Spec == Init /\ [][Next]_vars

-----------------------------------------------------------------------------
(* Properties                                                               *)

\* Each entity is told of each other one in the order Enter, Stay ..., Exit,
\* per kind of contact, whatever the callbacks create, move, reshape or delete
\* in the middle of dispatchContactEvents; and no pair begins with a call to an
\* entity that an earlier callback of the same tick deleted.
EventsAlternate ==
    call # NoCall => /\ (call.ev = "enter") = ~call.was
                     /\ call.live

\* When a dispatch has ended, every entity still registered has been told
\* exactly the contacts of the last step: no Exit is lost, also not when the
\* list of contacts is empty or a pair turns from trigger to solid.
ToldIsContact ==
    settled /\ pc = "idle" =>
        \A r \in alive, o \in Ids, k \in Kinds : o # r =>
            (<<r, o, k>> \in inside <=> {r, o} \in contacts[k])

\* The contacts of a tick are those of the entities' own positions: Update
\* reaches the shapes before Step, and ReadBack the entities after it.
ContactsAreReal ==
    [][pc = "idle" /\ pc' = "stepped" =>
         \A a, b \in alive' \cap DOMAIN entries' : a < b =>
            LET x == [entries'[a] EXCEPT !.at = pos'[a]]
                y == [entries'[b] EXCEPT !.at = pos'[b]]
                overlap == ~Filtered(x, y) /\ Deep(x, y)
            IN  IF x.trigger \/ y.trigger
                THEN /\ overlap => {a, b} \in contacts'["trigger"]
                     /\ {a, b} \in contacts'["trigger"] =>
                           ~Filtered(x, y) /\ (Deep(x, y) \/ Touching(x, y))
                ELSE overlap <=> {a, b} \in contacts'["solid"]]_vars

\* A shape that cp's index sees where it is and does not filter out.
Visible(i) == backend = "cp" => entries[i].bb = entries[i].at /\ entries[i].mask # {}

\* The reference answers: when a sweep is compared (its roots are integers),
\* where it meets a shape, and whether the query shape overlaps it at the start.
Answer == [q \in Queries, p \in Pos \cup {Origin}, s \in {c.shape : c \in Colliders} |->
             [exact  |-> ExactRoots(q.at, q, p, s),
              first  |-> LET met == MeetsAt(q.at, q, p, s)
                         IN  IF met = {} THEN NoHit ELSE Min(met),
              common |-> Interiors(q.at, q, p, s)]]

\* A query finds the visible shapes it overlaps and no others; a sweep for all
\* hits finds those it meets at the distance of the first contact, and no other
\* one unless that is rounded and lies behind the start of the sweep.
QueriesExact ==
    pc = "idle" => \A q \in Queries :
        LET found == castSegment(q)
        IN  \A i \in {i \in Selected(q) : Visible(i)} :
                LET x == entries[i]
                    a == Answer[q, x.at, x.shape]
                    hits == {h \in found : h[1] = i}
                IN  /\ "hw" \in DOMAIN q => (i \in OverlapBox(q) <=> a.common)
                    /\ "r" \in DOMAIN q => (i \in OverlapCircle(q) <=> a.common)
                    /\ Offers(q) /\ a.exact =>
                          \/ hits = IF a.first = NoHit THEN {} ELSE {<<i, a.first>>}
                          \/ a.first = NoHit /\ Behind(q.at, q, x.at, x.shape)

=============================================================================
