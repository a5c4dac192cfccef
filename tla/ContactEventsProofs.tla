------------------------- MODULE ContactEventsProofs -------------------------
(***************************************************************************)
(* What ContactEvents promises for every number of entities, every set of  *)
(* shapes, layers, rules and positions, and any order of the calls that    *)
(* game code makes between ticks and inside the callbacks.                 *)
(***************************************************************************)
EXTENDS ContactEvents, TLAPS

Spots == Pos \cup {Origin}
Layers == UNION {{r[1], r[2]} : r \in Rules}
Events == {"enter", "stay", "exit"}

EntryType ==
    [shape : {c.shape : c \in Colliders}, layer : {c.layer : c \in Colliders},
     mask : SUBSET Layers, trigger : {c.trigger : c \in Colliders}, dynamic : BOOLEAN,
     at : Spots, bb : Spots]

\* The pairs of entities that exist or existed.
Pairs(n) == {p \in SUBSET (1 .. n) : \E a, b \in p : a # b /\ p = {a, b}}

\* Shapes belong to entities that exist or existed; only cp has dynamic ones.
EntriesOK(E, n) ==
    /\ DOMAIN E \subseteq 1 .. n /\ E \in [DOMAIN E -> EntryType]
    /\ backend # "cp" => \A i \in DOMAIN E : ~E[i].dynamic

GameOK ==
    /\ used \in 0 .. MaxId /\ alive \subseteq 1 .. used
    /\ pos \in [Ids -> Spots]
    /\ EntriesOK(entries, used)

DispatchOK ==
    /\ enabled \in BOOLEAN /\ settled \in BOOLEAN /\ inCall \in BOOLEAN
    /\ pairs \in [Kinds -> SUBSET Pairs(used)] /\ contacts \in [Kinds -> SUBSET Pairs(used)]
    /\ pc \in {"idle", "stepped", "dispatch"} /\ phase \in 1 .. 4
    /\ second # NoCall => second \in [to : 1 .. used, about : 1 .. used, ev : Events]
    /\ inside \subseteq (1 .. used) \X (1 .. used) \X Kinds

\* Every variable keeps its type; entities are never told of one that was not created.
TypeOK == GameOK /\ DispatchOK

-----------------------------------------------------------------------------
(* What the entities were told, in the middle of a dispatch.                *)

\* The pairs of kind k that count as told when loop n has the pairs left to visit.
ToldIn(k, n, left) ==
    LET loop == IF k = "trigger" THEN n ELSE n - 2
    IN  CASE loop <= 0 -> pairs[k]
          [] loop = 1  -> pairs[k] \cup (contacts[k] \ left)
          [] loop = 2  -> contacts[k] \cup left
          [] loop > 2  -> contacts[k]

Told(k) == IF pc = "dispatch" THEN ToldIn(k, phase, todo) ELSE pairs[k]

\* The fact that the decided call to a second entity will change.
Owed(r, o, k) == second # NoCall /\ r = second.to /\ o = second.about /\ k = PhaseKind

KnowsInv ==
    \A r \in alive, o \in Ids, k \in Kinds : o # r /\ ~Owed(r, o, k) =>
        (<<r, o, k>> \in inside <=> {r, o} \in Told(k))

\* The decided call is right whatever the first callback does.
SecondInv ==
    second # NoCall =>
        /\ pc = "dispatch" /\ second.to # second.about
        /\ {second.to, second.about} \in Ranged(phase) \ todo
        /\ (second.ev = "exit") = Exiting
        /\ <<second.to, second.about, PhaseKind>> \in inside <=> second.ev # "enter"

LoopInv ==
    /\ pc = "dispatch" => todo \subseteq Ranged(phase) /\ enabled /\ backend # "simple"
    /\ settled => enabled /\ backend # "simple"
    /\ settled /\ pc = "idle" => pairs = contacts

DispatchInv == KnowsInv /\ SecondInv /\ LoopInv /\ EventsAlternate

-----------------------------------------------------------------------------
(* Pairs.                                                                   *)

LEMMA PairsGrow ==
    ASSUME NEW m \in Nat, NEW n \in Nat, m <= n
    PROVE  Pairs(m) \subseteq Pairs(n)
BY DEF Pairs

\* The partner that CallFirst looks up.
LEMMA Partner ==
    ASSUME NEW n \in Nat, NEW p \in Pairs(n), NEW a \in p
    PROVE  LET b == CHOOSE b \in p : b # a
           IN  a \in 1 .. n /\ b \in 1 .. n /\ a # b /\ p = {a, b}
<1> DEFINE b == CHOOSE b \in p : b # a
<1>1. PICK x \in p, y \in p : x # y /\ p = {x, y}
  BY DEF Pairs
<1>2. b \in p /\ b # a
  BY <1>1
<1>3. p \subseteq 1 .. n
  BY DEF Pairs
<1> QED
  BY <1>1, <1>2, <1>3

LEMMA MinOfPair ==
    ASSUME NEW a \in Int, NEW b \in Int, a < b
    PROVE  One({a, b}) = a /\ Other({a, b}) = b
<1>1. \A x \in {a, b} : (\A y \in {a, b} : x <= y) <=> x = a
  OBVIOUS
<1>2. \A x \in {a, b} : (\A y \in {a, b} : x >= y) <=> x = b
  OBVIOUS
<1> QED
  BY <1>1, <1>2 DEF One, Other, Min, Max

\* A step reports pairs of registered shapes.
LEMMA ContactsArePairs ==
    ASSUME NEW n \in Nat, NEW E, DOMAIN E \subseteq 1 .. n, NEW grazed \in SUBSET Grazing(E)
    PROVE  Contacts(E, grazed) \in [Kinds -> SUBSET Pairs(n)]
<1>1. Tested(E) \subseteq Pairs(n)
  BY DEF Tested, Pairs
<1>2. grazed \subseteq Tested(E)
  BY DEF Grazing
<1> DEFINE deep == {p \in Tested(E) : Deep(E[One(p)], E[Other(p)])}
           t == {p \in deep : IsTrigger(E, p)} \cup grazed
           s == {p \in deep : ~IsTrigger(E, p)}
<1>3. t \subseteq Pairs(n) /\ s \subseteq Pairs(n)
  BY <1>1, <1>2
<1>4. Contacts(E, grazed) = [trigger |-> t, solid |-> s]
  BY DEF Contacts
<1> HIDE DEF deep, t, s
<1> QED
  BY <1>3, <1>4 DEF Kinds

-----------------------------------------------------------------------------
(* The loops of a dispatch.                                                 *)

\* What counts as told when loop n begins.
Start(k, n) ==
    CASE k = "trigger" /\ n = 1 -> pairs[k]
      [] k = "trigger" /\ n = 2 -> pairs[k] \cup contacts[k]
      [] k = "trigger" /\ n > 2 -> contacts[k]
      [] k = "solid" /\ n <= 3  -> pairs[k]
      [] k = "solid" /\ n = 4   -> pairs[k] \cup contacts[k]
      [] k = "solid" /\ n > 4   -> contacts[k]

\* A loop over nothing can be skipped.
LEMMA SkipLoop ==
    ASSUME NEW n \in 1 .. 4, Ranged(n) = {}, NEW k \in Kinds
    PROVE  Start(k, n) = Start(k, n + 1)
<1>1. k = "trigger" \/ k = "solid"
  BY DEF Kinds
<1>2. CASE n = 1
  <2>1. contacts["trigger"] = {}
    BY <1>2 DEF Ranged
  <2>2. pairs["trigger"] \cup contacts["trigger"] = pairs["trigger"]
    BY <2>1
  <2> QED
    BY <1>1, <1>2, <2>2 DEF Start
<1>3. CASE n = 2
  BY <1>1, <1>3 DEF Start, Ranged
<1>4. CASE n = 3
  BY <1>1, <1>4 DEF Start, Ranged
<1>5. CASE n = 4
  BY <1>1, <1>5 DEF Start, Ranged
<1> QED
  BY <1>2, <1>3, <1>4, <1>5

LEMMA SkipLoops ==
    ASSUME NEW n \in 1 .. 5, NEW q \in n .. 5, \A m \in n .. (q - 1) : Ranged(m) = {},
           NEW k \in Kinds
    PROVE  Start(k, n) = Start(k, q)
<1>1. \A m \in 1 .. 4 : n <= m /\ m < q => Start(k, m) = Start(k, m + 1)
  BY SkipLoop
<1>2. (n <= 1 /\ 1 < q => Start(k, 1) = Start(k, 2)) /\ (n <= 2 /\ 2 < q => Start(k, 2) = Start(k, 3))
  BY <1>1
<1>3. (n <= 3 /\ 3 < q => Start(k, 3) = Start(k, 4)) /\ (n <= 4 /\ 4 < q => Start(k, 4) = Start(k, 5))
  BY <1>1
<1>4. n \in {1, 2, 3, 4, 5} /\ q \in {1, 2, 3, 4, 5} /\ n <= q
  OBVIOUS
<1> QED
  BY <1>2, <1>3, <1>4

LEMMA BeginsLoop ==
    ASSUME NEW n \in 1 .. 4, NEW k \in Kinds
    PROVE  ToldIn(k, n, Ranged(n)) = Start(k, n)
<1>1. k = "trigger" \/ k = "solid"
  BY DEF Kinds
<1>2. CASE n = 1
  BY <1>1, <1>2 DEF Start, Ranged, ToldIn
<1>3. CASE n = 2
  BY <1>1, <1>3 DEF Start, Ranged, ToldIn
<1>4. CASE n = 3
  BY <1>1, <1>4 DEF Start, Ranged, ToldIn
<1>5. CASE n = 4
  BY <1>1, <1>5 DEF Start, Ranged, ToldIn
<1> QED
  BY <1>2, <1>3, <1>4, <1>5

LEMMA EndsLoop ==
    ASSUME NEW n \in 1 .. 4, NEW k \in Kinds
    PROVE  ToldIn(k, n, {}) = Start(k, n + 1)
<1>1. k = "trigger" \/ k = "solid"
  BY DEF Kinds
<1>2. CASE n = 1
  BY <1>1, <1>2 DEF Start, ToldIn
<1>3. CASE n = 2
  BY <1>1, <1>3 DEF Start, ToldIn
<1>4. CASE n = 3
  BY <1>1, <1>4 DEF Start, ToldIn
<1>5. CASE n = 4
  BY <1>1, <1>5 DEF Start, ToldIn
<1> QED
  BY <1>2, <1>3, <1>4, <1>5

\* The start of a loop that has pairs, or the end of the dispatch.
LEMMA LoopStarts ==
    ASSUME NEW n \in 1 .. 5, FromLoop(n), contacts' = contacts, phase \in 1 .. 4
    PROVE  /\ \A k \in Kinds : Told(k)' = Start(k, n)
           /\ pc' \in {"idle", "dispatch"} /\ phase' \in 1 .. 4
           /\ pc' = "dispatch" => todo' = Ranged(phase)' /\ pairs' = pairs /\ settled' = settled
           /\ pc' = "idle" => pairs' = contacts' /\ settled' = TRUE
<1> DEFINE rest == {m \in n .. 4 : Ranged(m) # {}}
           q == Min(rest)
<1>1. CASE rest = {}
  <2>1. pc' = "idle" /\ pairs' = contacts /\ settled' = TRUE /\ phase' = 1
    BY <1>1 DEF FromLoop
  <2>2. ASSUME NEW k \in Kinds PROVE Told(k)' = Start(k, n)
    <3>1. Start(k, n) = Start(k, 5)
      BY <1>1, SkipLoops
    <3>2. Start(k, 5) = contacts[k]
      BY DEF Start, Kinds
    <3> QED
      BY <2>1, <3>1, <3>2 DEF Told
  <2> QED
    BY <2>1, <2>2
<1>2. CASE rest # {}
  <2>1. pc' = "dispatch" /\ phase' = q /\ todo' = Ranged(q) /\ pairs' = pairs /\ settled' = settled
    BY <1>2 DEF FromLoop
  <2>2. q \in rest /\ \A m \in rest : q <= m
    <3>1. \E x \in rest : \A y \in rest : x <= y
      <4>1. rest \subseteq {1, 2, 3, 4}
        OBVIOUS
      <4> HIDE DEF rest
      <4>2. CASE 1 \in rest
        BY <4>1, <4>2
      <4>3. CASE 1 \notin rest /\ 2 \in rest
        BY <4>1, <4>3
      <4>4. CASE rest \cap {1, 2} = {} /\ 3 \in rest
        BY <4>1, <4>4
      <4>5. CASE rest \cap {1, 2, 3} = {}
        <5>1. \A m \in rest : m = 4
          BY <4>1, <4>5
        <5> QED
          BY <1>2, <5>1
      <4> QED
        BY <4>2, <4>3, <4>4, <4>5
    <3> HIDE DEF rest
    <3> QED
      BY <3>1 DEF Min
  <2>3. PICK r \in n .. 4 : r = q
    BY <2>2
  <2>4. r \in 1 .. 4 /\ \A m \in n .. (r - 1) : Ranged(m) = {}
    <3>1. \A m \in rest : r <= m
      BY <2>2, <2>3
    <3>2. \A m \in n .. 4 : Ranged(m) # {} => m \in rest
      OBVIOUS
    <3>3. ASSUME NEW m \in n .. (r - 1) PROVE m \in n .. 4 /\ ~(r <= m)
      OBVIOUS
    <3> HIDE DEF rest
    <3> QED
      BY <3>1, <3>2, <3>3
  <2> HIDE DEF q, rest
  <2>5. Ranged(r)' = Ranged(r) /\ Ranged(phase)' = Ranged(r)'
    BY <2>1, <2>3, <2>4 DEF Ranged
  <2>6. ASSUME NEW k \in Kinds PROVE Told(k)' = Start(k, n)
    <3>1. Start(k, n) = Start(k, r)
      BY <2>4, SkipLoops
    <3>2. ToldIn(k, r, Ranged(r)) = Start(k, r)
      BY <2>4, BeginsLoop
    <3>3. Told(k)' = ToldIn(k, r, Ranged(r))
      BY <2>1, <2>3 DEF Told, ToldIn
    <3> QED
      BY <3>1, <3>2, <3>3
  <2> QED
    BY <2>1, <2>3, <2>4, <2>5, <2>6
<1> QED
  BY <1>1, <1>2

-----------------------------------------------------------------------------
(* Game code.                                                               *)

LEMMA ToldPairs ==
    ASSUME TypeOK, DispatchInv, NEW k \in Kinds
    PROVE  Told(k) \subseteq Pairs(used)
<1>1. pairs[k] \subseteq Pairs(used) /\ contacts[k] \subseteq Pairs(used)
  BY DEF TypeOK, DispatchOK
<1>2. ASSUME pc = "dispatch" PROVE todo \subseteq Pairs(used)
  <2>1. todo \subseteq Ranged(phase) /\ phase \in {1, 2, 3, 4}
    BY <1>2 DEF TypeOK, DispatchOK, DispatchInv, LoopInv
  <2>2. \A n \in {1, 2, 3, 4} : Ranged(n) \subseteq Pairs(used)
    BY DEF TypeOK, DispatchOK, Ranged, Kinds
  <2> QED
    BY <2>1, <2>2
<1>3. k = "trigger" \/ k = "solid"
  BY DEF Kinds
<1>4. CASE pc = "dispatch"
  <2>1. ToldIn(k, phase, todo) \subseteq pairs[k] \cup contacts[k] \cup todo
    BY <1>3 DEF ToldIn, TypeOK, DispatchOK
  <2> QED
    BY <1>1, <1>2, <1>4, <2>1 DEF Told
<1> QED
  BY <1>1, <1>4 DEF Told

\* Calls of game code change no list of contacts; an entity they create was in none.
LEMMA GameKeeps ==
    ASSUME TypeOK, DispatchInv, UNCHANGED <<backend, dispatch, history>>,
           used' \in {used, used + 1}, alive' \subseteq alive \cup {used + 1}, used' = used => alive' \subseteq alive
    PROVE  DispatchOK' /\ DispatchInv'
<1>1. used \in Nat /\ used' \in Nat /\ used <= used' /\ used + 1 \notin 1 .. used
  BY DEF TypeOK, GameOK
<1>2. Pairs(used) \subseteq Pairs(used') /\ 1 .. used \subseteq 1 .. used'
  BY <1>1, PairsGrow
<1>3. DispatchOK'
  <2>1. pairs' = pairs /\ contacts' = contacts /\ inside' = inside /\ second' = second
    BY DEF dispatch, history
  <2>2. pairs \in [Kinds -> SUBSET Pairs(used')] /\ contacts \in [Kinds -> SUBSET Pairs(used')]
    BY <1>2 DEF TypeOK, DispatchOK
  <2>3. inside \subseteq (1 .. used') \X (1 .. used') \X Kinds
    BY <1>2 DEF TypeOK, DispatchOK
  <2>4. second # NoCall => second \in [to : 1 .. used', about : 1 .. used', ev : Events]
    BY <1>2 DEF TypeOK, DispatchOK
  <2>5. /\ enabled' \in BOOLEAN /\ settled' \in BOOLEAN /\ inCall' \in BOOLEAN
        /\ pc' \in {"idle", "stepped", "dispatch"} /\ phase' \in 1 .. 4
    BY DEF TypeOK, DispatchOK, dispatch
  <2> QED
    BY <2>1, <2>2, <2>3, <2>4, <2>5 DEF DispatchOK
<1>4. \A k \in Kinds : Told(k)' = Told(k)
  BY DEF Told, ToldIn, dispatch
<1>5. KnowsInv'
  <2> SUFFICES ASSUME NEW r \in alive', NEW o \in Ids, NEW k \in Kinds, o # r, ~Owed(r, o, k)'
               PROVE  <<r, o, k>> \in inside' <=> {r, o} \in Told(k)'
    BY DEF KnowsInv
  <2>1. inside' = inside /\ Told(k)' = Told(k) /\ ~Owed(r, o, k)
    BY <1>4 DEF Owed, PhaseKind, dispatch, history
  <2>2. CASE r \in alive
    BY <2>1, <2>2 DEF DispatchInv, KnowsInv
  <2>3. CASE r = used + 1
    <3>1. <<r, o, k>> \notin inside
      BY <1>1, <2>3 DEF TypeOK, DispatchOK
    <3>2. {r, o} \notin Pairs(used)
      BY <1>1, <2>3 DEF Pairs
    <3> QED
      BY <2>1, <3>1, <3>2, ToldPairs
  <2> QED
    BY <2>2, <2>3
<1>6. SecondInv'
  <2>1. Ranged(phase)' = Ranged(phase) /\ PhaseKind' = PhaseKind /\ Exiting' = Exiting
    BY DEF Ranged, PhaseKind, Exiting, dispatch
  <2>2. second' = second /\ inside' = inside /\ pc' = pc /\ todo' = todo
    BY DEF dispatch, history
  <2> QED
    BY <2>1, <2>2 DEF DispatchInv, SecondInv
<1>7. LoopInv' /\ EventsAlternate'
  <2>1. Ranged(phase)' = Ranged(phase)
    BY DEF Ranged, dispatch
  <2>2. call' = call
    BY DEF history
  <2>3. LoopInv'
    BY <2>1 DEF DispatchInv, LoopInv, dispatch
  <2>4. EventsAlternate'
    BY <2>2 DEF DispatchInv, EventsAlternate
  <2> QED
    BY <2>3, <2>4
<1> QED
  BY <1>3, <1>5, <1>6, <1>7 DEF DispatchInv

LEMMA ShapeType ==
    ASSUME NEW c \in Colliders, NEW at \in Spots, NEW bb \in Spots, NEW dynamic \in BOOLEAN
    PROVE  /\ Shape(c, at, bb, dynamic) \in EntryType
           /\ Shape(c, at, bb, dynamic).dynamic = dynamic
<1>1. Mask(c.layer) \in SUBSET Layers
  BY DEF Mask, Layers
<1> QED
  BY <1>1 DEF Shape, EntryType

LEMMA PutType ==
    ASSUME NEW n \in Nat, NEW E, EntriesOK(E, n), NEW e \in 1 .. n, NEW s \in EntryType,
           backend # "cp" => ~s.dynamic
    PROVE  EntriesOK(Put(E, e, s), n)
BY DEF EntriesOK, Put

LEMMA AddType ==
    ASSUME NEW n \in Nat, NEW E, EntriesOK(E, n), NEW e \in 1 .. n, NEW c \in Colliders
    PROVE  EntriesOK(Add(E, e, c), n)
<1>1. Origin \in Spots
  BY DEF Spots
<1>2. /\ Shape(c, Origin, Origin, FALSE) \in EntryType
      /\ Shape(c, Origin, Origin, FALSE).dynamic = FALSE
  BY <1>1, ShapeType
<1> QED
  BY <1>2, PutType DEF Add

LEMMA RemoveType ==
    ASSUME NEW n \in Nat, NEW E, EntriesOK(E, n), NEW e
    PROVE  EntriesOK(RemoveShape(E, e), n)
BY DEF EntriesOK, RemoveShape

LEMMA SetType ==
    ASSUME NEW n \in Nat, NEW E, EntriesOK(E, n), NEW e \in DOMAIN E, NEW c \in Colliders
    PROVE  EntriesOK(SetShape(E, e, c), n)
<1>1. Origin \in Spots /\ e \in 1 .. n
  BY DEF Spots, EntriesOK
<1>2. E[e].at \in Spots /\ E[e].dynamic \in BOOLEAN
  BY DEF EntriesOK, EntryType
<1> DEFINE at == E[e].at
           dynamic == E[e].dynamic
           bb == IF dynamic THEN at ELSE Origin
<1>3. CASE backend = "cp"
  <2>1. Shape(c, at, bb, dynamic) \in EntryType
    BY <1>1, <1>2, ShapeType
  <2>2. EntriesOK(Put(E, e, Shape(c, at, bb, dynamic)), n)
    BY <1>1, <1>3, <2>1, PutType
  <2> QED
    BY <1>3, <2>2 DEF SetShape, SetBody
<1>4. CASE backend # "cp"
  <2>1. Shape(c, at, at, FALSE) \in EntryType /\ Shape(c, at, at, FALSE).dynamic = FALSE
    BY <1>2, ShapeType
  <2>2. EntriesOK(Put(E, e, Shape(c, at, at, FALSE)), n)
    BY <1>1, <2>1, PutType
  <2> QED
    BY <1>4, <2>2 DEF SetShape, SetInPlace
<1> QED
  BY <1>3, <1>4

LEMMA CreateEntityKeeps ==
    ASSUME TypeOK, DispatchInv, NEW c \in Colliders, NEW p \in Pos, NEW provider \in BOOLEAN,
           CreateEntity(c, p, provider)
    PROVE  TypeOK' /\ DispatchInv'
<1>1. used \in Nat /\ used' = used + 1 /\ used < MaxId /\ MaxId \in Nat
  BY ContactAssumption DEF TypeOK, GameOK, CreateEntity
<1>2. alive' = alive \cup {used + 1} /\ UNCHANGED <<backend, dispatch, history>>
  BY DEF CreateEntity, InGame
<1>3. DispatchOK' /\ DispatchInv'
  BY <1>1, <1>2, GameKeeps
<1>4. EntriesOK(entries, used + 1)
  BY <1>1 DEF TypeOK, GameOK, EntriesOK
<1>5. EntriesOK(Add(entries, used + 1, c), used + 1)
  BY <1>1, <1>4, AddType
<1>6. EntriesOK(entries', used + 1)
  BY <1>4, <1>5 DEF CreateEntity, registerCollider
<1>7. EntriesOK(entries, used)'
  BY <1>1, <1>2, <1>6 DEF EntriesOK
<1>8. pos' \in [Ids -> Spots]
  BY DEF TypeOK, GameOK, CreateEntity, Spots
<1>9. used' \in 0 .. MaxId /\ alive' \subseteq 1 .. used'
  BY <1>1, <1>2 DEF TypeOK, GameOK
<1> QED
  BY <1>3, <1>7, <1>8, <1>9 DEF TypeOK, GameOK

\* A call of game code on entities and shapes that are there.
LEMMA CallKeeps ==
    ASSUME TypeOK, DispatchInv, UNCHANGED <<backend, dispatch, history, used>>,
           alive' \subseteq alive, pos' \in [Ids -> Spots], EntriesOK(entries', used)
    PROVE  TypeOK' /\ DispatchInv'
<1>1. DispatchOK' /\ DispatchInv'
  BY GameKeeps
<1>2. EntriesOK(entries, used)'
  BY DEF EntriesOK
<1> QED
  BY <1>1, <1>2 DEF TypeOK, GameOK

LEMMA RemovalKeeps ==
    ASSUME TypeOK, DispatchInv, NEW e \in Ids, DeleteEntity(e) \/ RemoveCollider(e)
    PROVE  TypeOK' /\ DispatchInv'
<1>1. used \in Nat /\ EntriesOK(entries, used) /\ pos \in [Ids -> Spots]
  BY DEF TypeOK, GameOK
<1>2. CASE DeleteEntity(e)
  <2>1. EntriesOK(entries', used)
    BY <1>1, <1>2, RemoveType DEF DeleteEntity, unregisterCollider
  <2> QED
    BY <1>1, <1>2, <2>1, CallKeeps DEF DeleteEntity, InGame
<1>3. CASE RemoveCollider(e)
  <2>1. EntriesOK(entries', used)
    BY <1>1, <1>3, RemoveType DEF RemoveCollider
  <2> QED
    BY <1>1, <1>3, <2>1, CallKeeps DEF RemoveCollider, InGame
<1> QED
  BY <1>2, <1>3

LEMMA SetPositionKeeps ==
    ASSUME TypeOK, DispatchInv, NEW e \in Ids, NEW p \in Pos, SetPosition(e, p)
    PROVE  TypeOK' /\ DispatchInv'
<1>1. EntriesOK(entries, used) /\ pos \in [Ids -> Spots]
  BY DEF TypeOK, GameOK
<1>2. pos' \in [Ids -> Spots]
  BY <1>1 DEF SetPosition, Spots
<1> QED
  BY <1>1, <1>2, CallKeeps DEF SetPosition, InGame

LEMMA ColliderKeeps ==
    ASSUME TypeOK, DispatchInv, NEW e \in Ids, NEW c \in Colliders, NEW dynamic \in BOOLEAN,
           SetCollider(e, c) \/ AddCollider(e, c, dynamic)
    PROVE  TypeOK' /\ DispatchInv'
<1>1. used \in Nat /\ EntriesOK(entries, used) /\ pos \in [Ids -> Spots] /\ alive \subseteq 1 .. used
  BY DEF TypeOK, GameOK
<1>2. CASE AddCollider(e, c, dynamic)
  <2>1. e \in 1 .. used /\ pos[e] \in Spots
    BY <1>1, <1>2 DEF AddCollider
  <2>2. EntriesOK(Add(entries, e, c), used)
    BY <1>1, <2>1, AddType
  <2>3. ASSUME dynamic PROVE EntriesOK(AddDynamic(entries, e, c, pos[e]), used)
    <3>1. Shape(c, pos[e], pos[e], TRUE) \in EntryType
      BY <2>1, ShapeType
    <3>2. backend = "cp"
      BY <1>2, <2>3 DEF AddCollider
    <3> QED
      BY <1>1, <2>1, <3>1, <3>2, PutType DEF AddDynamic
  <2>4. EntriesOK(entries', used)
    BY <1>2, <2>2, <2>3 DEF AddCollider
  <2> QED
    BY <1>1, <1>2, <2>4, CallKeeps DEF AddCollider, InGame
<1>3. CASE SetCollider(e, c)
  <2>1. EntriesOK(entries', used)
    BY <1>1, <1>3, SetType DEF SetCollider
  <2> QED
    BY <1>1, <1>3, <2>1, CallKeeps DEF SetCollider, InGame
<1> QED
  BY <1>2, <1>3

LEMMA EnableKeeps ==
    ASSUME TypeOK, DispatchInv, EnableContactEvents
    PROVE  TypeOK' /\ DispatchInv'
<1>1. /\ pc = "idle" /\ pc' = "idle" /\ pairs' = [k \in Kinds |-> {}] /\ inside' = {}
      /\ enabled' = TRUE /\ settled' = FALSE
      /\ UNCHANGED <<backend, game, contacts, phase, todo, second, inCall, call>>
  BY DEF EnableContactEvents
<1>2. GameOK'
  BY <1>1 DEF TypeOK, GameOK, EntriesOK, game
<1>3. DispatchOK'
  BY <1>1 DEF TypeOK, DispatchOK, game
<1>4. second' = NoCall
  BY <1>1 DEF DispatchInv, SecondInv
<1>5. KnowsInv'
  BY <1>1, <1>4 DEF KnowsInv, Told, Owed
<1>6. SecondInv' /\ LoopInv'
  BY <1>1, <1>4 DEF SecondInv, LoopInv
<1>7. EventsAlternate'
  BY <1>1 DEF DispatchInv, EventsAlternate
<1> QED
  BY <1>2, <1>3, <1>5, <1>6, <1>7 DEF TypeOK, DispatchInv

-----------------------------------------------------------------------------
(* The tick.                                                                *)

LEMMA UpdateType ==
    ASSUME NEW n \in Nat, NEW E, EntriesOK(E, n), pos \in [Ids -> Spots], alive \subseteq Ids
    PROVE  /\ EntriesOK(Update(E, pos), n) /\ DOMAIN Update(E, pos) = DOMAIN E
           /\ \A i \in DOMAIN E : /\ Update(E, pos)[i].dynamic = E[i].dynamic
                                  /\ i \in alive /\ ~E[i].dynamic => Update(E, pos)[i].at = pos[i]
<1>1. ASSUME NEW i \in DOMAIN E, NEW p \in Spots
      PROVE  LET s == [E[i] EXCEPT !.at = p]
             IN  s \in EntryType /\ s.dynamic = E[i].dynamic /\ s.at = p
  BY DEF EntriesOK, EntryType
<1> DEFINE U == Update(E, pos)
<1>2. ASSUME NEW i \in DOMAIN E
      PROVE  /\ U[i] \in EntryType /\ U[i].dynamic = E[i].dynamic
             /\ i \in alive /\ ~E[i].dynamic => U[i].at = pos[i]
  <2>1. CASE i \in alive /\ ~E[i].dynamic
    <3>1. U[i] = [E[i] EXCEPT !.at = pos[i]] /\ pos[i] \in Spots
      BY <2>1 DEF Update
    <3> QED
      BY <1>1, <3>1
  <2>2. CASE ~(i \in alive /\ ~E[i].dynamic)
    <3>1. U[i] = E[i]
      BY <2>2 DEF Update
    <3> QED
      BY <2>2, <3>1 DEF EntriesOK
  <2> QED
    BY <2>1, <2>2
<1>3. DOMAIN U = DOMAIN E /\ U = [i \in DOMAIN E |-> U[i]]
  BY DEF Update
<1> HIDE DEF U
<1>4. EntriesOK(U, n)
  BY <1>2, <1>3 DEF EntriesOK
<1> QED
  BY <1>2, <1>3, <1>4 DEF U

LEMMA MovedType ==
    ASSUME NEW n \in Nat, NEW E, EntriesOK(E, n), NEW physics,
           \A i \in DOMAIN E : E[i].dynamic => physics[i] \in Pos
    PROVE  /\ EntriesOK(Moved(E, physics), n) /\ DOMAIN Moved(E, physics) = DOMAIN E
           /\ \A i \in DOMAIN E : /\ Moved(E, physics)[i].dynamic = E[i].dynamic
                                  /\ ~E[i].dynamic => Moved(E, physics)[i].at = E[i].at
<1> DEFINE M == Moved(E, physics)
<1>1. ASSUME NEW i \in DOMAIN E, NEW p \in Spots
      PROVE  LET s == [E[i] EXCEPT !.at = p, !.bb = p]
             IN  s \in EntryType /\ s.dynamic = E[i].dynamic /\ s.at = p
  BY DEF EntriesOK, EntryType
<1>2. ASSUME NEW i \in DOMAIN E
      PROVE  /\ M[i] \in EntryType /\ M[i].dynamic = E[i].dynamic
             /\ ~E[i].dynamic => M[i].at = E[i].at
  <2> DEFINE p == IF E[i].dynamic THEN physics[i] ELSE E[i].at
  <2>1. p \in Spots
    BY DEF EntriesOK, EntryType, Spots
  <2>2. M[i] = [E[i] EXCEPT !.at = p, !.bb = p]
    BY DEF Moved
  <2>3. ~E[i].dynamic => p = E[i].at
    OBVIOUS
  <2>4. LET s == [E[i] EXCEPT !.at = p, !.bb = p]
        IN  s \in EntryType /\ s.dynamic = E[i].dynamic /\ s.at = p
    <3> HIDE DEF p, M
    <3> QED
      BY <1>1, <2>1
  <2> HIDE DEF p, M
  <2> QED
    BY <2>2, <2>3, <2>4
<1>3. DOMAIN M = DOMAIN E /\ M = [i \in DOMAIN E |-> M[i]]
  BY DEF Moved
<1> HIDE DEF M
<1>4. EntriesOK(M, n)
  BY <1>2, <1>3 DEF EntriesOK
<1> QED
  BY <1>2, <1>3, <1>4 DEF M

\* The shapes of a step: where an entity's own shape ends up is where the entity is.
LEMMA TickMoves ==
    ASSUME TypeOK, NEW physics \in [Dynamic -> Pos], CollisionTick(physics)
    PROVE  /\ GameOK' /\ alive' = alive /\ used' = used /\ DOMAIN entries' = DOMAIN entries
           /\ \A i \in alive \cap DOMAIN entries : entries'[i].at = pos'[i]
           /\ \E grazed \in SUBSET Grazing(entries') : contacts' = Contacts(entries', grazed)
<1> DEFINE U == Update(entries, pos)
           E == Moved(U, physics)
<1>1. /\ entries' = E /\ pos' = IF backend = "cp" THEN ReadBack(E) ELSE pos
      /\ \E grazed \in SUBSET Grazing(E) : contacts' = Contacts(E, grazed)
      /\ UNCHANGED <<backend, alive, used>>
  BY DEF CollisionTick
<1>2. /\ used \in Nat /\ EntriesOK(entries, used) /\ pos \in [Ids -> Spots]
      /\ alive \subseteq 1 .. used /\ used \in 0 .. MaxId /\ alive \subseteq Ids
  BY ContactAssumption DEF TypeOK, GameOK, Ids
<1>3. /\ EntriesOK(U, used) /\ DOMAIN U = DOMAIN entries
      /\ \A i \in DOMAIN entries : /\ U[i].dynamic = entries[i].dynamic
                                   /\ i \in alive /\ ~entries[i].dynamic => U[i].at = pos[i]
  BY <1>2, UpdateType
<1>4. \A i \in DOMAIN U : U[i].dynamic => physics[i] \in Pos
  BY <1>3 DEF Dynamic
<1> HIDE DEF U
<1>5. /\ EntriesOK(E, used) /\ DOMAIN E = DOMAIN U
      /\ \A i \in DOMAIN U : /\ E[i].dynamic = U[i].dynamic
                             /\ ~U[i].dynamic => E[i].at = U[i].at
  BY <1>2, <1>3, <1>4, MovedType
<1> HIDE DEF E
<1>6. pos' \in [Ids -> Spots]
  <2>1. ReadBack(E) \in [Ids -> Spots]
    BY <1>2, <1>5 DEF ReadBack, EntriesOK, EntryType
  <2> QED
    BY <1>1, <1>2, <2>1
<1>7. GameOK'
  <2>1. EntriesOK(entries, used)'
    BY <1>1, <1>5 DEF EntriesOK
  <2> QED
    BY <1>1, <1>2, <1>6, <2>1 DEF GameOK
<1>8. ASSUME NEW i \in alive \cap DOMAIN entries PROVE entries'[i].at = pos'[i]
  <2>1. i \in Ids
    BY <1>2
  <2>2. CASE backend = "cp"
    BY <1>1, <1>3, <1>5, <2>1, <2>2 DEF ReadBack
  <2>3. CASE backend # "cp"
    <3>1. ~entries[i].dynamic
      BY <1>2, <2>3 DEF EntriesOK
    <3> QED
      BY <1>1, <1>3, <1>5, <2>3, <3>1
  <2> QED
    BY <2>2, <2>3
<1> QED
  BY <1>1, <1>3, <1>5, <1>7, <1>8

LEMMA TickKeeps ==
    ASSUME TypeOK, DispatchInv, NEW physics \in [Dynamic -> Pos], CollisionTick(physics)
    PROVE  TypeOK' /\ DispatchInv'
<1>1. /\ GameOK' /\ alive' = alive /\ used' = used /\ DOMAIN entries' = DOMAIN entries
      /\ \E grazed \in SUBSET Grazing(entries') : contacts' = Contacts(entries', grazed)
  BY TickMoves
<1>2. /\ pc = "idle" /\ pc' = "stepped" /\ inCall' = (contacts' # [k \in Kinds |-> {}])
      /\ UNCHANGED <<backend, enabled, pairs, phase, todo, second, settled, history>>
  BY DEF CollisionTick
<1>3. contacts' \in [Kinds -> SUBSET Pairs(used)]
  <2>1. used \in Nat /\ DOMAIN entries' \subseteq 1 .. used
    BY <1>1 DEF TypeOK, GameOK, EntriesOK
  <2>2. PICK grazed \in SUBSET Grazing(entries') : contacts' = Contacts(entries', grazed)
    BY <1>1
  <2>3. Contacts(entries', grazed) \in [Kinds -> SUBSET Pairs(used)]
    BY <2>1, <2>2, ContactsArePairs
  <2> QED
    BY <2>2, <2>3
<1>4. DispatchOK'
  BY <1>1, <1>2, <1>3 DEF TypeOK, DispatchOK, history
<1>5. second' = NoCall
  BY <1>2 DEF DispatchInv, SecondInv
<1>6. KnowsInv'
  BY <1>1, <1>2, <1>5 DEF DispatchInv, KnowsInv, Told, Owed, history
<1>7. SecondInv' /\ LoopInv'
  BY <1>2, <1>5 DEF DispatchInv, SecondInv, LoopInv
<1>8. EventsAlternate'
  BY <1>2 DEF DispatchInv, EventsAlternate, history
<1> QED
  BY <1>1, <1>4, <1>6, <1>7, <1>8 DEF TypeOK, DispatchInv

-----------------------------------------------------------------------------
(* The dispatch.                                                            *)

\* From one loop to the next one: nothing is told, and nothing is owed.
LEMMA NextLoop ==
    ASSUME TypeOK, DispatchInv, NEW n \in 1 .. 5, FromLoop(n), \A k \in Kinds : Start(k, n) = Told(k),
           second = NoCall, inCall' = FALSE, enabled, backend # "simple",
           UNCHANGED <<backend, game, contacts, second, enabled, inside>>
    PROVE  TypeOK' /\ KnowsInv' /\ SecondInv' /\ LoopInv'
<1>1. /\ \A k \in Kinds : Told(k)' = Told(k)
      /\ pc' \in {"idle", "dispatch"} /\ phase' \in 1 .. 4
      /\ pc' = "dispatch" => todo' = Ranged(phase)' /\ pairs' = pairs /\ settled' = settled
      /\ pc' = "idle" => pairs' = contacts' /\ settled' = TRUE
  BY LoopStarts DEF TypeOK, DispatchOK
<1>2. GameOK'
  BY DEF TypeOK, GameOK, EntriesOK, game
<1>3. DispatchOK'
  BY <1>1 DEF TypeOK, DispatchOK, game
<1>4. KnowsInv'
  BY <1>1 DEF DispatchInv, KnowsInv, Owed, game
<1>5. SecondInv' /\ LoopInv'
  BY <1>1 DEF SecondInv, LoopInv
<1> QED
  BY <1>2, <1>3, <1>4, <1>5 DEF TypeOK

LEMMA AfterContactKeeps ==
    ASSUME TypeOK, DispatchInv, AfterContact
    PROVE  TypeOK' /\ DispatchInv'
<1>1. pc = "stepped" /\ inCall' = FALSE /\ UNCHANGED <<backend, game, contacts, second, enabled, history>>
  BY DEF AfterContact
<1>2. second = NoCall
  BY <1>1 DEF DispatchInv, SecondInv
<1>3. EventsAlternate'
  BY <1>1 DEF DispatchInv, EventsAlternate, history
<1>4. CASE enabled /\ backend # "simple"
  <2>1. FromLoop(1)
    BY <1>4 DEF AfterContact
  <2>2. \A k \in Kinds : Start(k, 1) = Told(k)
    BY <1>1 DEF Start, Told, Kinds
  <2>3. 1 \in 1 .. 5 /\ UNCHANGED <<backend, game, contacts, second, enabled, inside>>
    BY <1>1 DEF history
  <2>4. TypeOK' /\ KnowsInv' /\ SecondInv' /\ LoopInv'
    BY <1>1, <1>2, <1>4, <2>1, <2>2, <2>3, NextLoop
  <2> QED
    BY <1>3, <2>4 DEF DispatchInv
<1>5. CASE ~(enabled /\ backend # "simple")
  <2>1. pc' = "idle" /\ UNCHANGED <<pairs, settled, phase, todo>>
    BY <1>5 DEF AfterContact
  <2>2. GameOK' /\ DispatchOK'
    BY <1>1, <2>1 DEF TypeOK, GameOK, EntriesOK, DispatchOK, game, history
  <2>3. KnowsInv'
    BY <1>1, <1>2, <2>1 DEF DispatchInv, KnowsInv, Told, Owed, game, history
  <2>4. ~settled
    BY <1>5 DEF DispatchInv, LoopInv
  <2>5. SecondInv' /\ LoopInv'
    BY <1>1, <1>2, <2>1, <2>4 DEF SecondInv, LoopInv
  <2> QED
    BY <1>3, <2>2, <2>3, <2>5 DEF TypeOK, DispatchInv
<1> QED
  BY <1>4, <1>5

LEMMA EndLoopKeeps ==
    ASSUME TypeOK, DispatchInv, EndLoop
    PROVE  TypeOK' /\ DispatchInv'
<1>1. /\ pc = "dispatch" /\ second = NoCall /\ todo = {} /\ inCall' = FALSE /\ FromLoop(phase + 1)
      /\ call' = NoCall /\ UNCHANGED <<backend, game, contacts, second, enabled, inside>>
  BY DEF EndLoop
<1>2. phase \in 1 .. 4 /\ phase + 1 \in 1 .. 5
  BY DEF TypeOK, DispatchOK
<1>3. \A k \in Kinds : Start(k, phase + 1) = Told(k)
  BY <1>1, <1>2, EndsLoop DEF Told
<1>4. enabled /\ backend # "simple"
  BY <1>1 DEF DispatchInv, LoopInv
<1>5. TypeOK' /\ KnowsInv' /\ SecondInv' /\ LoopInv'
  BY <1>1, <1>2, <1>3, <1>4, NextLoop
<1>6. EventsAlternate'
  BY <1>1 DEF EventsAlternate
<1> QED
  BY <1>5, <1>6 DEF DispatchInv

\* A pair that its loop has visited.
LEMMA Visited ==
    ASSUME TypeOK, pc = "dispatch", NEW p \in Ranged(phase), p \notin todo
    PROVE  p \in Told(PhaseKind) <=> ~Exiting
<1>1. phase \in {1, 2, 3, 4}
  BY DEF TypeOK, DispatchOK
<1>2. CASE phase = 1
  BY <1>2 DEF Told, ToldIn, PhaseKind, Exiting, Ranged
<1>3. CASE phase = 2
  BY <1>3 DEF Told, ToldIn, PhaseKind, Exiting, Ranged
<1>4. CASE phase = 3
  BY <1>4 DEF Told, ToldIn, PhaseKind, Exiting, Ranged
<1>5. CASE phase = 4
  BY <1>5 DEF Told, ToldIn, PhaseKind, Exiting, Ranged
<1> QED
  BY <1>1, <1>2, <1>3, <1>4, <1>5

\* A pair that its loop is to visit: the event is the right one.
LEMMA ToVisit ==
    ASSUME TypeOK, pc = "dispatch", NEW p \in Ranged(phase), p \in todo
    PROVE  /\ p \in Told(PhaseKind) <=> Event(p) # "enter"
           /\ Event(p) \in Events /\ (Event(p) = "exit") = Exiting /\ Exiting \in BOOLEAN
<1>1. phase \in {1, 2, 3, 4}
  BY DEF TypeOK, DispatchOK
<1>2. CASE phase = 1
  BY <1>2 DEF Told, ToldIn, PhaseKind, Exiting, Ranged, Event, Events
<1>3. CASE phase = 2
  BY <1>3 DEF Told, ToldIn, PhaseKind, Exiting, Ranged, Event, Events
<1>4. CASE phase = 3
  BY <1>4 DEF Told, ToldIn, PhaseKind, Exiting, Ranged, Event, Events
<1>5. CASE phase = 4
  BY <1>5 DEF Told, ToldIn, PhaseKind, Exiting, Ranged, Event, Events
<1> QED
  BY <1>1, <1>2, <1>3, <1>4, <1>5

\* Visiting it changes what counts as told of it, and of nothing else.
LEMMA VisitChanges ==
    ASSUME TypeOK, pc = "dispatch", NEW p \in Ranged(phase), todo' = todo \ {p},
           UNCHANGED <<pairs, contacts, pc, phase>>, NEW k \in Kinds, NEW x, ~(k = PhaseKind /\ x = p)
    PROVE  x \in Told(k)' <=> x \in Told(k)
<1>1. phase \in {1, 2, 3, 4} /\ k \in {"trigger", "solid"}
  BY DEF TypeOK, DispatchOK, Kinds
<1>2. CASE k = PhaseKind
  <2>1. x \in todo' <=> x \in todo
    BY <1>2
  <2> QED
    BY <1>1, <2>1 DEF Told, ToldIn
<1>3. CASE k # PhaseKind
  <2>1. Told(k)' = Told(k)
    BY <1>1, <1>3 DEF Told, ToldIn, PhaseKind
  <2> QED
    BY <2>1
<1> QED
  BY <1>2, <1>3

LEMMA VisitTells ==
    ASSUME TypeOK, pc = "dispatch", NEW p \in Ranged(phase), todo' = todo \ {p},
           UNCHANGED <<pairs, contacts, pc, phase>>
    PROVE  p \in Told(PhaseKind)' <=> ~Exiting
<1>1. phase \in {1, 2, 3, 4}
  BY DEF TypeOK, DispatchOK
<1>2. CASE phase = 1
  BY <1>2 DEF Told, ToldIn, PhaseKind, Exiting, Ranged
<1>3. CASE phase = 2
  BY <1>3 DEF Told, ToldIn, PhaseKind, Exiting, Ranged
<1>4. CASE phase = 3
  BY <1>4 DEF Told, ToldIn, PhaseKind, Exiting, Ranged
<1>5. CASE phase = 4
  BY <1>5 DEF Told, ToldIn, PhaseKind, Exiting, Ranged
<1> QED
  BY <1>1, <1>2, <1>3, <1>4, <1>5

LEMMA CallFirstKeeps ==
    ASSUME TypeOK, DispatchInv, NEW p \in todo, NEW a \in p, CallFirst(p, a)
    PROVE  TypeOK' /\ DispatchInv'
<1> DEFINE b == CHOOSE b \in p : b # a
           fact == <<a, b, PhaseKind>>
<1>1. /\ pc = "dispatch" /\ second = NoCall /\ todo' = todo \ {p} /\ inCall' = (a \in alive)
      /\ UNCHANGED <<backend, game, pairs, contacts, pc, phase, settled, enabled>>
  BY DEF CallFirst
<1>2. second' = IF b \in alive THEN [to |-> b, about |-> a, ev |-> Event(p)] ELSE NoCall
  BY DEF CallFirst
<1>3. /\ a \in alive => inside' = IF Event(p) = "exit" THEN inside \ {fact} ELSE inside \cup {fact}
      /\ a \notin alive => inside' = inside /\ call' = call
      /\ a \in alive => call' = [to |-> a, ev |-> Event(p), was |-> fact \in inside,
                                 live |-> TRUE => a \in alive]
  BY DEF CallFirst, Deliver, history
<1>4. p \in Ranged(phase) /\ p \in Pairs(used) /\ used \in Nat /\ used \in 0 .. MaxId
  <2>1. p \in Ranged(phase) /\ phase \in {1, 2, 3, 4}
    BY <1>1 DEF TypeOK, DispatchOK, DispatchInv, LoopInv
  <2>2. \A n \in {1, 2, 3, 4} : Ranged(n) \subseteq Pairs(used)
    BY DEF TypeOK, DispatchOK, Ranged, Kinds
  <2> QED
    BY <2>1, <2>2 DEF TypeOK, GameOK
<1>5. a \in 1 .. used /\ b \in 1 .. used /\ a # b /\ p = {a, b}
  BY <1>4, Partner
<1> HIDE DEF b
<1>6. PhaseKind \in Kinds /\ PhaseKind' = PhaseKind /\ Exiting' = Exiting /\ Ranged(phase)' = Ranged(phase)
  BY <1>1 DEF PhaseKind, Exiting, Ranged, Kinds
<1>7. /\ p \in Told(PhaseKind) <=> Event(p) # "enter"
      /\ Event(p) \in Events /\ (Event(p) = "exit") = Exiting /\ Exiting \in BOOLEAN
  BY <1>1, <1>4, ToVisit
<1>8. a \in Ids /\ b \in Ids
  BY <1>4, <1>5, ContactAssumption DEF Ids
\* Before the call: what a and b were told of each other.
<1>9. /\ a \in alive => (fact \in inside <=> Event(p) # "enter")
      /\ b \in alive => (<<b, a, PhaseKind>> \in inside <=> Event(p) # "enter")
  <2>1. \A r \in alive, o \in Ids : o # r => (<<r, o, PhaseKind>> \in inside <=> {r, o} \in Told(PhaseKind))
    BY <1>1, <1>6 DEF DispatchInv, KnowsInv, Owed
  <2>2. {b, a} = p
    BY <1>5
  <2> QED
    BY <1>5, <1>7, <1>8, <2>1, <2>2
<1>10. GameOK'
  BY <1>1 DEF TypeOK, GameOK, EntriesOK, game
<1>11. DispatchOK'
  <2>1. fact \in (1 .. used) \X (1 .. used) \X Kinds
    BY <1>5, <1>6
  <2>2. inside' \subseteq (1 .. used) \X (1 .. used) \X Kinds
    BY <1>3, <2>1 DEF TypeOK, DispatchOK
  <2>3. second' # NoCall => second' \in [to : 1 .. used, about : 1 .. used, ev : Events]
    BY <1>2, <1>5, <1>7
  <2> QED
    BY <1>1, <2>2, <2>3 DEF TypeOK, DispatchOK, game
<1>12. KnowsInv'
  <2> SUFFICES ASSUME NEW r \in alive, NEW o \in Ids, NEW k \in Kinds, o # r, ~Owed(r, o, k)'
               PROVE  <<r, o, k>> \in inside' <=> {r, o} \in Told(k)'
    BY <1>1 DEF KnowsInv, game
  <2>1. CASE k = PhaseKind /\ {r, o} = p
    <3>1. (r = a /\ o = b) \/ (r = b /\ o = a)
      BY <1>5, <2>1
    <3>2. CASE r = a /\ o = b
      <4>1. <<r, o, k>> \in inside' <=> ~Exiting
        BY <1>3, <1>7, <2>1, <3>2
      <4>2. p \in Told(PhaseKind)' <=> ~Exiting
        BY <1>1, <1>4, VisitTells
      <4> QED
        BY <1>6, <2>1, <4>1, <4>2 DEF Told, ToldIn
    <3>3. CASE r = b /\ o = a
      <4>1. second' = [to |-> b, about |-> a, ev |-> Event(p)]
        BY <1>2, <3>3
      <4>2. second' # NoCall /\ second'.to = b /\ second'.about = a
        BY <1>5, <4>1 DEF NoCall
      <4> QED
        BY <1>6, <2>1, <3>3, <4>2 DEF Owed
    <3> QED
      BY <3>1, <3>2, <3>3
  <2>2. CASE ~(k = PhaseKind /\ {r, o} = p)
    <3>1. {r, o} \in Told(k)' <=> {r, o} \in Told(k)
      BY <1>1, <1>4, <2>2, VisitChanges
    <3>2. <<r, o, k>> # fact
      BY <1>5, <2>2
    <3>3. <<r, o, k>> \in inside' <=> <<r, o, k>> \in inside
      BY <1>3, <3>2
    <3> QED
      BY <1>1, <3>1, <3>3 DEF DispatchInv, KnowsInv, Owed
  <2> QED
    BY <2>1, <2>2
<1>13. SecondInv'
  <2> SUFFICES ASSUME b \in alive PROVE SecondInv'
    BY <1>2 DEF SecondInv
  <2>1. second' = [to |-> b, about |-> a, ev |-> Event(p)]
    BY <1>2
  <2>2. second'.to = b /\ second'.about = a /\ second'.ev = Event(p)
    BY <2>1
  <2>3. {b, a} \in Ranged(phase)' /\ {b, a} \notin todo'
    BY <1>1, <1>4, <1>5, <1>6
  <2>4. <<b, a, PhaseKind>> \in inside' <=> Event(p) # "enter"
    <3>1. <<b, a, PhaseKind>> # fact
      BY <1>5
    <3> QED
      BY <1>3, <1>9, <3>1
  <2> QED
    BY <1>1, <1>5, <1>6, <1>7, <2>2, <2>3, <2>4 DEF SecondInv
<1>14. LoopInv'
  BY <1>1, <1>6 DEF DispatchInv, LoopInv
<1>15. EventsAlternate'
  <2>1. CASE a \notin alive
    BY <1>3, <2>1 DEF DispatchInv, EventsAlternate
  <2>2. CASE a \in alive
    <3> DEFINE was == fact \in inside
               up == TRUE => a \in alive
    <3>1. was \in BOOLEAN /\ up \in BOOLEAN /\ up /\ (Event(p) = "enter") = ~was
      BY <1>9, <2>2
    <3>2. call' = [to |-> a, ev |-> Event(p), was |-> was, live |-> up]
      BY <1>3, <2>2
    <3> HIDE DEF was, up
    <3>3. call'.ev = Event(p) /\ call'.was = was /\ call'.live = up
      BY <3>2
    <3> QED
      BY <3>1, <3>3 DEF EventsAlternate
  <2> QED
    BY <2>1, <2>2
<1> QED
  BY <1>10, <1>11, <1>12, <1>13, <1>14, <1>15 DEF TypeOK, DispatchInv

LEMMA CallSecondKeeps ==
    ASSUME TypeOK, DispatchInv, CallSecond
    PROVE  TypeOK' /\ DispatchInv'
<1> DEFINE fact == <<second.to, second.about, PhaseKind>>
           was == fact \in inside
           up == FALSE => second.to \in alive
<1>1. /\ pc = "dispatch" /\ second # NoCall /\ second' = NoCall /\ inCall' = TRUE
      /\ UNCHANGED <<backend, game, pairs, contacts, pc, phase, todo, settled, enabled>>
  BY DEF CallSecond
<1>2. /\ call' = [to |-> second.to, ev |-> second.ev, was |-> was, live |-> up]
      /\ inside' = IF second.ev = "exit" THEN inside \ {fact} ELSE inside \cup {fact}
  BY DEF CallSecond, Deliver
<1>3. /\ second.to # second.about /\ {second.to, second.about} \in Ranged(phase) \ todo
      /\ (second.ev = "exit") = Exiting /\ (was <=> second.ev # "enter")
  BY <1>1 DEF DispatchInv, SecondInv
<1>4. /\ second.to \in 1 .. used /\ second.about \in 1 .. used /\ PhaseKind \in Kinds
      /\ second.ev \in Events
  BY <1>1 DEF TypeOK, DispatchOK, PhaseKind, Kinds
<1>5. GameOK'
  BY <1>1 DEF TypeOK, GameOK, EntriesOK, game
<1>6. DispatchOK'
  <2>1. fact \in (1 .. used) \X (1 .. used) \X Kinds
    BY <1>4
  <2>2. inside' \subseteq (1 .. used) \X (1 .. used) \X Kinds
    BY <1>2, <2>1 DEF TypeOK, DispatchOK
  <2> QED
    BY <1>1, <2>2 DEF TypeOK, DispatchOK, game
<1>7. KnowsInv'
  <2> SUFFICES ASSUME NEW r \in alive, NEW o \in Ids, NEW k \in Kinds, o # r
               PROVE  <<r, o, k>> \in inside' <=> {r, o} \in Told(k)'
    BY <1>1 DEF KnowsInv, game
  <2>1. Told(k)' = Told(k)
    BY <1>1 DEF Told, ToldIn
  <2>2. CASE <<r, o, k>> = fact
    <3>1. r = second.to /\ o = second.about /\ k = PhaseKind
      BY <2>2
    <3>2. {r, o} \in Told(PhaseKind) <=> ~Exiting
      BY <1>1, <1>3, <3>1, Visited
    <3> QED
      BY <1>2, <1>3, <2>1, <2>2, <3>1, <3>2
  <2>3. CASE <<r, o, k>> # fact
    <3>1. ~Owed(r, o, k)
      BY <2>3 DEF Owed
    <3>2. <<r, o, k>> \in inside' <=> <<r, o, k>> \in inside
      BY <1>2, <2>3
    <3> QED
      BY <2>1, <3>1, <3>2 DEF DispatchInv, KnowsInv
  <2> QED
    BY <2>2, <2>3
<1>8. SecondInv' /\ LoopInv'
  BY <1>1 DEF DispatchInv, SecondInv, LoopInv, Ranged
<1>9. EventsAlternate'
  <2>1. was \in BOOLEAN /\ up \in BOOLEAN /\ up /\ (second.ev = "enter") = ~was
    BY <1>3
  <2> HIDE DEF was, up
  <2>2. call'.ev = second.ev /\ call'.was = was /\ call'.live = up
    BY <1>2
  <2> QED
    BY <2>1, <2>2 DEF EventsAlternate
<1> QED
  BY <1>5, <1>6, <1>7, <1>8, <1>9 DEF TypeOK, DispatchInv

-----------------------------------------------------------------------------
(* Results.                                                                 *)

LEMMA InitHolds == Init => TypeOK /\ DispatchInv
<1> SUFFICES ASSUME Init PROVE TypeOK /\ DispatchInv
  OBVIOUS
<1>1. GameOK
  <2>1. EntriesOK(entries, used)
    BY DEF Init, EntriesOK
  <2> QED
    BY <2>1, ContactAssumption DEF Init, GameOK, Spots
<1>2. DispatchOK
  <2>1. pairs \in [Kinds -> SUBSET Pairs(used)] /\ contacts \in [Kinds -> SUBSET Pairs(used)]
    BY DEF Init
  <2>2. enabled \in BOOLEAN /\ settled \in BOOLEAN /\ inCall \in BOOLEAN
    BY DEF Init
  <2>3. /\ pc \in {"idle", "stepped", "dispatch"} /\ phase \in 1 .. 4
        /\ second = NoCall /\ inside = {}
    BY DEF Init
  <2> QED
    BY <2>1, <2>2, <2>3 DEF DispatchOK
<1>3. DispatchInv
  BY DEF Init, DispatchInv, KnowsInv, SecondInv, LoopInv, EventsAlternate, Told, Owed
<1> QED
  BY <1>1, <1>2, <1>3 DEF TypeOK

LEMMA NextKeeps == TypeOK /\ DispatchInv /\ [Next]_vars => TypeOK' /\ DispatchInv'
<1> SUFFICES ASSUME TypeOK, DispatchInv, [Next]_vars PROVE TypeOK' /\ DispatchInv'
  OBVIOUS
<1>1. CASE \E c \in Colliders, p \in Pos, provider \in BOOLEAN : CreateEntity(c, p, provider)
  BY <1>1, CreateEntityKeeps
<1>2. CASE \E e \in Ids : DeleteEntity(e) \/ RemoveCollider(e)
  BY <1>2, RemovalKeeps
<1>3. CASE \E e \in Ids, p \in Pos : SetPosition(e, p)
  BY <1>3, SetPositionKeeps
<1>4. CASE \E e \in Ids, c \in Colliders :
               SetCollider(e, c) \/ \E dynamic \in BOOLEAN : AddCollider(e, c, dynamic)
  <2>1. PICK e \in Ids, c \in Colliders :
               SetCollider(e, c) \/ \E dynamic \in BOOLEAN : AddCollider(e, c, dynamic)
    BY <1>4
  <2>2. \E dynamic \in BOOLEAN : SetCollider(e, c) \/ AddCollider(e, c, dynamic)
    BY <2>1
  <2> QED
    BY <2>2, ColliderKeeps
<1>5. CASE EnableContactEvents
  BY <1>5, EnableKeeps
<1>6. CASE \E physics \in [Dynamic -> Pos] : CollisionTick(physics)
  BY <1>6, TickKeeps
<1>7. CASE AfterContact
  BY <1>7, AfterContactKeeps
<1>8. CASE \E p \in todo : \E a \in p : CallFirst(p, a)
  BY <1>8, CallFirstKeeps
<1>9. CASE CallSecond
  BY <1>9, CallSecondKeeps
<1>10. CASE EndLoop
  BY <1>10, EndLoopKeeps
<1>11. CASE UNCHANGED vars
  <2>1. UNCHANGED <<backend, dispatch, history, used>> /\ alive' = alive /\ pos' = pos /\ entries' = entries
    BY <1>11 DEF vars, game
  <2> QED
    BY <2>1, CallKeeps DEF TypeOK, GameOK
<1> QED
  BY <1>1, <1>2, <1>3, <1>4, <1>5, <1>6, <1>7, <1>8, <1>9, <1>10, <1>11 DEF Next

\* The invariant of the dispatch: at every step of dispatchContactEvents, also
\* between the two calls of a pair and while a callback changes the registry,
\* what each registered entity was told is what the loops have visited so far.
THEOREM DispatchInvariant == Spec => [](TypeOK /\ DispatchInv)
<1>1. Init => TypeOK /\ DispatchInv
  BY InitHolds
<1>2. TypeOK /\ DispatchInv /\ [Next]_vars => (TypeOK /\ DispatchInv)'
  BY NextKeeps
<1> QED
  BY <1>1, <1>2, PTL DEF Spec

\* Enter, Stay ... and Exit reach every entity in that order, whatever the
\* callbacks of dispatchContactEvents do, and no pair begins with a call to an
\* entity that was deleted before.
THEOREM EventsAlternateAlways == Spec => []EventsAlternate
<1>1. TypeOK /\ DispatchInv => EventsAlternate
  BY DEF DispatchInv
<1> QED
  BY <1>1, DispatchInvariant, PTL

\* After a dispatch every registered entity has been told exactly the contacts
\* of the last step.
THEOREM ToldExactly == Spec => []ToldIsContact
<1>1. TypeOK /\ DispatchInv => ToldIsContact
  <2> SUFFICES ASSUME TypeOK, DispatchInv, settled, pc = "idle",
                      NEW r \in alive, NEW o \in Ids, NEW k \in Kinds, o # r
               PROVE  <<r, o, k>> \in inside <=> {r, o} \in contacts[k]
    BY DEF ToldIsContact
  <2>1. pairs = contacts /\ second = NoCall
    BY DEF DispatchInv, LoopInv, SecondInv
  <2> QED
    BY <2>1 DEF DispatchInv, KnowsInv, Owed, Told
<1> QED
  BY <1>1, DispatchInvariant, PTL

-----------------------------------------------------------------------------
(* The contacts of a step.                                                  *)

LEMMA TestedPairs ==
    ASSUME NEW E, NEW a \in DOMAIN E, NEW b \in DOMAIN E, DOMAIN E \subseteq Nat, a < b
    PROVE  {a, b} \in Tested(E) <=> ~Filtered(E[a], E[b])
<1>1. ASSUME ~Filtered(E[a], E[b]) PROVE {a, b} \in Tested(E)
  BY <1>1 DEF Tested
<1>2. ASSUME {a, b} \in Tested(E) PROVE ~Filtered(E[a], E[b])
  <2>1. PICK i \in DOMAIN E : {a, b} \in {{i, j} : j \in {j \in DOMAIN E : i < j /\ ~Filtered(E[i], E[j])}}
    BY <1>2 DEF Tested
  <2>2. PICK j \in DOMAIN E : i < j /\ ~Filtered(E[i], E[j]) /\ {a, b} = {i, j}
    BY <2>1
  <2>3. (a = i /\ b = j) \/ (a = j /\ b = i)
    BY <2>2
  <2>4. a = i /\ b = j
    BY <2>2, <2>3
  <2> QED
    BY <2>2, <2>4
<1> QED
  BY <1>1, <1>2

LEMMA ContactsOf ==
    ASSUME NEW E, NEW a \in DOMAIN E, NEW b \in DOMAIN E, DOMAIN E \subseteq Nat, a < b,
           NEW grazed \in SUBSET Grazing(E)
    PROVE  LET overlap == ~Filtered(E[a], E[b]) /\ Deep(E[a], E[b])
           IN  IF E[a].trigger \/ E[b].trigger
               THEN /\ overlap => {a, b} \in Contacts(E, grazed)["trigger"]
                    /\ {a, b} \in Contacts(E, grazed)["trigger"] =>
                          ~Filtered(E[a], E[b]) /\ (Deep(E[a], E[b]) \/ Touching(E[a], E[b]))
               ELSE overlap <=> {a, b} \in Contacts(E, grazed)["solid"]
<1> DEFINE p == {a, b}
           deep == {q \in Tested(E) : Deep(E[One(q)], E[Other(q)])}
           t == {q \in deep : IsTrigger(E, q)} \cup grazed
           s == {q \in deep : ~IsTrigger(E, q)}
<1>1. One(p) = a /\ Other(p) = b
  BY MinOfPair
<1>2. p \in Tested(E) <=> ~Filtered(E[a], E[b])
  BY TestedPairs
<1>3. IsTrigger(E, p) <=> (E[a].trigger \/ E[b].trigger)
  BY <1>1 DEF IsTrigger
<1>4. p \in grazed => p \in Tested(E) /\ Touching(E[a], E[b])
  BY <1>1 DEF Grazing
<1>5. p \in deep <=> ~Filtered(E[a], E[b]) /\ Deep(E[a], E[b])
  BY <1>1, <1>2
<1>6. Contacts(E, grazed) = [trigger |-> t, solid |-> s]
  BY DEF Contacts
<1>7. p \in t <=> (p \in deep /\ IsTrigger(E, p)) \/ p \in grazed
  OBVIOUS
<1>8. p \in s <=> p \in deep /\ ~IsTrigger(E, p)
  OBVIOUS
<1> HIDE DEF p, deep, t, s
<1>9. Contacts(E, grazed)["trigger"] = t /\ Contacts(E, grazed)["solid"] = s
  BY <1>6
<1> QED
  BY <1>2, <1>3, <1>4, <1>5, <1>7, <1>8, <1>9 DEF p

\* Update reaches the shapes before Step and ReadBack the entities after it: the
\* contacts that a tick reports are those of the entities' own positions.
THEOREM ContactsAreOfEntities == Spec => ContactsAreReal
<1> DEFINE Real(a, b) ==
            LET x == [entries'[a] EXCEPT !.at = pos'[a]]
                y == [entries'[b] EXCEPT !.at = pos'[b]]
                overlap == ~Filtered(x, y) /\ Deep(x, y)
            IN  IF x.trigger \/ y.trigger
                THEN /\ overlap => {a, b} \in contacts'["trigger"]
                     /\ {a, b} \in contacts'["trigger"] =>
                           ~Filtered(x, y) /\ (Deep(x, y) \/ Touching(x, y))
                ELSE overlap <=> {a, b} \in contacts'["solid"]
<1>1. ASSUME TypeOK, NEW physics \in [Dynamic -> Pos], CollisionTick(physics),
             NEW a \in alive' \cap DOMAIN entries', NEW b \in alive' \cap DOMAIN entries', a < b
      PROVE  Real(a, b)
  <2>1. /\ GameOK' /\ alive' = alive /\ used' = used /\ DOMAIN entries' = DOMAIN entries
        /\ \A i \in alive \cap DOMAIN entries : entries'[i].at = pos'[i]
        /\ \E grazed \in SUBSET Grazing(entries') : contacts' = Contacts(entries', grazed)
    BY <1>1, TickMoves
  <2>2. PICK grazed \in SUBSET Grazing(entries') : contacts' = Contacts(entries', grazed)
    BY <2>1
  <2>3. DOMAIN entries' \subseteq Nat /\ \A i \in DOMAIN entries' : entries'[i] \in EntryType
    BY <2>1 DEF GameOK, EntriesOK
  <2>4. \A i \in alive \cap DOMAIN entries : [entries'[i] EXCEPT !.at = pos'[i]] = entries'[i]
    BY <2>1, <2>3 DEF EntryType
  <2>5. [entries'[a] EXCEPT !.at = pos'[a]] = entries'[a] /\ [entries'[b] EXCEPT !.at = pos'[b]] = entries'[b]
    BY <1>1, <2>1, <2>4
  <2> DEFINE E == entries'
  <2>6. LET overlap == ~Filtered(E[a], E[b]) /\ Deep(E[a], E[b])
        IN  IF E[a].trigger \/ E[b].trigger
            THEN /\ overlap => {a, b} \in Contacts(E, grazed)["trigger"]
                 /\ {a, b} \in Contacts(E, grazed)["trigger"] =>
                       ~Filtered(E[a], E[b]) /\ (Deep(E[a], E[b]) \/ Touching(E[a], E[b]))
            ELSE overlap <=> {a, b} \in Contacts(E, grazed)["solid"]
    BY <1>1, <2>2, <2>3, ContactsOf
  <2> QED
    BY <2>2, <2>5, <2>6
<1>2. ASSUME [Next]_vars, pc = "idle", pc' = "stepped"
      PROVE  \E physics \in [Dynamic -> Pos] : CollisionTick(physics)
  BY <1>2 DEF Next, vars, dispatch, InGame, CreateEntity, DeleteEntity, RemoveCollider, SetPosition,
              SetCollider, AddCollider, EnableContactEvents, AfterContact, CallFirst, CallSecond, EndLoop
<1>3. TypeOK /\ [Next]_vars =>
        (pc = "idle" /\ pc' = "stepped" =>
           \A a, b \in alive' \cap DOMAIN entries' : a < b => Real(a, b))
  <2> HIDE DEF Real
  <2> QED
    BY <1>1, <1>2
<1> QED
  BY <1>3, DispatchInvariant, PTL DEF Spec, ContactsAreReal

=============================================================================
