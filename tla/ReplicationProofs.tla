-------------------------- MODULE ReplicationProofs --------------------------
(***************************************************************************)
(* Proofs about replication to one session, for any sets of entities and   *)
(* fields, any scenario and any number of steps.                           *)
(*                                                                         *)
(* In interest mode: the grid holds every placed entity in the cell of its *)
(* position and nowhere else, so a query of a radius finds exactly what is *)
(* within it, and after a tick the session knows what hysteresis says;     *)
(* TrustInv, what the tracker may hold there, gives that state is sent for *)
(* known entities only, and owner-only values to owners.                   *)
(* In broadcast mode: OwnerInv, what a session's eventual-state tracker    *)
(* may hold, gives the secrecy of owner-only fields; RevisionInv, that     *)
(* every frame on its way states one history of the fields, gives that the *)
(* client never goes back; KnownInv, the last word on the stream about     *)
(* each entity, gives that once the stream is drained the client shows     *)
(* what the server takes it to know.                                       *)
(***************************************************************************)
EXTENDS Interest, SequenceTheorems, FiniteSetTheorems, TLAPS

\* The loops of the grid, one step each; LeftFold says what they compute.
rem(env, g, e) == GridRemove(g, e)
put(env, g, e) == IF Has(g, e) THEN GridMove(g, e, env[e]) ELSE GridInsert(g, e, env[e])
Removing == INSTANCE LeftFold WITH Op <- rem
Putting == INSTANCE LeftFold WITH Op <- put

(* Maps, lists of the elements of a set. *)

\* A set that holds 0 and all successors holds every natural number.
LEMMA NatSetInduction ==
    \A S : 0 \in S /\ (\A n \in Nat : n \in S => n + 1 \in S) => \A n \in Nat : n \in S
<1> SUFFICES ASSUME NEW S, 0 \in S, \A n \in Nat : n \in S => n + 1 \in S,
                    NEW k \in Nat, k \notin S
             PROVE  FALSE
  OBVIOUS
<1> DEFINE T == {y \in 0 .. k : y \in S}
           g == [y \in T |-> y + 1]
<1>1. IsFiniteSet(T) /\ Cardinality(T) = Cardinality(T)
  <2>1. IsFiniteSet(0 .. k)
    BY FS_Interval
  <2> QED
    BY <2>1, FS_Subset
<1>2. 0 \in T /\ \A y \in T : y \in Nat /\ y + 1 \in T
  OBVIOUS
<1> HIDE DEF T
<1>3. g \in Injection(T, T)
  BY <1>2 DEF Injection, IsInjective
<1>4. g \in Surjection(T, T)
  BY <1>1, <1>3, FS_Injection
<1>5. PICK y \in T : g[y] = 0
  BY <1>2, <1>4 DEF Surjection
<1> QED
  BY <1>2, <1>5

\* Induction along a list of n elements.
LEMMA UpTo ==
    ASSUME NEW n \in Nat, NEW S, 0 \in S, \A i \in 1 .. n : i - 1 \in S => i \in S
    PROVE  \A i \in 0 .. n : i \in S
<1> DEFINE U == {i \in Nat : i <= n => i \in S}
<1>1. 0 \in U
  OBVIOUS
<1>2. ASSUME NEW i \in Nat, i \in U PROVE i + 1 \in U
  <2>1. CASE i + 1 <= n
    <3>1. i + 1 \in 1 .. n /\ (i + 1) - 1 = i /\ i \in S
      BY <1>2, <2>1
    <3> QED
      BY <3>1
  <2> QED
    BY <2>1
<1> HIDE DEF U
<1>3. \A i \in Nat : i \in U
  BY <1>1, <1>2, NatSetInduction
<1> QED
  BY <1>3 DEF U

\* SetToSeq lists every element of a finite set once.
LEMMA SetToSeqFacts ==
    ASSUME NEW S, IsFiniteSet(S)
    PROVE  /\ Cardinality(S) \in Nat
           /\ SetToSeq(S) \in [1 .. Cardinality(S) -> S]
           /\ DOMAIN SetToSeq(S) = 1 .. Cardinality(S) /\ Len(SetToSeq(S)) = Cardinality(S)
           /\ \A i \in 1 .. Cardinality(S) : SetToSeq(S)[i] \in S
           /\ \A x \in S : \E i \in 1 .. Cardinality(S) : SetToSeq(S)[i] = x
<1> DEFINE n == Cardinality(S)
           s == SetToSeq(S)
<1>1. n \in Nat /\ ExistsBijection(1 .. n, S)
  BY FS_CardinalityType
<1>2. \E f \in [1 .. n -> S] : IsInjective(f)
  BY <1>1 DEF ExistsBijection, Bijection, Injection, IsInjective
<1>3. s \in [1 .. n -> S] /\ IsInjective(s)
  BY <1>2 DEF SetToSeq
<1> HIDE DEF s
<1>4. s \in Surjection(1 .. n, S)
  <2>1. s \in Injection(1 .. n, S)
    BY <1>3 DEF Injection
  <2>2. IsFiniteSet(1 .. n) /\ Cardinality(1 .. n) = n
    <3>1. n \in Int /\ 1 \in Int
      BY <1>1
    <3>2. Cardinality(1 .. n) = IF 1 > n THEN 0 ELSE n - 1 + 1
      BY <3>1, FS_Interval
    <3> QED
      BY <1>1, <3>1, <3>2, FS_Interval
  <2> QED
    BY <2>1, <2>2, FS_Injection
<1>5. \A x \in S : \E i \in 1 .. n : s[i] = x
  BY <1>4 DEF Surjection
<1>6. Len(s) = n /\ DOMAIN s = 1 .. n
  BY <1>1, <1>3
<1> QED
  BY <1>1, <1>3, <1>5, <1>6 DEF s

\* updateGrid's two loops over the entities, removals after insertions and moves.
LEMMA UpdateGridFolds ==
    LET spatial == {e \in live : ~isGlobal(e)}
        gone    == DOMAIN grid.positions \ spatial
    IN  UpdateGrid = Removing!Fold(0, Putting!Fold(pos, grid, SetToSeq(spatial)), SetToSeq(gone))
  BY DEF UpdateGrid, rem, put, FoldLeft, MapThenFoldSet, Max,
         Removing!Fold, Removing!Greatest,
         Putting!Fold, Putting!Greatest

-----------------------------------------------------------------------------
(* The grid: positions, the cell of each entity, and the entities of a cell. *)

\* Every entity is in the cell of its position and in no other.
PositionsOK(ps) == DOMAIN ps \subseteq Entities /\ \A e \in DOMAIN ps : ps[e] \in Places
CellOfOK(ps, co) == DOMAIN co = DOMAIN ps /\ \A e \in DOMAIN ps : co[e] = toCell(ps[e])
CellsOK(c, co) ==
    /\ \A e \in DOMAIN co : co[e] \in DOMAIN c /\ e \in c[co[e]]
    /\ \A ck \in DOMAIN c : c[ck] # {} /\ \A e \in c[ck] : e \in DOMAIN co /\ co[e] = ck
GridOK(g) ==
    /\ g = [positions |-> g.positions, cellOf |-> g.cellOf, cells |-> g.cells]
    /\ PositionsOK(g.positions) /\ CellOfOK(g.positions, g.cellOf) /\ CellsOK(g.cells, g.cellOf)

\* An entity put into a cell is in that cell and in no other.
LEMMA CellWithKeeps ==
    ASSUME NEW c, NEW co, CellsOK(c, co), NEW e, e \notin DOMAIN co, NEW ck
    PROVE  CellsOK(CellWith(c, ck, e), With(co, e, ck))
<1> DEFINE d == CellWith(c, ck, e)
           dom == With(co, e, ck)
<1>1. /\ DOMAIN d = DOMAIN c \cup {ck}
      /\ d[ck] = {e} \cup (IF ck \in DOMAIN c THEN c[ck] ELSE {})
      /\ \A k \in DOMAIN c : k # ck => d[k] = c[k]
  BY DEF CellWith, With
<1>2. DOMAIN dom = DOMAIN co \cup {e} /\ dom[e] = ck /\ \A x \in DOMAIN co : dom[x] = co[x]
  BY DEF With
<1> HIDE DEF d, dom
<1>3. ASSUME NEW x \in DOMAIN dom PROVE dom[x] \in DOMAIN d /\ x \in d[dom[x]]
  BY <1>1, <1>2 DEF CellsOK
<1>4. ASSUME NEW k \in DOMAIN d
      PROVE  d[k] # {} /\ \A x \in d[k] : x \in DOMAIN dom /\ dom[x] = k
  BY <1>1, <1>2 DEF CellsOK
<1> QED
  BY <1>3, <1>4 DEF CellsOK, d, dom

\* An entity taken out of its cell is in none, and a cell left empty goes
\* (grid removal deletes the key of an empty cell).
LEMMA CellWithoutKeeps ==
    ASSUME NEW c, NEW co, CellsOK(c, co), NEW e \in DOMAIN co
    PROVE  CellsOK(CellWithout(c, co[e], e), Drop(co, {e}))
<1> DEFINE d == CellWithout(c, co[e], e)
           dom == Drop(co, {e})
           ck == co[e]
<1>1. ck \in DOMAIN c /\ e \in c[ck]
  BY DEF CellsOK
<1>2. DOMAIN dom = DOMAIN co \ {e} /\ \A x \in DOMAIN co \ {e} : dom[x] = co[x]
  BY DEF Drop, Restrict
<1>3. CASE c[ck] = {e}
  <2>1. DOMAIN d = DOMAIN c \ {ck} /\ \A k \in DOMAIN c \ {ck} : d[k] = c[k]
    BY <1>3 DEF CellWithout, Drop, Restrict
  <2> HIDE DEF d, dom
  <2>2. ASSUME NEW x \in DOMAIN dom PROVE dom[x] \in DOMAIN d /\ x \in d[dom[x]]
    BY <1>2, <1>3, <2>1 DEF CellsOK
  <2>3. ASSUME NEW k \in DOMAIN d
        PROVE  d[k] # {} /\ \A x \in d[k] : x \in DOMAIN dom /\ dom[x] = k
    BY <1>1, <1>2, <1>3, <2>1 DEF CellsOK
  <2> QED
    BY <2>2, <2>3 DEF CellsOK, d, dom
<1>4. CASE c[ck] # {e}
  <2>1. /\ DOMAIN d = DOMAIN c /\ d[ck] = c[ck] \ {e}
        /\ \A k \in DOMAIN c \ {ck} : d[k] = c[k]
    BY <1>1, <1>4 DEF CellWithout
  <2> HIDE DEF d, dom
  <2>2. ASSUME NEW x \in DOMAIN dom PROVE dom[x] \in DOMAIN d /\ x \in d[dom[x]]
    BY <1>2, <2>1 DEF CellsOK
  <2>3. ASSUME NEW k \in DOMAIN d
        PROVE  d[k] # {} /\ \A x \in d[k] : x \in DOMAIN dom /\ dom[x] = k
    BY <1>1, <1>2, <1>4, <2>1 DEF CellsOK
  <2> QED
    BY <2>2, <2>3 DEF CellsOK, d, dom
<1> QED
  BY <1>3, <1>4

\* What inserting, moving and removing do to the positions, and that the
\* indexes agree afterwards.
LEMMA InsertKeeps ==
    ASSUME NEW g, GridOK(g), NEW e \in Entities, e \notin DOMAIN g.positions, NEW p \in Places
    PROVE  GridOK(GridInsert(g, e, p)) /\ GridInsert(g, e, p).positions = With(g.positions, e, p)
<1> DEFINE n == GridInsert(g, e, p)
<1>1. n = [positions |-> With(g.positions, e, p), cellOf |-> With(g.cellOf, e, toCell(p)),
           cells |-> CellWith(g.cells, toCell(p), e)]
  BY DEF GridInsert
<1>2. CellsOK(n.cells, n.cellOf)
  BY <1>1, CellWithKeeps DEF GridOK, CellOfOK
<1>3. PositionsOK(n.positions) /\ CellOfOK(n.positions, n.cellOf)
  BY <1>1 DEF GridOK, PositionsOK, CellOfOK, With
<1> HIDE DEF n
<1> QED
  BY <1>1, <1>2, <1>3 DEF GridOK, n

\* Grid.Move: the entity changes cells only when its position does.
LEMMA MoveKeeps ==
    ASSUME NEW g, GridOK(g), NEW e \in DOMAIN g.positions, NEW p \in Places
    PROVE  GridOK(GridMove(g, e, p)) /\ GridMove(g, e, p).positions = With(g.positions, e, p)
<1> DEFINE n == GridMove(g, e, p)
           ck == toCell(p)
<1>1. n = [positions |-> With(g.positions, e, p), cellOf |-> With(g.cellOf, e, ck),
           cells |-> IF g.cellOf[e] = ck THEN g.cells
                     ELSE CellWith(CellWithout(g.cells, g.cellOf[e], e), ck, e)]
  BY DEF GridMove
<1>2. e \in DOMAIN g.cellOf /\ CellsOK(g.cells, g.cellOf)
  BY DEF GridOK, CellOfOK
<1>3. CellsOK(n.cells, n.cellOf)
  <2> HIDE DEF ck
  <2>1. CASE g.cellOf[e] = ck
    <3>1. /\ DOMAIN With(g.cellOf, e, ck) = DOMAIN g.cellOf
          /\ \A x \in DOMAIN g.cellOf : With(g.cellOf, e, ck)[x] = g.cellOf[x]
      BY <1>2, <2>1 DEF With
    <3> QED
      BY <1>1, <1>2, <2>1, <3>1 DEF CellsOK
  <2>2. CASE g.cellOf[e] # ck
    <3>1. CellsOK(CellWithout(g.cells, g.cellOf[e], e), Drop(g.cellOf, {e}))
      BY <1>2, CellWithoutKeeps
    <3>2. e \notin DOMAIN Drop(g.cellOf, {e})
      BY DEF Drop, Restrict
    <3>3. With(Drop(g.cellOf, {e}), e, ck) = With(g.cellOf, e, ck)
      BY <1>2 DEF With, Drop, Restrict
    <3>4. CellsOK(CellWith(CellWithout(g.cells, g.cellOf[e], e), ck, e), With(g.cellOf, e, ck))
      BY <3>1, <3>2, <3>3, CellWithKeeps
    <3> QED
      BY <1>1, <2>2, <3>4
  <2> QED
    BY <2>1, <2>2
<1>4. PositionsOK(n.positions) /\ CellOfOK(n.positions, n.cellOf)
  BY <1>1 DEF GridOK, PositionsOK, CellOfOK, With
<1> HIDE DEF n
<1> QED
  BY <1>1, <1>3, <1>4 DEF GridOK, n

\* Grid.Remove: an entity the grid does not have changes nothing.
LEMMA RemoveKeeps ==
    ASSUME NEW g, GridOK(g), NEW e
    PROVE  /\ GridOK(GridRemove(g, e))
           /\ DOMAIN GridRemove(g, e).positions = DOMAIN g.positions \ {e}
           /\ \A x \in DOMAIN g.positions \ {e} :
                 GridRemove(g, e).positions[x] = g.positions[x]
<1> DEFINE n == GridRemove(g, e)
<1>1. CASE ~Has(g, e)
  BY <1>1 DEF GridRemove, Has
<1>2. CASE Has(g, e)
  <2>1. n = [positions |-> Drop(g.positions, {e}), cellOf |-> Drop(g.cellOf, {e}),
             cells |-> CellWithout(g.cells, g.cellOf[e], e)]
    BY <1>2 DEF GridRemove
  <2>2. e \in DOMAIN g.cellOf /\ CellsOK(g.cells, g.cellOf)
    BY <1>2 DEF GridOK, CellOfOK, Has
  <2>3. CellsOK(n.cells, n.cellOf)
    BY <2>1, <2>2, CellWithoutKeeps
  <2>4. PositionsOK(n.positions) /\ CellOfOK(n.positions, n.cellOf)
    BY <2>1 DEF GridOK, PositionsOK, CellOfOK, Drop, Restrict
  <2>5. /\ DOMAIN n.positions = DOMAIN g.positions \ {e}
        /\ \A x \in DOMAIN g.positions \ {e} : n.positions[x] = g.positions[x]
    BY <2>1 DEF Drop, Restrict
  <2> HIDE DEF n
  <2> QED
    BY <2>1, <2>3, <2>4, <2>5 DEF GridOK, n
<1> QED
  BY <1>1, <1>2

\* What updateGrid does with one entity: a move when the grid has it, or else
\* an insertion.
LEMMA PutKeeps ==
    ASSUME NEW g, GridOK(g), NEW e \in Entities, NEW where \in [Entities -> Places]
    PROVE  /\ GridOK(put(where, g, e))
           /\ put(where, g, e).positions = With(g.positions, e, where[e])
  BY InsertKeeps, MoveKeeps DEF put, Has

\* UpdateGrid leaves exactly the positions of the entities that are not global.
LEMMA GridAfterUpdate ==
    ASSUME GridOK(grid), live \subseteq Entities, pos \in [Entities -> Places]
    PROVE  /\ GridOK(UpdateGrid)
           /\ DOMAIN UpdateGrid.positions = {e \in live : ~isGlobal(e)}
           /\ \A e \in live : ~isGlobal(e) => UpdateGrid.positions[e] = pos[e]
<1> DEFINE spatial == {e \in live : ~isGlobal(e)}
           gone    == DOMAIN grid.positions \ spatial
           mid     == Putting!Fold(pos, grid, SetToSeq(spatial))
<1>1. IsFiniteSet(spatial) /\ IsFiniteSet(gone) /\ spatial \subseteq Entities
  <2>1. IsFiniteSet(Entities) /\ spatial \in SUBSET Entities /\ gone \in SUBSET Entities
    BY ReplicationAssumption DEF GridOK, PositionsOK
  <2> QED
    BY <2>1, FS_Subset
<1>2. UpdateGrid = Removing!Fold(0, mid, SetToSeq(gone))
  BY UpdateGridFolds
<1> HIDE DEF spatial, gone
<1>3. /\ GridOK(mid)
      /\ DOMAIN mid.positions = DOMAIN grid.positions \cup spatial
      /\ \A e \in spatial : mid.positions[e] = pos[e]
  <2> DEFINE n == Cardinality(spatial)
             seq == SetToSeq(spatial)
  <2>1. /\ n \in Nat /\ DOMAIN seq = 1 .. n
        /\ \A i \in 1 .. n : seq[i] \in spatial
        /\ \A x \in spatial : \E i \in 1 .. n : seq[i] = x
    BY <1>1, SetToSeqFacts
  <2>2. PICK h : /\ h[0] = grid /\ Putting!Fold(pos, grid, seq) = h[n]
                 /\ \A i \in 1 .. n : h[i] = put(pos, h[i - 1], seq[i])
    <3> HIDE DEF n, seq
    <3> QED
      <4>1. Putting!Induction
        BY NatSetInduction DEF Putting!Induction
      <4>2. \E h : Putting!Run(h, n, pos, grid, seq)
        BY <2>1, <4>1, Putting!FoldRuns
      <4> QED
        BY <4>2 DEF Putting!Run
  <2> HIDE DEF n, seq
  <2> DEFINE U == {i \in 0 .. n :
                     /\ GridOK(h[i])
                     /\ DOMAIN h[i].positions = DOMAIN grid.positions \cup {seq[j] : j \in 1 .. i}
                     /\ \A j \in 1 .. i : h[i].positions[seq[j]] = pos[seq[j]]}
  <2>3. 0 \in U
    <3>1. 1 .. 0 = {} /\ 0 \in 0 .. n
      BY <2>1
    <3> QED
      BY <2>2, <3>1
  <2>4. ASSUME NEW i \in 1 .. n, i - 1 \in U PROVE i \in U
    <3>1. seq[i] \in Entities
      BY <1>1, <2>1
    <3>2. /\ GridOK(h[i])
          /\ h[i].positions = With(h[i - 1].positions, seq[i], pos[seq[i]])
      BY <2>2, <2>4, <3>1, PutKeeps
    <3>3. 1 .. i = (1 .. (i - 1)) \cup {i} /\ i \in 0 .. n
      BY <2>1
    <3>4. DOMAIN h[i].positions = DOMAIN h[i - 1].positions \cup {seq[i]}
      BY <3>2 DEF With
    <3>5. \A j \in 1 .. i : h[i].positions[seq[j]] = pos[seq[j]]
      <4> TAKE j \in 1 .. i
      <4>1. CASE seq[j] = seq[i]
        BY <3>2, <4>1 DEF With
      <4>2. CASE seq[j] # seq[i]
        <5>1. j \in 1 .. (i - 1)
          BY <3>3, <4>2
        <5>2. seq[j] \in DOMAIN h[i - 1].positions /\ h[i - 1].positions[seq[j]] = pos[seq[j]]
          BY <2>4, <5>1
        <5> QED
          BY <3>2, <4>2, <5>2 DEF With
      <4> QED
        BY <4>1, <4>2
    <3>6. DOMAIN h[i].positions = DOMAIN grid.positions \cup {seq[j] : j \in 1 .. i}
      BY <2>4, <3>3, <3>4
    <3> QED
      BY <3>2, <3>3, <3>5, <3>6
  <2> HIDE DEF U
  <2>5. n \in U
    <3>1. \A i \in 0 .. n : i \in U
      BY <2>1, <2>3, <2>4, UpTo
    <3> QED
      BY <2>1, <3>1
  <2>6. /\ GridOK(h[n])
        /\ DOMAIN h[n].positions = DOMAIN grid.positions \cup {seq[j] : j \in 1 .. n}
        /\ \A j \in 1 .. n : h[n].positions[seq[j]] = pos[seq[j]]
    BY <2>5 DEF U
  <2>7. {seq[j] : j \in 1 .. n} = spatial
    BY <2>1
  <2>8. mid = h[n]
    BY <2>2 DEF seq
  <2> HIDE DEF mid
  <2> QED
    BY <2>1, <2>6, <2>7, <2>8
<1> HIDE DEF mid
<1>4. /\ GridOK(UpdateGrid)
      /\ DOMAIN UpdateGrid.positions = DOMAIN mid.positions \ gone
      /\ \A e \in DOMAIN mid.positions \ gone : UpdateGrid.positions[e] = mid.positions[e]
  <2> DEFINE n == Cardinality(gone)
             seq == SetToSeq(gone)
  <2>1. /\ n \in Nat /\ DOMAIN seq = 1 .. n
        /\ \A i \in 1 .. n : seq[i] \in gone
        /\ \A x \in gone : \E i \in 1 .. n : seq[i] = x
    BY <1>1, SetToSeqFacts
  <2>2. PICK h : /\ h[0] = mid /\ Removing!Fold(0, mid, seq) = h[n]
                 /\ \A i \in 1 .. n : h[i] = rem(0, h[i - 1], seq[i])
    <3> HIDE DEF n, seq
    <3> QED
      <4>1. Removing!Induction
        BY NatSetInduction DEF Removing!Induction
      <4>2. \E h : Removing!Run(h, n, 0, mid, seq)
        BY <2>1, <4>1, Removing!FoldRuns
      <4> QED
        BY <4>2 DEF Removing!Run
  <2> HIDE DEF n, seq
  <2> DEFINE U == {i \in 0 .. n :
                     /\ GridOK(h[i])
                     /\ DOMAIN h[i].positions = DOMAIN mid.positions \ {seq[j] : j \in 1 .. i}
                     /\ \A e \in DOMAIN h[i].positions : h[i].positions[e] = mid.positions[e]}
  <2>3. 0 \in U
    <3>1. 1 .. 0 = {} /\ 0 \in 0 .. n
      BY <2>1
    <3> QED
      BY <1>3, <2>2, <3>1
  <2>4. ASSUME NEW i \in 1 .. n, i - 1 \in U PROVE i \in U
    <3>1. /\ GridOK(h[i])
          /\ DOMAIN h[i].positions = DOMAIN h[i - 1].positions \ {seq[i]}
          /\ \A x \in DOMAIN h[i - 1].positions \ {seq[i]} :
                h[i].positions[x] = h[i - 1].positions[x]
      BY <2>2, <2>4, RemoveKeeps DEF rem
    <3>2. 1 .. i = (1 .. (i - 1)) \cup {i} /\ i \in 0 .. n
      BY <2>1
    <3>3. DOMAIN h[i].positions = DOMAIN mid.positions \ {seq[j] : j \in 1 .. i}
      BY <2>4, <3>1, <3>2
    <3>4. \A e \in DOMAIN h[i].positions : h[i].positions[e] = mid.positions[e]
      BY <2>4, <3>1
    <3> QED
      BY <3>1, <3>2, <3>3, <3>4
  <2> HIDE DEF U
  <2>5. n \in U
    <3>1. \A i \in 0 .. n : i \in U
      BY <2>1, <2>3, <2>4, UpTo
    <3> QED
      BY <2>1, <3>1
  <2>6. /\ GridOK(h[n])
        /\ DOMAIN h[n].positions = DOMAIN mid.positions \ {seq[j] : j \in 1 .. n}
        /\ \A e \in DOMAIN h[n].positions : h[n].positions[e] = mid.positions[e]
    BY <2>5 DEF U
  <2>7. {seq[j] : j \in 1 .. n} = gone
    BY <2>1
  <2>8. UpdateGrid = h[n]
    BY <1>2, <2>2 DEF seq
  <2> QED
    BY <2>6, <2>7, <2>8
<1>5. (DOMAIN grid.positions \cup spatial) \ gone = spatial
  BY DEF gone
<1>6. DOMAIN UpdateGrid.positions = spatial /\ \A e \in spatial : UpdateGrid.positions[e] = pos[e]
  BY <1>3, <1>4, <1>5
<1> QED
  BY <1>4, <1>6 DEF spatial

(* The query.  *)

\* Rounding down keeps the order: the cell of a position grows with it.
LEMMA DivMonotone ==
    ASSUME NEW x \in Int, NEW y \in Int, x <= y
    PROVE  x \div CellSize \in Int /\ y \div CellSize \in Int /\ x \div CellSize <= y \div CellSize
<1> DEFINE S == CellSize
           a == x \div S
           b == y \div S
<1>1. S \in Nat /\ S > 0
  BY InterestAssumption
<1>2. a \in Int /\ x % S \in Int /\ x = S * a + (x % S) /\ 0 <= x % S /\ x % S < S
  BY <1>1
<1>3. b \in Int /\ y % S \in Int /\ y = S * b + (y % S) /\ 0 <= y % S /\ y % S < S
  BY <1>1
<1> HIDE DEF S, a, b
<1>4. ~(a >= b + 1)
  <2> SUFFICES ASSUME a >= b + 1 PROVE FALSE
    OBVIOUS
  <2>1. S * (b + 1) = S * b + S
    BY <1>1, <1>3
  <2>2. S * a >= S * (b + 1)
    BY <1>1, <1>2, <1>3
  <2> QED
    BY <1>1, <1>2, <1>3, <2>1, <2>2
<1>5. a <= b
  BY <1>2, <1>3, <1>4
<1> QED
  BY <1>2, <1>3, <1>5 DEF S, a, b

\* Two squares that add up to at most r * r leave each coordinate within r.
LEMMA WithinRadius ==
    ASSUME NEW a \in Int, NEW b \in Int, NEW r \in Nat, a * a + b * b <= r * r
    PROVE  -r <= a /\ a <= r
<1>1. b * b >= 0 /\ b * b \in Int /\ a * a \in Int /\ r * r \in Int
  OBVIOUS
<1>2. a * a <= r * r
  BY <1>1
<1>3. ~(a > r)
  <2> SUFFICES ASSUME a > r PROVE FALSE
    OBVIOUS
  <2>1. (a - r) * (a + r) > 0
    OBVIOUS
  <2>2. (a - r) * (a + r) = a * a - r * r
    OBVIOUS
  <2> QED
    BY <1>1, <1>2, <2>1, <2>2
<1>4. ~(-r > a)
  <2> SUFFICES ASSUME -r > a PROVE FALSE
    OBVIOUS
  <2>1. (-a - r) * (r - a) > 0
    OBVIOUS
  <2>2. (-a - r) * (r - a) = a * a - r * r
    OBVIOUS
  <2> QED
    BY <1>1, <1>2, <2>1, <2>2
<1> QED
  BY <1>3, <1>4

\* A point in reach lies in one of the cells that are scanned.
LEMMA ScannedCells ==
    ASSUME NEW p \in Int \X Int, NEW q \in Int \X Int, NEW r \in Nat, Dist2(q, p) <= r * r
    PROVE  /\ toCell(q)[1] \in cellKey(p[1] - r, p[2] - r)[1] .. cellKey(p[1] + r, p[2] + r)[1]
           /\ toCell(q)[2] \in cellKey(p[1] - r, p[2] - r)[2] .. cellKey(p[1] + r, p[2] + r)[2]
<1> DEFINE dx == q[1] - p[1]
           dy == q[2] - p[2]
<1>1. p[1] \in Int /\ p[2] \in Int /\ q[1] \in Int /\ q[2] \in Int
  OBVIOUS
<1>2. dx \in Int /\ dy \in Int /\ dx * dx + dy * dy <= r * r
  BY <1>1 DEF Dist2
<1>3. dy * dy + dx * dx <= r * r
  <2>1. dx * dx \in Int /\ dy * dy \in Int
    BY <1>2
  <2> QED
    BY <1>2, <2>1
<1>4. -r <= dx /\ dx <= r
  <2> HIDE DEF dx, dy
  <2> QED
    BY <1>2, WithinRadius
<1>5. -r <= dy /\ dy <= r
  <2> HIDE DEF dx, dy
  <2> QED
    BY <1>2, <1>3, WithinRadius
<1>6. p[1] - r <= q[1] /\ q[1] <= p[1] + r /\ p[1] - r \in Int /\ p[1] + r \in Int
  BY <1>1, <1>4
<1>7. p[2] - r <= q[2] /\ q[2] <= p[2] + r /\ p[2] - r \in Int /\ p[2] + r \in Int
  BY <1>1, <1>5
<1> HIDE DEF dx, dy
<1>8. (p[1] - r) \div CellSize <= q[1] \div CellSize /\ q[1] \div CellSize <= (p[1] + r) \div CellSize
      /\ (p[1] - r) \div CellSize \in Int /\ q[1] \div CellSize \in Int /\ (p[1] + r) \div CellSize \in Int
  BY <1>1, <1>6, DivMonotone
<1>9. (p[2] - r) \div CellSize <= q[2] \div CellSize /\ q[2] \div CellSize <= (p[2] + r) \div CellSize
      /\ (p[2] - r) \div CellSize \in Int /\ q[2] \div CellSize \in Int /\ (p[2] + r) \div CellSize \in Int
  BY <1>1, <1>7, DivMonotone
<1> QED
  BY <1>8, <1>9 DEF toCell, cellKey

\* A query by cells finds exactly the entities within the radius.
LEMMA QueryFinds ==
    ASSUME NEW g, GridOK(g), NEW p \in Int \X Int, NEW r \in Nat
    PROVE  QueryInto(g, p, r) = {e \in DOMAIN g.positions : Dist2(g.positions[e], p) <= r * r}
<1> DEFINE min == cellKey(p[1] - r, p[2] - r)
           max == cellKey(p[1] + r, p[2] + r)
           scanned == {ck \in DOMAIN g.cells : ck[1] \in min[1] .. max[1] /\ ck[2] \in min[2] .. max[2]}
           found == UNION {g.cells[ck] : ck \in scanned}
<1>1. found \subseteq DOMAIN g.positions
  BY DEF GridOK, CellsOK, CellOfOK
<1>2. ASSUME NEW e \in DOMAIN g.positions, Dist2(g.positions[e], p) <= r * r
      PROVE  e \in found
  <2> DEFINE q == g.positions[e]
  <2>1. q \in Int \X Int
    BY InterestAssumption DEF GridOK, PositionsOK
  <2>2. g.cellOf[e] = toCell(q) /\ g.cellOf[e] \in DOMAIN g.cells /\ e \in g.cells[g.cellOf[e]]
    BY DEF GridOK, CellsOK, CellOfOK
  <2>3. toCell(q)[1] \in min[1] .. max[1] /\ toCell(q)[2] \in min[2] .. max[2]
    <3> HIDE DEF q
    <3> QED
      BY <1>2, <2>1, ScannedCells DEF q
  <2> HIDE DEF q, min, max
  <2> QED
    BY <2>2, <2>3
<1>3. QueryInto(g, p, r) = {e \in found : Dist2(g.positions[e], p) <= r * r}
  BY DEF QueryInto
<1> HIDE DEF found
<1> QED
  BY <1>1, <1>2, <1>3

-----------------------------------------------------------------------------
(* Interest mode: what a session knows follows positions and the registry. *)

FieldOK == foi = NoFOI \/ foi \in FOIType
KnownGlobalsOK ==
    /\ globals \subseteq Entities /\ \A e \in globals : isGlobal(e)
    /\ known \subseteq Entities /\ \A e \in known : isGlobal(e) => e \in globals
    /\ foi = NoFOI => known = {}
InterestInv ==
    /\ setting \in Settings /\ live \subseteq Entities /\ pos \in [Entities -> Places]
    /\ FieldOK /\ GridOK(grid) /\ KnownGlobalsOK

\* The registry and the grid start in agreement.
LEMMA InitInterestInv == ASSUME InitInterest PROVE InterestInv
<1>1. live \subseteq Entities
  BY ReplicationAssumption DEF InitInterest, Init, ScenarioType
<1>2. known = {} /\ globals = {}
  BY DEF InitInterest, Init
<1>3. GridOK(grid)
  <2>1. /\ grid.positions = <<>> /\ grid.cellOf = <<>> /\ grid.cells = <<>>
        /\ grid = [positions |-> grid.positions, cellOf |-> grid.cellOf, cells |-> grid.cells]
    BY DEF InitInterest
  <2>2. DOMAIN <<>> = {}
    OBVIOUS
  <2> QED
    BY <2>1, <2>2 DEF GridOK, PositionsOK, CellOfOK, CellsOK
<1>4. setting \in Settings /\ pos \in [Entities -> Places]
  BY InterestAssumption DEF InitInterest
<1>5. FieldOK
  BY DEF InitInterest, FieldOK
<1> QED
  BY <1>1, <1>2, <1>3, <1>4, <1>5 DEF InterestInv, KnownGlobalsOK

\* Nothing that places and verdicts depend on changes.
LEMMA PlacesKept ==
    ASSUME InterestInv, live' \subseteq Entities,
           UNCHANGED <<setting, pos, foi, grid, globals, known>>
    PROVE  InterestInv'
  BY DEF InterestInv, FieldOK, KnownGlobalsOK, isGlobal, NoFOI

\* Game code other than a move of an entity leaves every position alone.
LEMMA GameKeepsPlaces ==
    ASSUME InterestInv, GameStep
    PROVE  InterestInv'
<1>1. UNCHANGED <<setting, pos, foi, grid, globals>>
  BY DEF GameStep, interestVars
<1>2. ASSUME NEW e \in Entities, NEW f \in Fields, SetField(e, f)
      PROVE  live' \subseteq Entities /\ known' = known
  BY <1>2 DEF SetField, sendVars, InterestInv
<1>3. ASSUME NEW e \in Entities, NEW o \in Owners, CreateEntity(e, o)
      PROVE  live' \subseteq Entities /\ known' = known
  BY <1>3 DEF CreateEntity, sendVars, InterestInv
<1>4. ASSUME NEW e \in Entities, DeleteEntity(e)
      PROVE  live' \subseteq Entities /\ known' = known
  BY <1>4 DEF DeleteEntity, sendVars, InterestInv
<1>5. ASSUME NEW e \in Entities, NEW o \in Owners, SetOwner(e, o)
      PROVE  live' \subseteq Entities /\ known' = known
  BY <1>5 DEF SetOwner, sendVars, InterestInv
<1>6. ASSUME NEW e \in Entities, NEW in \in BOOLEAN, SetEntityVisibilityGroup(e, in)
      PROVE  live' \subseteq Entities /\ known' = known
  BY <1>6 DEF SetEntityVisibilityGroup, sendVars, InterestInv
<1>7. ASSUME SetMember PROVE live' \subseteq Entities /\ known' = known
  BY <1>7 DEF SetMember, sendVars, InterestInv
<1>8. live' \subseteq Entities /\ known' = known
  BY <1>2, <1>3, <1>4, <1>5, <1>6, <1>7 DEF GameStep
<1> QED
  BY <1>1, <1>8, PlacesKept

\* Squaring keeps the order of the natural numbers.
LEMMA SquareMonotone ==
    ASSUME NEW r \in Nat, NEW m \in Nat
    PROVE  r * r <= (r + m) * (r + m)
<1>1. r * r \in Int /\ r * m \in Int /\ m * m \in Int /\ r * m >= 0 /\ m * m >= 0
  OBVIOUS
<1>2. (r + m) * (r + m) = r * r + 2 * (r * m) + m * m
  OBVIOUS
<1> QED
  BY <1>1, <1>2

\* The squared distance of two places is a natural number.
LEMMA DistIsInt ==
    ASSUME NEW p \in Int \X Int, NEW q \in Int \X Int
    PROVE  Dist2(p, q) \in Int
  BY DEF Dist2

seenNow(e) ==
    LET reach == IF e \in known THEN foi.radius + foi.margin ELSE foi.radius
    IN  e \in live /\ Allows(e) /\ Dist2(pos[e], pos[foi.anchor]) <= reach * reach

\* A tick makes the known set what the positions and groups call for.
LEMMA TickKnows ==
    ASSUME InterestInv, ComputeDiffs, foi # NoFOI
    PROVE  known' = {e \in live : isGlobal(e) /\ Allows(e)} \cup
                    {e \in Entities : ~isGlobal(e) /\ IF foi.anchor \in live /\ ~isGlobal(foi.anchor)
                                                      THEN seenNow(e) ELSE e \in known}
<1> DEFINE g == UpdateGrid
           now == {e \in live : isGlobal(e)}
           d == ComputeDiffsFiltered(g)
           none == [entered |-> {}, stayed |-> {}, exited |-> {}]
           s == IF Has(g, foi.anchor) THEN SpatialDiff(g, g.positions[foi.anchor]) ELSE none
           anchored == foi.anchor \in live /\ ~isGlobal(foi.anchor)
<1>1. foi.anchor \in Entities /\ foi.radius \in Nat /\ foi.margin \in Nat
  BY DEF InterestInv, FieldOK, FOIType
<1>2. /\ GridOK(g)
      /\ DOMAIN g.positions = {e \in live : ~isGlobal(e)}
      /\ \A e \in live : ~isGlobal(e) => g.positions[e] = pos[e]
  BY GridAfterUpdate DEF InterestInv
<1>3. known' = (known \cup d.entered) \ d.exited
  BY DEF ComputeDiffs
<1>4. Has(g, foi.anchor) <=> anchored
  BY <1>2 DEF Has
<1>5. /\ d.entered = s.entered \cup {e \in now \ known : Allows(e)}
      /\ d.exited = s.exited \cup {e \in now \cap known : ~Allows(e)} \cup ((globals \ now) \cap known)
  BY DEF ComputeDiffsFiltered, GlobalsDiff
<1>6. CASE anchored
  <2> DEFINE p == pos[foi.anchor]
             far == foi.radius + foi.margin
  <2>1. p \in Int \X Int /\ \A e \in live : pos[e] \in Int \X Int
    BY <1>1, InterestAssumption DEF InterestInv
  <2>2. far \in Nat
    BY <1>1
  <2>3. g.positions[foi.anchor] = p
    BY <1>2, <1>6
  <2>4. QueryInto(g, p, far) = {e \in live : ~isGlobal(e) /\ Dist2(pos[e], p) <= far * far}
    <3>1. QueryInto(g, p, far) = {e \in DOMAIN g.positions : Dist2(g.positions[e], p) <= far * far}
      <4> HIDE DEF p, far, g
      <4> QED
        BY <1>2, <2>1, <2>2, QueryFinds
    <3> HIDE DEF g, p, far
    <3> QED
      BY <1>2, <3>1
  <2>5. s = SpatialDiff(g, p)
    BY <1>4, <1>6, <2>3
  <2>6. /\ s.entered = {e \in QueryInto(g, p, far) \ known :
                          Dist2(g.positions[e], p) <= foi.radius * foi.radius /\ Allows(e)}
        /\ s.exited = {e \in QueryInto(g, p, far) \cap known :
                          ~(Dist2(g.positions[e], p) <= far * far /\ Allows(e))}
                      \cup {e \in known \ QueryInto(g, p, far) : ~(isGlobal(e) /\ e \in live)}
    BY <2>5 DEF SpatialDiff
  <2>7. \A e \in live : Dist2(pos[e], p) \in Int
    <3> HIDE DEF p
    <3> QED
      BY <2>1, DistIsInt
  <2>8. /\ foi.radius * foi.radius <= far * far
        /\ foi.radius * foi.radius \in Int /\ far * far \in Int
    BY <1>1, SquareMonotone
  <2>9. \A e \in live : Dist2(pos[e], p) <= foi.radius * foi.radius => Dist2(pos[e], p) <= far * far
    <3> HIDE DEF p, far
    <3> QED
      BY <2>7, <2>8
  <2>10. \A e \in Entities : seenNow(e) <=>
            /\ e \in live /\ Allows(e)
            /\ IF e \in known THEN Dist2(pos[e], p) <= far * far
                              ELSE Dist2(pos[e], p) <= foi.radius * foi.radius
    BY DEF seenNow
  <2> DEFINE R == foi.radius * foi.radius
             F == far * far
             Q == {e \in live : ~isGlobal(e) /\ Dist2(pos[e], p) <= F}
  <2>11. /\ s.entered = {e \in Q \ known : Dist2(pos[e], p) <= R /\ Allows(e)}
         /\ s.exited = {e \in Q \cap known : ~Allows(e)}
                      \cup {e \in known \ Q : ~(isGlobal(e) /\ e \in live)}
    <3> HIDE DEF g, s, p, far
    <3> QED
      BY <1>2, <2>4, <2>6
  <2>12. \A e \in live : Dist2(pos[e], p) <= R => Dist2(pos[e], p) <= F
    BY <2>9
  <2>13. \A e \in Entities : seenNow(e) <=>
            /\ e \in live /\ Allows(e)
            /\ IF e \in known THEN Dist2(pos[e], p) <= F ELSE Dist2(pos[e], p) <= R
    BY <2>10
  <2>14. /\ known \subseteq Entities /\ globals \subseteq Entities /\ live \subseteq Entities
         /\ \A e \in globals : isGlobal(e)
    BY DEF InterestInv, KnownGlobalsOK
  <2> HIDE DEF g, d, s, p, far, R, F
  <2>15. ASSUME NEW e \in known'
         PROVE  \/ e \in live /\ isGlobal(e) /\ Allows(e)
                \/ e \in Entities /\ ~isGlobal(e) /\ seenNow(e)
    BY <1>3, <1>5, <2>11, <2>12, <2>13, <2>14
  <2>16. ASSUME NEW e \in live, isGlobal(e), Allows(e) PROVE e \in known'
    BY <1>3, <1>5, <2>11, <2>14, <2>16
  <2>17. ASSUME NEW e \in Entities, ~isGlobal(e), seenNow(e) PROVE e \in known'
    BY <1>3, <1>5, <2>11, <2>12, <2>13, <2>14, <2>17
  <2> QED
    BY <1>6, <2>15, <2>16, <2>17
<1>7. CASE ~anchored
  <2>1. s.entered = {} /\ s.exited = {}
    BY <1>4, <1>7
  <2>2. /\ known \subseteq Entities /\ globals \subseteq Entities /\ live \subseteq Entities
        /\ \A e \in globals : isGlobal(e)
        /\ \A e \in known : isGlobal(e) => e \in globals
    BY DEF InterestInv, KnownGlobalsOK
  <2> HIDE DEF g, d, s
  <2> QED
    BY <1>3, <1>5, <1>7, <2>1, <2>2
<1> QED
  BY <1>6, <1>7

\* SetPosition: the entity moves, the grid follows at the next tick.
LEMMA MoveKeepsPlaces ==
    ASSUME InterestInv, NEW e \in Entities, NEW p \in Places, MoveEntity(e, p)
    PROVE  InterestInv'
<1>1. /\ pos' = [pos EXCEPT ![e] = p] /\ UNCHANGED <<setting, foi, grid, globals, known, live>>
  BY DEF MoveEntity, SetField, sendVars
<1>2. pos' \in [Entities -> Places]
  BY <1>1 DEF InterestInv
<1> QED
  BY <1>1, <1>2 DEF InterestInv, FieldOK, KnownGlobalsOK, isGlobal, NoFOI

\* SetFieldOfInterest moves no entity.
LEMMA FieldsKeepPlaces ==
    ASSUME InterestInv, (\E f \in setting.fois : AssignFOI(f)) \/ RemoveFOI
    PROVE  InterestInv'
<1>1. ASSUME NEW f \in setting.fois, AssignFOI(f) PROVE InterestInv'
  <2>1. f \in FOIType
    BY InterestAssumption DEF InterestInv
  <2>2. foi' = f /\ UNCHANGED <<setting, pos, grid, globals, known, live>>
    BY <1>1 DEF AssignFOI, vars, sendVars, gameVars
  <2>3. f # NoFOI
    BY <2>1, ReplicationAssumption DEF FOIType, NoFOI
  <2> QED
    BY <2>1, <2>2, <2>3 DEF InterestInv, FieldOK, KnownGlobalsOK, isGlobal, NoFOI
<1>2. CASE RemoveFOI
  <2>1. foi' = NoFOI /\ known' = {} /\ UNCHANGED <<setting, pos, grid, globals, live>>
    BY <1>2 DEF RemoveFOI, gameVars
  <2> QED
    BY <2>1 DEF InterestInv, FieldOK, KnownGlobalsOK, isGlobal, NoFOI
<1> QED
  BY <1>1, <1>2

\* runInterestTick updates the grid before it asks it anything.
LEMMA TickKeepsPlaces ==
    ASSUME InterestInv, ComputeDiffs
    PROVE  InterestInv'
<1>1. /\ grid' = UpdateGrid /\ globals' = {e \in live : isGlobal(e)}
      /\ UNCHANGED <<setting, pos, foi, live>>
  BY DEF ComputeDiffs
<1>2. GridOK(grid')
  BY <1>1, GridAfterUpdate DEF InterestInv
<1>3. foi = NoFOI => known' = known
  BY DEF ComputeDiffs
<1>4. known' \subseteq Entities /\ \A e \in known' : isGlobal(e) => e \in live
  <2>1. CASE foi = NoFOI
    BY <1>3, <2>1 DEF InterestInv, KnownGlobalsOK
  <2>2. CASE foi # NoFOI
    BY <2>2, TickKnows DEF InterestInv
  <2> QED
    BY <2>1, <2>2
<1> QED
  BY <1>1, <1>2, <1>3, <1>4 DEF InterestInv, FieldOK, KnownGlobalsOK, isGlobal, NoFOI

\* Every step of the interest tick and of the game keeps the positions, the
\* grid and the fields of interest well-formed.
LEMMA NextInterestInv == ASSUME InterestInv, [NextInterest]_allVars PROVE InterestInv'
<1>1. CASE Connect
  <2>1. live' \subseteq Entities /\ UNCHANGED <<setting, pos, foi, grid, globals, known>>
    BY <1>1 DEF Connect, interestVars, gameVars, sendVars, InterestInv
  <2> QED
    BY <2>1, PlacesKept
<1>2. CASE InterestDrain
  <2>1. live' \subseteq Entities /\ UNCHANGED <<setting, pos, foi, grid, globals, known>>
    BY <1>2 DEF InterestDrain, DrainMessages, interestVars, gameVars, InterestInv
  <2> QED
    BY <2>1, PlacesKept
<1>3. CASE InterestFlush
  <2>1. live' \subseteq Entities /\ UNCHANGED <<setting, pos, foi, grid, globals, known>>
    BY <1>3 DEF InterestFlush, Flush, interestVars, sendVars, InterestInv
  <2> QED
    BY <2>1, PlacesKept
<1>4. CASE InterestSend
  <2>1. live' \subseteq Entities /\ UNCHANGED <<setting, pos, foi, grid, globals, known>>
    BY <1>4 DEF InterestSend, EndPass, InterestInv
  <2> QED
    BY <2>1, PlacesKept
<1>5. CASE NetworkStep
  <2>1. live' \subseteq Entities /\ UNCHANGED <<setting, pos, foi, grid, globals, known>>
    BY <1>5 DEF NetworkStep, StreamDeliver, DatagramDeliver, Acknowledged, Lost, Enqueue,
                interestVars, gameVars, InterestInv
  <2> QED
    BY <2>1, PlacesKept
<1>6. CASE InterestSerialize
  <2>1. live' \subseteq Entities /\ UNCHANGED <<setting, pos, foi, grid, globals, known>>
    BY <1>6 DEF InterestSerialize, SerializeRemoval, interestVars, gameVars, InterestInv
  <2> QED
    BY <2>1, PlacesKept
<1>7. CASE UNCHANGED allVars
  <2>1. live' \subseteq Entities /\ UNCHANGED <<setting, pos, foi, grid, globals, known>>
    BY <1>7 DEF allVars, vars, gameVars, sendVars, interestVars, InterestInv
  <2> QED
    BY <2>1, PlacesKept
<1> QED
  BY <1>1, <1>2, <1>3, <1>4, <1>5, <1>6, <1>7, MoveKeepsPlaces, GameKeepsPlaces, FieldsKeepPlaces,
     TickKeepsPlaces DEF NextInterest

\* Server.runInterestTick keeps the grid, the globals and the known set within
\* the registry, whatever the game, the network and the tick do.
THEOREM PlacesInvariant == SpecInterest => []InterestInv
<1>1. InitInterest => InterestInv
  BY InitInterestInv
<1>2. InterestInv /\ [NextInterest]_allVars => InterestInv'
  BY NextInterestInv
<1> QED
  BY <1>1, <1>2, PTL DEF SpecInterest

\* grid.go: for any cell size, any positions and any history of inserts, moves
\* and removals a query finds exactly the entities within the radius.
THEOREM GridIsExact == SpecInterest => []GridQueryExact
<1>1. ASSUME InterestInv PROVE GridQueryExact
  <2>1. DOMAIN grid.positions = DOMAIN grid.cellOf
    BY <1>1 DEF InterestInv, GridOK, CellOfOK
  <2>2. ASSUME NEW p \in Places, NEW f \in setting.fois, NEW r \in {f.radius, f.radius + f.margin}
        PROVE  QueryInto(grid, p, r) =
                 {e \in DOMAIN grid.positions : Dist2(grid.positions[e], p) <= r * r}
    <3>1. f \in FOIType /\ p \in Int \X Int
      BY <1>1, InterestAssumption DEF InterestInv
    <3>2. r \in Nat
      BY <3>1 DEF FOIType
    <3> QED
      BY <1>1, <3>1, <3>2, QueryFinds DEF InterestInv
  <2> QED
    BY <2>1, <2>2 DEF GridQueryExact
<1> QED
  BY <1>1, PlacesInvariant, PTL

\* Manager.ComputeDiffsFiltered: after every tick the known set is the one the
\* positions, the groups and the known set before the tick call for.
THEOREM TicksFollowPositions == SpecInterest => KnownFollowsPositions
<1> DEFINE Follows ==
      diff = NoDiff /\ diff' # NoDiff /\ foi # NoFOI =>
        LET reach(e)  == IF e \in known THEN foi.radius + foi.margin ELSE foi.radius
            anchored  == foi.anchor \in live /\ ~isGlobal(foi.anchor)
            seen(e)   == e \in live /\ Allows(e) /\ Dist2(pos[e], pos[foi.anchor]) <= reach(e) * reach(e)
        IN  known' = {e \in live : isGlobal(e) /\ Allows(e)} \cup
                     {e \in Entities : ~isGlobal(e) /\ IF anchored THEN seen(e) ELSE e \in known}
<1>1. ASSUME InterestInv, NextInterest PROVE Follows
  <2>1. CASE ComputeDiffs
    BY <1>1, <2>1, TickKnows DEF seenNow
  <2>2. CASE ~ComputeDiffs
    <3>1. diff = NoDiff => diff' = NoDiff
      BY <1>1, <2>2 DEF NextInterest, Connect, MoveEntity, GameStep, AssignFOI, RemoveFOI,
         InterestDrain, InterestFlush, InterestSerialize, InterestSend, NetworkStep, interestVars
    <3> QED
      BY <3>1
  <2> QED
    BY <2>1, <2>2
<1>2. InterestInv /\ [NextInterest]_allVars => [Follows]_allVars
  BY <1>1
<1> QED
  BY <1>2, PlacesInvariant, PTL DEF SpecInterest, KnownFollowsPositions

-----------------------------------------------------------------------------
(* The elements of a list that are in a set. *)

Keeping == INSTANCE LeftFold WITH Op <- keep

\* Only is a loop over the list.
LEMMA OnlyFolds ==
    ASSUME NEW seq, NEW S
    PROVE  Only(seq, S) = Keeping!Fold(S, <<>>, seq)
  BY DEF Only, FoldLeft, MapThenFoldSet, Max,
         Keeping!Fold, Keeping!Greatest

\* x is nowhere, and exactly once, among the first n elements of s.
Nowhere(s, n, x) == \A j \in 1 .. n : s[j] # x
Once(s, n, x) == \E i \in 1 .. n : s[i] = x /\ \A j \in 1 .. n : s[j] = x => j = i

\* What appending an element does to how often an element is in a list.
LEMMA OnceGrows ==
    ASSUME NEW X, NEW s \in Seq(X), NEW y \in X, NEW x
    PROVE  LET t == Append(s, y) IN
           /\ t \in Seq(X) /\ Len(t) = Len(s) + 1
           /\ y # x /\ Nowhere(s, Len(s), x) => Nowhere(t, Len(t), x)
           /\ y # x /\ Once(s, Len(s), x) => Once(t, Len(t), x)
           /\ y = x /\ Nowhere(s, Len(s), x) => Once(t, Len(t), x)
<1> DEFINE t == Append(s, y)
           n == Len(s)
<1>1. /\ t \in Seq(X) /\ Len(t) = n + 1 /\ n \in Nat
      /\ t[n + 1] = y /\ \A i \in 1 .. n : t[i] = s[i]
  BY AppendProperties
<1> HIDE DEF t, n
<1>2. ASSUME NEW j \in 1 .. n + 1 PROVE j \in 1 .. n \/ j = n + 1
  BY <1>1
<1>3. 1 .. n \subseteq 1 .. n + 1 /\ n + 1 \in 1 .. n + 1
  BY <1>1
<1>4. ASSUME y # x, Nowhere(s, n, x) PROVE Nowhere(t, n + 1, x)
  BY <1>1, <1>2, <1>4 DEF Nowhere
<1>5. ASSUME y # x, Once(s, n, x) PROVE Once(t, n + 1, x)
  <2>1. PICK i \in 1 .. n : s[i] = x /\ \A j \in 1 .. n : s[j] = x => j = i
    BY <1>5 DEF Once
  <2>2. i \in 1 .. n + 1 /\ t[i] = x
    BY <1>1, <1>3, <2>1
  <2>3. \A j \in 1 .. n + 1 : t[j] = x => j = i
    BY <1>1, <1>2, <1>5, <2>1
  <2> QED
    BY <2>2, <2>3 DEF Once
<1>6. ASSUME y = x, Nowhere(s, n, x) PROVE Once(t, n + 1, x)
  <2>1. \A j \in 1 .. n + 1 : t[j] = x => j = n + 1
    BY <1>1, <1>2, <1>6 DEF Nowhere
  <2> QED
    BY <1>1, <1>3, <1>6, <2>1 DEF Once
<1> QED
  BY <1>1, <1>4, <1>5, <1>6 DEF t, n

\* Only keeps the type of the elements, and what was once in the list stays so.
LEMMA OnlyFacts ==
    ASSUME NEW X, NEW seq \in Seq(X), NEW S
    PROVE  /\ Only(seq, S) \in Seq(X \cap S)
           /\ \A x \in S : Once(seq, Len(seq), x) => Once(Only(seq, S), Len(Only(seq, S)), x)
<1> DEFINE n == Len(seq)
<1>1. n \in Nat /\ DOMAIN seq = 1 .. n /\ \A i \in 1 .. n : seq[i] \in X
  OBVIOUS
<1> HIDE DEF n
<1>2. PICK h : /\ h[0] = <<>> /\ Keeping!Fold(S, <<>>, seq) = h[n]
               /\ \A i \in 1 .. n : h[i] = keep(S, h[i - 1], seq[i])
  <2>1. Keeping!Induction
    BY NatSetInduction DEF Keeping!Induction
  <2>2. \E h : Keeping!Run(h, n, S, <<>>, seq)
    BY <1>1, <2>1, Keeping!FoldRuns
  <2> QED
    BY <2>2 DEF Keeping!Run
<1> DEFINE U == {i \in 0 .. n :
                   /\ h[i] \in Seq(X \cap S)
                   /\ \A x \in S : /\ Nowhere(seq, i, x) => Nowhere(h[i], Len(h[i]), x)
                                   /\ Once(seq, i, x) => Once(h[i], Len(h[i]), x)}
<1>3. 0 \in U
  <2>1. 1 .. 0 = {} /\ 0 \in 0 .. n /\ <<>> \in Seq(X \cap S) /\ Len(<<>>) = 0
    BY <1>1
  <2> QED
    BY <1>2, <2>1 DEF Nowhere, Once
<1>4. ASSUME NEW i \in 1 .. n, i - 1 \in U PROVE i \in U
  <2>1. i \in 0 .. n /\ 1 .. i = (1 .. (i - 1)) \cup {i} /\ i \notin 1 .. (i - 1)
    BY <1>1
  <2> DEFINE p == h[i - 1]
             y == seq[i]
  <2>2. /\ p \in Seq(X \cap S)
        /\ \A x \in S : /\ Nowhere(seq, i - 1, x) => Nowhere(p, Len(p), x)
                        /\ Once(seq, i - 1, x) => Once(p, Len(p), x)
    BY <1>4
  <2>3. h[i] = IF y \in S THEN Append(p, y) ELSE p
    BY <1>2 DEF keep
  <2>4. y \in X
    BY <1>1
  <2>5. ASSUME NEW x
        PROVE  /\ Nowhere(seq, i, x) <=> y # x /\ Nowhere(seq, i - 1, x)
               /\ Once(seq, i, x) => \/ y # x /\ Once(seq, i - 1, x)
                                     \/ y = x /\ Nowhere(seq, i - 1, x)
    BY <2>1 DEF Nowhere, Once
  <2> HIDE DEF p, y
  <2>6. CASE y \in S
    <3>1. \A x : LET t == Append(p, y) IN
           /\ t \in Seq(X \cap S) /\ Len(t) = Len(p) + 1
           /\ y # x /\ Nowhere(p, Len(p), x) => Nowhere(t, Len(t), x)
           /\ y # x /\ Once(p, Len(p), x) => Once(t, Len(t), x)
           /\ y = x /\ Nowhere(p, Len(p), x) => Once(t, Len(t), x)
      <4>1. y \in X \cap S
        BY <2>4, <2>6
      <4> QED
        BY <2>2, <4>1, OnceGrows
    <3>2. h[i] = Append(p, y)
      BY <2>3, <2>6
    <3> QED
      BY <2>1, <2>2, <2>5, <3>1, <3>2
  <2>7. CASE y \notin S
    BY <2>1, <2>2, <2>3, <2>5, <2>7
  <2> QED
    BY <2>6, <2>7
<1> HIDE DEF U
<1>5. \A i \in 0 .. n : i \in U
  BY <1>1, <1>3, <1>4, UpTo
<1>6. n \in U
  BY <1>1, <1>5
<1>7. Only(seq, S) = h[n]
  BY <1>2, OnlyFolds
<1> QED
  BY <1>6, <1>7 DEF U, n

-----------------------------------------------------------------------------
(* What a session's tracker may hold. *)

QueueOK(q, D) == \A e \in D : Once(q, Len(q), e)

\* Changes that name entities of N only, without the owner-only fields for those
\* of R, and whole states only of those of W.
Changes(N, R, W) ==
    {ch \in ChangeType : ch.id \in N /\ (ch.id \in R => ch.public) /\ (ch.full => ch.id \in W)}
DirtyOK(ds, C) ==
    DOMAIN ds \subseteq Entities /\ \A e \in DOMAIN ds : ds[e] \in C /\ ds[e].id = e
FlightOK(fl, C) == \A k \in DOMAIN fl : fl[k] \in Seq(C) /\ fl[k] # <<>>
TrackerOK(t, N, R, W) ==
    /\ t = [dirtySet |-> t.dirtySet, dirtyQueue |-> t.dirtyQueue, inFlight |-> t.inFlight]
    /\ DirtyOK(t.dirtySet, Changes(N, R, W)) /\ FlightOK(t.inFlight, Changes(N, R, W))
    /\ t.dirtyQueue \in Seq(Entities) /\ QueueOK(t.dirtyQueue, Dirty(t))

\* A tracker that owes less than it may, and redacts more, is still right.
LEMMA ChangesGrow ==
    ASSUME NEW N, NEW R, NEW W, NEW M, NEW Q, N \subseteq M, N \cap Q \subseteq R
    PROVE  /\ Changes(N, R, W) \subseteq Changes(M, Q, W)
           /\ \A t : TrackerOK(t, N, R, W) => TrackerOK(t, M, Q, W)
<1>1. Changes(N, R, W) \subseteq Changes(M, Q, W)
  BY DEF Changes
<1>2. Seq(Changes(N, R, W)) \subseteq Seq(Changes(M, Q, W))
  BY <1>1
<1> QED
  BY <1>1, <1>2 DEF TrackerOK, DirtyOK, FlightOK

\* Whole states it does not owe do not matter.
LEMMA WholeGrow ==
    ASSUME NEW N, NEW R, NEW W, NEW V, N \cap W \subseteq V
    PROVE  /\ Changes(N, R, W) \subseteq Changes(N, R, V)
           /\ \A t : TrackerOK(t, N, R, W) => TrackerOK(t, N, R, V)
<1>1. Changes(N, R, W) \subseteq Changes(N, R, V)
  BY DEF Changes
<1>2. Seq(Changes(N, R, W)) \subseteq Seq(Changes(N, R, V))
  BY <1>1
<1> QED
  BY <1>1, <1>2 DEF TrackerOK, DirtyOK, FlightOK

\* newEventualStateTracker owes nothing.
LEMMA NewTracker == \A N, R, W : TrackerOK(newEventualStateTracker, N, R, W)
  BY DEF newEventualStateTracker, TrackerOK, DirtyOK, FlightOK, QueueOK, Dirty

\* What is left of the queue names what is dirty, each entity once.
LEMMA DirtyOnlyFacts ==
    ASSUME NEW N, NEW R, NEW W, NEW t, TrackerOK(t, N, R, W)
    PROVE  /\ DirtyOnly(t) \in Seq(Dirty(t)) /\ DirtyOnly(t) \in Seq(Entities)
           /\ QueueOK(DirtyOnly(t), Dirty(t))
<1>1. t.dirtyQueue \in Seq(Entities) /\ QueueOK(t.dirtyQueue, Dirty(t)) /\ Dirty(t) \subseteq Entities
  BY DEF TrackerOK, DirtyOK, Dirty
<1>2. /\ DirtyOnly(t) \in Seq(Entities \cap Dirty(t))
      /\ \A e \in Dirty(t) : Once(t.dirtyQueue, Len(t.dirtyQueue), e)
            => Once(DirtyOnly(t), Len(DirtyOnly(t)), e)
  BY <1>1, OnlyFacts DEF DirtyOnly
<1>3. Entities \cap Dirty(t) = Dirty(t)
  BY <1>1
<1>4. DirtyOnly(t) \in Seq(Dirty(t))
  BY <1>2, <1>3
<1>5. DirtyOnly(t) \in Seq(Entities)
  BY <1>1, <1>4
<1> QED
  BY <1>1, <1>2, <1>4, <1>5 DEF QueueOK

\* A queue as long as there are dirty entities holds nothing else.
LEMMA FullQueue ==
    ASSUME NEW N, NEW R, NEW W, NEW t, TrackerOK(t, N, R, W), Len(t.dirtyQueue) = Cardinality(Dirty(t))
    PROVE  \A i \in 1 .. Len(t.dirtyQueue) : t.dirtyQueue[i] \in Dirty(t)
<1> DEFINE q == t.dirtyQueue
           n == Len(q)
           D == Dirty(t)
<1>1. q \in Seq(Entities) /\ n \in Nat /\ QueueOK(q, D) /\ D \subseteq Entities
  BY DEF TrackerOK, DirtyOK, Dirty
<1>2. IsFiniteSet(D) /\ n = Cardinality(D)
  BY <1>1, ReplicationAssumption, FS_Subset
<1>3. IsFiniteSet(1 .. n) /\ Cardinality(1 .. n) = n
  <2>1. n \in Int /\ 1 \in Int
    BY <1>1
  <2>2. IsFiniteSet(1 .. n) /\ Cardinality(1 .. n) = IF 1 > n THEN 0 ELSE n - 1 + 1
    BY <2>1, FS_Interval
  <2> QED
    BY <1>1, <2>2
<1> HIDE DEF q, n, D
<1> DEFINE at == [e \in D |-> CHOOSE i \in 1 .. n : q[i] = e]
<1>4. \A e \in D : at[e] \in 1 .. n /\ q[at[e]] = e
  <2>1. \A e \in D : \E i \in 1 .. n : q[i] = e
    BY <1>1 DEF QueueOK, Once, n
  <2> QED
    BY <2>1
<1>5. at \in Injection(D, 1 .. n)
  <2>1. at \in [D -> 1 .. n]
    BY <1>4
  <2>2. \A a, b \in D : at[a] = at[b] => a = b
    BY <1>4
  <2> QED
    BY <2>1, <2>2 DEF Injection, IsInjective
<1> HIDE DEF at
<1>6. at \in Surjection(D, 1 .. n)
  BY <1>2, <1>3, <1>5, FS_Injection
<1>7. \A i \in 1 .. n : \E e \in D : at[e] = i
  BY <1>6 DEF Surjection
<1>8. \A i \in 1 .. n : q[i] \in D
  BY <1>4, <1>7
<1> QED
  BY <1>8 DEF q, n, D

\* compactDirtyQueueNow keeps what is owed, and leaves nothing stale.
LEMMA CompactNowKeeps ==
    ASSUME NEW N, NEW R, NEW W, NEW t, TrackerOK(t, N, R, W)
    PROVE  LET u == compactDirtyQueueNow(t) IN
           /\ TrackerOK(u, N, R, W) /\ u.dirtySet = t.dirtySet /\ u.inFlight = t.inFlight
           /\ u.dirtyQueue \in Seq(Dirty(t))
<1> DEFINE u == compactDirtyQueueNow(t)
<1>1. CASE Len(t.dirtyQueue) = Cardinality(Dirty(t))
  <2>1. u = t
    BY <1>1 DEF compactDirtyQueueNow
  <2>2. t.dirtyQueue \in Seq(Entities)
    BY DEF TrackerOK
  <2>3. t.dirtyQueue \in Seq(Dirty(t))
    BY <1>1, <2>2, FullQueue
  <2> QED
    BY <2>1, <2>3
<1>2. CASE Len(t.dirtyQueue) # Cardinality(Dirty(t))
  <2>1. u = [t EXCEPT !.dirtyQueue = DirtyOnly(t)]
    BY <1>2 DEF compactDirtyQueueNow
  <2>2. u = [dirtySet |-> t.dirtySet, dirtyQueue |-> DirtyOnly(t), inFlight |-> t.inFlight]
    BY <2>1 DEF TrackerOK
  <2> HIDE DEF u
  <2>3. Dirty(u) = Dirty(t)
    BY <2>2 DEF Dirty
  <2> QED
    BY <2>2, <2>3, DirtyOnlyFacts DEF TrackerOK, u
<1> QED
  BY <1>1, <1>2

\* compactDirtyQueue keeps what is owed, whether it compacts or waits.
LEMMA CompactKeeps ==
    ASSUME NEW N, NEW R, NEW W, NEW t, TrackerOK(t, N, R, W)
    PROVE  LET u == compactDirtyQueue(t) IN
           TrackerOK(u, N, R, W) /\ u.dirtySet = t.dirtySet /\ u.inFlight = t.inFlight
  BY CompactNowKeeps DEF compactDirtyQueue

\* A merged change names the same entity, and stays redacted.
LEMMA MergedType ==
    ASSUME NEW N, NEW R, NEW W, NEW a \in Changes(N, R, W), NEW b \in Changes(N, R, W), b.id = a.id
    PROVE  merged(a, b) \in Changes(N, R, W) /\ merged(a, b).id = a.id
  BY DEF merged, Change, ChangeType, Changes

\* markDirtyChange: the new change is owed, and queued once, also when its
\* entity had a stale place in the queue.
LEMMA MarkKeeps ==
    ASSUME NEW N, NEW R, NEW W, NEW t, TrackerOK(t, N, R, W), NEW ch \in Changes(N, R, W)
    PROVE  LET u == markDirtyChange(t, ch) IN
           /\ TrackerOK(u, N, R, W) /\ u.inFlight = t.inFlight
           /\ Dirty(u) \subseteq Dirty(t) \cup {ch.id}
<1> DEFINE u == markDirtyChange(t, ch)
<1>1. ch.id \in Entities
  BY DEF ChangeType, Changes
<1>2. CASE ~ch.full /\ ch.mask = {}
  BY <1>2 DEF markDirtyChange
<1>3. CASE ~(~ch.full /\ ch.mask = {}) /\ ch.id \in Dirty(t)
  <2>1. u = [t EXCEPT !.dirtySet[ch.id] = merged(@, ch)]
    BY <1>3 DEF markDirtyChange
  <2> DEFINE ds == [t.dirtySet EXCEPT ![ch.id] = merged(@, ch)]
  <2>2. u = [dirtySet |-> ds, dirtyQueue |-> t.dirtyQueue, inFlight |-> t.inFlight]
    BY <2>1 DEF TrackerOK
  <2>3. DOMAIN ds = Dirty(t) /\ DirtyOK(ds, Changes(N, R, W))
    <3>1. t.dirtySet[ch.id] \in Changes(N, R, W) /\ t.dirtySet[ch.id].id = ch.id
      BY <1>3 DEF TrackerOK, DirtyOK, Dirty
    <3>2. merged(t.dirtySet[ch.id], ch) \in Changes(N, R, W) /\ merged(t.dirtySet[ch.id], ch).id = ch.id
      BY <3>1, MergedType
    <3> QED
      BY <1>3, <3>2 DEF TrackerOK, DirtyOK, Dirty
  <2> HIDE DEF u, ds
  <2> QED
    BY <2>2, <2>3 DEF TrackerOK, Dirty, u
<1>4. CASE ~(~ch.full /\ ch.mask = {}) /\ ch.id \notin Dirty(t)
  <2> DEFINE c == compactDirtyQueueNow(t)
             ds == With(c.dirtySet, ch.id, ch)
             q == Append(c.dirtyQueue, ch.id)
  <2>1. u = [c EXCEPT !.dirtySet = ds, !.dirtyQueue = q]
    BY <1>4 DEF markDirtyChange
  <2>2. /\ TrackerOK(c, N, R, W) /\ c.dirtySet = t.dirtySet /\ c.inFlight = t.inFlight
        /\ c.dirtyQueue \in Seq(Dirty(t))
    BY CompactNowKeeps
  <2>3. u = [dirtySet |-> ds, dirtyQueue |-> q, inFlight |-> t.inFlight]
    <3> HIDE DEF c, ds, q
    <3> QED
      BY <2>1, <2>2 DEF TrackerOK
  <2>4. DOMAIN ds = Dirty(t) \cup {ch.id} /\ DirtyOK(ds, Changes(N, R, W))
    <3> HIDE DEF c
    <3> QED
      BY <1>1, <2>2 DEF With, TrackerOK, DirtyOK, Dirty
  <2>5. q \in Seq(Entities) /\ QueueOK(q, Dirty(t) \cup {ch.id})
    <3> HIDE DEF c
    <3>1. /\ c.dirtyQueue \in Seq(Entities) /\ Dirty(c) = Dirty(t)
          /\ \A e \in Dirty(t) : Once(c.dirtyQueue, Len(c.dirtyQueue), e)
      BY <2>2 DEF TrackerOK, QueueOK, Dirty
    <3>2. Nowhere(c.dirtyQueue, Len(c.dirtyQueue), ch.id)
      <4>1. \A j \in 1 .. Len(c.dirtyQueue) : c.dirtyQueue[j] \in Dirty(t)
        BY <2>2
      <4> QED
        BY <1>4, <4>1 DEF Nowhere
    <3>3. ASSUME NEW e \in Dirty(t) \cup {ch.id} PROVE Once(q, Len(q), e)
      <4> HIDE DEF q
      <4>1. CASE e = ch.id
        BY <1>1, <3>1, <3>2, <4>1, OnceGrows DEF q
      <4>2. CASE e # ch.id
        BY <1>1, <3>1, <4>2, OnceGrows DEF q
      <4> QED
        BY <4>1, <4>2
    <3> QED
      BY <1>1, <3>1, <3>3 DEF QueueOK
  <2> HIDE DEF u, ds, q
  <2> QED
    BY <2>3, <2>4, <2>5 DEF TrackerOK, Dirty, u
<1> QED
  BY <1>2, <1>3, <1>4

mark(env, t, ch) == markDirtyChange(t, ch)
Marking == INSTANCE LeftFold WITH Op <- mark
Requeueing == INSTANCE LeftFold WITH Op <- requeue

\* The loop over markDirtyChange of a tick's own changes.
LEMMA MarkAllKeeps ==
    ASSUME NEW N, NEW R, NEW W, NEW t, TrackerOK(t, N, R, W), NEW chs \in Seq(Changes(N, R, W))
    PROVE  LET u == markAll(t, chs) IN
           TrackerOK(u, N, R, W) /\ u.inFlight = t.inFlight
<1> DEFINE n == Len(chs)
<1>1. n \in Nat /\ DOMAIN chs = 1 .. n /\ \A i \in 1 .. n : chs[i] \in Changes(N, R, W)
  OBVIOUS
<1> HIDE DEF n
<1>2. n \in Nat /\ DOMAIN chs = 1 .. n
  BY <1>1
<1>3. PICK h : /\ h[0] = t /\ Marking!Fold(0, t, chs) = h[n]
              /\ \A i \in 1 .. n : h[i] = mark(0, h[i - 1], chs[i])
  <2>1. Marking!Induction
    BY NatSetInduction DEF Marking!Induction
  <2>2. \E h : Marking!Run(h, n, 0, t, chs)
    BY <1>2, <2>1, Marking!FoldRuns
  <2> QED
    BY <2>2 DEF Marking!Run
<1>4. markAll(t, chs) = h[n]
  <2>1. markAll(t, chs) = Marking!Fold(0, t, chs)
    BY DEF markAll, mark, FoldLeft, MapThenFoldSet, Max,
           Marking!Fold, Marking!Greatest
  <2> QED
    BY <1>3, <2>1
<1> DEFINE U == {i \in 0 .. n : TrackerOK(h[i], N, R, W) /\ h[i].inFlight = t.inFlight}
<1>5. 0 \in U
  BY <1>1, <1>3
<1>6. ASSUME NEW i \in 1 .. n, i - 1 \in U PROVE i \in U
  <2>1. i \in 0 .. n /\ TrackerOK(h[i - 1], N, R, W) /\ h[i - 1].inFlight = t.inFlight
    BY <1>1, <1>6
  <2>2. h[i] = markDirtyChange(h[i - 1], chs[i])
    BY <1>3 DEF mark
  <2> QED
    BY <1>1, <2>1, <2>2, MarkKeeps
<1> HIDE DEF U
<1>7. \A i \in 0 .. n : i \in U
  BY <1>1, <1>5, <1>6, UpTo
<1>8. n \in U
  BY <1>1, <1>7
<1> QED
  BY <1>4, <1>8 DEF U

\* dirtyChanges lists changes that may be owed.
LEMMA DirtyChangesType ==
    ASSUME NEW N, NEW R, NEW W, NEW t, TrackerOK(t, N, R, W)
    PROVE  dirtyChanges(t) \in Seq(Changes(N, R, W))
<1> DEFINE ids == DirtyOnly(t)
           n == Len(ids)
<1>1. n \in Nat /\ \A i \in 1 .. n : ids[i] \in Dirty(t)
  <2>1. ids \in Seq(Dirty(t))
    BY DirtyOnlyFacts
  <2> HIDE DEF ids
  <2> QED
    BY <2>1
<1>2. \A e \in Dirty(t) : t.dirtySet[e] \in Changes(N, R, W)
  BY DEF TrackerOK, DirtyOK, Dirty
<1>3. dirtyChanges(t) = [i \in 1 .. n |-> t.dirtySet[ids[i]]]
  BY DEF dirtyChanges
<1> HIDE DEF ids, n
<1>4. dirtyChanges(t) \in [1 .. n -> Changes(N, R, W)]
  BY <1>1, <1>2, <1>3
<1> QED
  BY <1>1, <1>4

\* Forgetting dirty changes: those that are left keep their place in the queue.
LEMMA ClearDirtyKeeps ==
    ASSUME NEW N, NEW R, NEW W, NEW t, TrackerOK(t, N, R, W), NEW ids
    PROVE  LET u == clearDirty(t, ids) IN
           /\ TrackerOK(u, N, R, W) /\ u.inFlight = t.inFlight
           /\ Dirty(u) = Dirty(t) \ ids /\ DirtyOK(u.dirtySet, Changes(N \ ids, R, W))
<1> DEFINE u == clearDirty(t, ids)
           ds == Drop(t.dirtySet, ids)
<1>1. u = [dirtySet |-> ds, dirtyQueue |-> t.dirtyQueue, inFlight |-> t.inFlight]
  BY DEF clearDirty, TrackerOK
<1>2. /\ DOMAIN ds = Dirty(t) \ ids
      /\ \A e \in DOMAIN ds : ds[e] = t.dirtySet[e]
  BY DEF Drop, Restrict, Dirty
<1> HIDE DEF u, ds
<1>3. DirtyOK(ds, Changes(N, R, W)) /\ DirtyOK(ds, Changes(N \ ids, R, W))
  BY <1>2 DEF TrackerOK, DirtyOK, Dirty, Changes
<1>4. QueueOK(t.dirtyQueue, DOMAIN ds)
  BY <1>2 DEF TrackerOK, QueueOK
<1> QED
  BY <1>1, <1>2, <1>3, <1>4 DEF TrackerOK, Dirty, u

\* markSent moves the changes of a datagram from dirty to in flight.
LEMMA MarkSentKeeps ==
    ASSUME NEW N, NEW R, NEW W, NEW t, TrackerOK(t, N, R, W), NEW token,
           NEW chs \in Seq(Changes(N, R, W)), chs # <<>>
    PROVE  TrackerOK(markSent(t, token, chs), N, R, W)
<1> DEFINE fl == With(t.inFlight, token, chs)
           u == [t EXCEPT !.inFlight = fl]
<1>1. u = [dirtySet |-> t.dirtySet, dirtyQueue |-> t.dirtyQueue, inFlight |-> fl]
  BY DEF TrackerOK
<1>2. FlightOK(fl, Changes(N, R, W))
  BY DEF With, TrackerOK, FlightOK
<1> HIDE DEF fl
<1>3. TrackerOK(u, N, R, W)
  <2> HIDE DEF u
  <2> QED
    BY <1>1, <1>2 DEF TrackerOK, Dirty
<1> DEFINE ids == {chs[i].id : i \in 1 .. Len(chs)}
<1>4. markSent(t, token, chs) = clearDirty(u, ids)
  BY DEF markSent, fl
<1> HIDE DEF u, ids
<1>5. TrackerOK(clearDirty(u, ids), N, R, W)
  BY <1>3, ClearDirtyKeeps
<1> QED
  BY <1>4, <1>5

\* clearEntities: nothing is owed for the entities forgotten, dirty or in flight.
LEMMA ClearEntitiesKeeps ==
    ASSUME NEW N, NEW R, NEW W, NEW t, TrackerOK(t, N, R, W), NEW ids
    PROVE  TrackerOK(clearEntities(t, ids), N \ ids, R, W)
<1> DEFINE kept(k) == Only(t.inFlight[k], {ch \in ToSet(t.inFlight[k]) : ch.id \notin ids})
           fl == [k \in {j \in DOMAIN t.inFlight : kept(j) # <<>>} |-> kept(k)]
           c == clearDirty(t, ids)
           u == clearEntities(t, ids)
<1>1. /\ TrackerOK(c, N, R, W) /\ Dirty(c) = Dirty(t) \ ids
      /\ DirtyOK(c.dirtySet, Changes(N \ ids, R, W))
  BY ClearDirtyKeeps
<1>2. u = [c EXCEPT !.inFlight = fl]
  BY DEF clearEntities
<1>3. ASSUME NEW k \in DOMAIN t.inFlight PROVE kept(k) \in Seq(Changes(N \ ids, R, W))
  <2> DEFINE s == t.inFlight[k]
             S == {ch \in ToSet(s) : ch.id \notin ids}
  <2>1. s \in Seq(Changes(N, R, W))
    BY DEF TrackerOK, FlightOK
  <2> HIDE DEF s
  <2>2. Only(s, S) \in Seq(Changes(N, R, W) \cap S)
    BY <2>1, OnlyFacts
  <2>3. Changes(N, R, W) \cap S \subseteq Changes(N \ ids, R, W)
    BY DEF Changes
  <2> HIDE DEF S
  <2>4. \A A, B : A \subseteq B => Seq(A) \subseteq Seq(B)
    OBVIOUS
  <2>5. Seq(Changes(N, R, W) \cap S) \subseteq Seq(Changes(N \ ids, R, W))
    BY <2>3, <2>4, Zenon
  <2>6. Only(s, S) \in Seq(Changes(N \ ids, R, W))
    BY <2>2, <2>5
  <2> QED
    BY <2>6 DEF s, S
<1>4. FlightOK(fl, Changes(N \ ids, R, W))
  <2> HIDE DEF kept
  <2> QED
    BY <1>3 DEF FlightOK
<1> HIDE DEF u, c, fl
<1>5. u = [dirtySet |-> c.dirtySet, dirtyQueue |-> c.dirtyQueue, inFlight |-> fl]
  BY <1>1, <1>2 DEF TrackerOK
<1>6. c.dirtyQueue \in Seq(Entities) /\ QueueOK(c.dirtyQueue, DOMAIN c.dirtySet)
  BY <1>1 DEF TrackerOK, Dirty
<1>7. TrackerOK(u, N \ ids, R, W)
  BY <1>1, <1>4, <1>5, <1>6 DEF TrackerOK, Dirty
<1> QED
  BY <1>7 DEF u

\* subtractNewerInFlight makes a change smaller, never less redacted.
LEMMA SubtractType ==
    ASSUME NEW N, NEW R, NEW W, NEW t, NEW lost, NEW ch \in Changes(N, R, W)
    PROVE  subtractNewerInFlight(t, lost, ch) \in Changes(N, R, W)
<1> DEFINE newer == {c \in UNION {ToSet(t.inFlight[k]) :
                               k \in {j \in DOMAIN t.inFlight : j > lost}} : c.id = ch.id}
           refreshed == \E c \in newer : c.full
           sent == UNION {c.mask : c \in newer}
           u == subtractNewerInFlight(t, lost, ch)
<1>1. u = IF ch.full THEN [ch EXCEPT !.full = ~refreshed]
          ELSE [ch EXCEPT !.mask = IF refreshed THEN {} ELSE @ \ sent]
  BY DEF subtractNewerInFlight
<1>2. (~refreshed) = (IF refreshed THEN FALSE ELSE TRUE)
  OBVIOUS
<1> HIDE DEF refreshed, sent, u
<1>3. /\ ch.id \in Entities /\ ch.mask \in SUBSET Fields /\ ch.full \in BOOLEAN
      /\ ch.public \in BOOLEAN
      /\ ch = [id |-> ch.id, mask |-> ch.mask, full |-> ch.full, public |-> ch.public]
      /\ ch.id \in N /\ (ch.id \in R => ch.public) /\ (ch.full => ch.id \in W)
  BY DEF Changes, ChangeType
<1>4. CASE ch.full
  <2> DEFINE again == IF refreshed THEN FALSE ELSE TRUE
  <2>1. u = [id |-> ch.id, mask |-> ch.mask, full |-> again, public |-> ch.public]
    BY <1>1, <1>2, <1>3, <1>4
  <2>2. again \in BOOLEAN
    OBVIOUS
  <2> HIDE DEF again
  <2> QED
    BY <1>3, <1>4, <2>1, <2>2 DEF Changes, ChangeType, u
<1>5. CASE ~ch.full
  <2> DEFINE m == IF refreshed THEN {} ELSE ch.mask \ sent
  <2>1. m \in SUBSET Fields
    BY <1>3
  <2>2. u = [id |-> ch.id, mask |-> m, full |-> ch.full, public |-> ch.public]
    BY <1>1, <1>3, <1>5
  <2> HIDE DEF m
  <2> QED
    BY <1>3, <2>1, <2>2 DEF Changes, ChangeType, u
<1> QED
  BY <1>3, <1>4, <1>5

\* What applyFeedback does with one change of a lost datagram.
LEMMA RequeueKeeps ==
    ASSUME NEW N, NEW R, NEW W, NEW base, TrackerOK(base, N, R, W), NEW left \in Seq(Changes(N, R, W)), NEW tk
    PROVE  TrackerOK(Requeueing!Fold(tk, base, left), N, R, W)
<1> DEFINE n == Len(left)
<1>1. n \in Nat /\ DOMAIN left = 1 .. n /\ \A i \in 1 .. n : left[i] \in Changes(N, R, W)
  OBVIOUS
<1> HIDE DEF n
<1>2. PICK h : /\ h[0] = base /\ Requeueing!Fold(tk, base, left) = h[n]
               /\ \A i \in 1 .. n : h[i] = requeue(tk, h[i - 1], left[i])
  <2>1. Requeueing!Induction
    BY NatSetInduction DEF Requeueing!Induction
  <2>2. \E h : Requeueing!Run(h, n, tk, base, left)
    BY <1>1, <2>1, Requeueing!FoldRuns
  <2> QED
    BY <2>2 DEF Requeueing!Run
<1> DEFINE U == {i \in 0 .. n : TrackerOK(h[i], N, R, W)}
<1>3. 0 \in U
  BY <1>1, <1>2
<1>4. ASSUME NEW i \in 1 .. n, i - 1 \in U PROVE i \in U
  <2>1. i \in 0 .. n /\ TrackerOK(h[i - 1], N, R, W)
    BY <1>1, <1>4
  <2>2. subtractNewerInFlight(h[i - 1], tk, left[i]) \in Changes(N, R, W)
    BY <1>1, SubtractType
  <2>3. h[i] = markDirtyChange(h[i - 1], subtractNewerInFlight(h[i - 1], tk, left[i]))
    BY <1>2 DEF requeue
  <2> QED
    BY <2>1, <2>2, <2>3, MarkKeeps
<1> HIDE DEF U
<1>5. \A i \in 0 .. n : i \in U
  BY <1>1, <1>3, <1>4, UpTo
<1>6. n \in U
  BY <1>1, <1>5
<1> QED
  BY <1>2, <1>6 DEF U

\* A verdict: what is owed again are changes that were owed before.
LEMMA FeedbackKeeps ==
    ASSUME NEW N, NEW R, NEW W, NEW t, TrackerOK(t, N, R, W), NEW f, NEW L
    PROVE  TrackerOK(applyFeedback(t, f, L), N, R, W)
<1> DEFINE fl == Drop(t.inFlight, {f.token})
           rest == [t EXCEPT !.inFlight = fl]
           base == compactDirtyQueueNow(rest)
           s == t.inFlight[f.token]
           left == Only(s, {ch \in ToSet(s) : ch.id \in L})
           tk == f.token
<1>1. CASE tk \notin DOMAIN t.inFlight
  BY <1>1 DEF applyFeedback
<1>2. CASE tk \in DOMAIN t.inFlight
  <2>1. FlightOK(fl, Changes(N, R, W))
    BY DEF Drop, Restrict, TrackerOK, FlightOK
  <2>2. rest = [dirtySet |-> t.dirtySet, dirtyQueue |-> t.dirtyQueue, inFlight |-> fl]
    <3> HIDE DEF fl
    <3> QED
      BY DEF TrackerOK
  <2>3. TrackerOK(rest, N, R, W)
    <3> HIDE DEF fl, rest
    <3> QED
      BY <2>1, <2>2 DEF TrackerOK, Dirty
  <2>4. TrackerOK(base, N, R, W)
    <3> HIDE DEF rest
    <3> QED
      BY <2>3, CompactNowKeeps
  <2>5. left \in Seq(Changes(N, R, W))
    <3>1. s \in Seq(Changes(N, R, W))
      BY <1>2 DEF TrackerOK, FlightOK
    <3> HIDE DEF s
    <3> DEFINE S == {ch \in ToSet(s) : ch.id \in L}
    <3>2. left \in Seq(Changes(N, R, W) \cap S)
      BY <3>1, OnlyFacts
    <3> HIDE DEF left, S
    <3> QED
      BY <3>2
  <2>6. applyFeedback(t, f, L) = IF f.delivered THEN rest ELSE Requeueing!Fold(tk, base, left)
    BY <1>2 DEF applyFeedback, FoldLeft, MapThenFoldSet, Max,
           Requeueing!Fold, Requeueing!Greatest
  <2> HIDE DEF rest, base, left, tk
  <2>7. TrackerOK(Requeueing!Fold(tk, base, left), N, R, W)
    BY <2>4, <2>5, RequeueKeeps
  <2> QED
    BY <2>3, <2>6, <2>7
<1> QED
  BY <1>1, <1>2

-----------------------------------------------------------------------------
(* What a pass sends, packed into datagrams. *)

markGroup(env, t, g) == markSent(t, g.token, g.changes)
Packing == INSTANCE LeftFold WITH Op <- markGroup
groupCount(len, b) == (len + b - 1) \div b
groupFirst(len, b, i) == (i - 1) * b + 1
groupLast(len, b, i) == IF i = groupCount(len, b) THEN len ELSE i * b

\* The groups of at most b frames start and end inside the list of frames.
LEMMA GroupBounds ==
    ASSUME NEW len \in Nat, NEW b \in Nat \ {0},
           NEW i \in 1 .. groupCount(len, b)
    PROVE  /\ groupFirst(len, b, i) \in 1 .. len /\ groupLast(len, b, i) \in 1 .. len
           /\ groupFirst(len, b, i) <= groupLast(len, b, i)
<1> DEFINE count == (len + b - 1) \div b
<1>1. groupCount(len, b) = count
  BY DEF groupCount
<1> DEFINE x == len + b - 1
<1>2. x \in Nat /\ b \in Nat /\ b > 0 /\ i \in Int /\ 1 <= i /\ i <= count
  BY <1>1
<1>3. count \in Int /\ x % b \in Int /\ x = b * count + (x % b) /\ 0 <= x % b /\ x % b < b
  BY <1>2
<1> DEFINE k == b * count
<1>4. k \in Int /\ k <= len + b - 1
  BY <1>2, <1>3
<1>5. (i - 1) * b = i * b - b /\ i * b \in Int /\ i * b >= b
  BY <1>2
<1>6. i * b <= k /\ (i # count => i * b + b <= k)
  <2>1. \A p, q \in Int : p <= q => b * p <= b * q
    BY <1>2
  <2>2. i * b = b * i /\ b * (i + 1) = b * i + b
    BY <1>2
  <2>3. b * i <= b * count
    BY <1>2, <1>3, <2>1
  <2>4. i # count => b * (i + 1) <= b * count
    <3>1. i # count => i + 1 <= count
      BY <1>2, <1>3
    <3> QED
      BY <1>2, <1>3, <2>1, <3>1
  <2> QED
    BY <2>2, <2>3, <2>4
<1> DEFINE j == i * b
<1> HIDE DEF x, k, j, count
<1>7. j \in Int /\ k \in Int /\ j >= b /\ k <= len + b - 1 /\ j <= k /\ (i # count => j + b <= k)
      /\ (i - 1) * b = j - b
  BY <1>4, <1>5, <1>6 DEF j
<1>8. CASE i = count
  BY <1>1, <1>7, <1>8 DEF groupFirst, groupLast
<1>9. CASE i # count
  BY <1>1, <1>7, <1>9 DEF j, groupFirst, groupLast
<1> QED
  BY <1>8, <1>9

Sent(C)      == {ch \in C : HasFrame(ch)}
Packable(C)  == {ch \in C : HasFrame(ch) /\ Fits(ch)}
FramesOf(C)  == {eventualFrameForChange(ch) : ch \in C}

\* One frame for each change, in order.
LEMMA EventualFramesType ==
    ASSUME NEW C, NEW chs \in Seq(C)
    PROVE  EventualFrames(chs) \in Seq(FramesOf(C)) /\ Len(EventualFrames(chs)) = Len(chs)
<1>1. Len(chs) \in Nat /\ \A i \in 1 .. Len(chs) : chs[i] \in C
  OBVIOUS
<1>2. EventualFrames(chs) \in [1 .. Len(chs) -> FramesOf(C)]
  BY <1>1 DEF EventualFrames, FramesOf
<1> QED
  BY <1>1, <1>2

\* What is sent: every frame is of a change that was to be sent, and the
\* tracker owes nothing it did not owe.
SendOK(sent, N, R, W) ==
    /\ TrackerOK(sent.tracker, N, R, W)
    /\ sent.frames \in Seq(FramesOf(Sent(Changes(N, R, W))))
    /\ \A p \in sent.packets : p.frames \in Seq(FramesOf(Packable(Changes(N, R, W))))
    /\ IsFiniteSet(sent.packets)

\* The loop of sendEventualStateChanges that records what each datagram carries.
LEMMA PackingKeeps ==
    ASSUME NEW N, NEW R, NEW W, NEW rest, TrackerOK(rest, N, R, W), NEW count \in Nat,
           NEW groups, DOMAIN groups = 1 .. count,
           \A i \in 1 .. count :
              groups[i].changes \in Seq(Changes(N, R, W)) /\ groups[i].changes # <<>>
    PROVE  TrackerOK(Packing!Fold(0, rest, groups), N, R, W)
<1>1. PICK h : /\ h[0] = rest /\ Packing!Fold(0, rest, groups) = h[count]
               /\ \A i \in 1 .. count : h[i] = markGroup(0, h[i - 1], groups[i])
  <2>1. Packing!Induction
    BY NatSetInduction DEF Packing!Induction
  <2>2. \E h : Packing!Run(h, count, 0, rest, groups)
    BY <2>1, Packing!FoldRuns
  <2> QED
    BY <2>2 DEF Packing!Run
<1> DEFINE U == {i \in 0 .. count : TrackerOK(h[i], N, R, W)}
<1>2. 0 \in U
  BY <1>1
<1>3. ASSUME NEW i \in 1 .. count, i - 1 \in U PROVE i \in U
  <2>1. i \in 0 .. count /\ TrackerOK(h[i - 1], N, R, W)
    BY <1>3
  <2>2. h[i] = markSent(h[i - 1], groups[i].token, groups[i].changes)
    BY <1>1 DEF markGroup
  <2>3. TrackerOK(h[i], N, R, W)
    BY <2>1, <2>2, MarkSentKeeps
  <2> QED
    BY <2>1, <2>3
<1> HIDE DEF U
<1>4. \A i \in 0 .. count : i \in U
  BY <1>2, <1>3, UpTo
<1>5. count \in U
  BY <1>4
<1> QED
  BY <1>1, <1>5 DEF U

\* The number of datagrams is a natural number.
LEMMA CountType ==
    ASSUME NEW len \in Nat, NEW b \in Nat \ {0}
    PROVE  (len + b - 1) \div b \in Nat
<1>1. len + b - 1 \in Nat /\ b \in Nat /\ b > 0
  OBVIOUS
<1> QED
  BY <1>1

\* sendEventualStateChanges: frames only of changes that are owed, in datagrams
\* only those that fit, and the tracker records what it sent.
LEMMA SendChangesKeeps ==
    ASSUME NEW N, NEW R, NEW W, NEW t, TrackerOK(t, N, R, W), NEW chs \in Seq(Changes(N, R, W)),
           scenario.budget \in Nat \ {0}
    PROVE  SendOK(sendEventualStateChanges(t, chs), N, R, W)
<1> DEFINE C == Changes(N, R, W)
           b == scenario.budget
           fit == Only(chs, {ch \in ToSet(chs) : HasFrame(ch) /\ Fits(ch)})
           slow == Only(chs, {ch \in ToSet(chs) : HasFrame(ch) /\ ~Fits(ch)})
           count == (Len(fit) + b - 1) \div b
           group(i) == SubSeq(fit, (i - 1) * b + 1, IF i = count THEN Len(fit) ELSE i * b)
           groups == [i \in 1 .. count |-> [token |-> nextToken + i, changes |-> group(i)]]
           given == {ch.id : ch \in {c \in ToSet(chs) : ~(HasFrame(c) /\ Fits(c))}}
           rest == clearDirty(t, given)
           packets == {[token |-> groups[i].token, frames |-> EventualFrames(groups[i].changes)] :
                       i \in 1 .. count}
           sent == sendEventualStateChanges(t, chs)
<1>1. sent = [tracker |-> Packing!Fold(0, rest, groups), frames |-> EventualFrames(slow),
              packets |-> packets]
  BY DEF sendEventualStateChanges, markGroup, FoldLeft, MapThenFoldSet, Max,
         Packing!Fold, Packing!Greatest
<1>2. fit \in Seq(Packable(C))
  <2> DEFINE S == {ch \in ToSet(chs) : HasFrame(ch) /\ Fits(ch)}
  <2>1. C \cap S \subseteq Packable(C)
    BY DEF Packable
  <2>2. Only(chs, S) \in Seq(C \cap S)
    BY OnlyFacts
  <2> HIDE DEF S, C
  <2>3. \A A, B : A \subseteq B => Seq(A) \subseteq Seq(B)
    OBVIOUS
  <2>4. Only(chs, S) \in Seq(Packable(C))
    BY <2>1, <2>2, <2>3
  <2> QED
    BY <2>4 DEF S
<1>3. slow \in Seq(Sent(C))
  <2> DEFINE S == {ch \in ToSet(chs) : HasFrame(ch) /\ ~Fits(ch)}
  <2>1. C \cap S \subseteq Sent(C)
    BY DEF Sent
  <2>2. Only(chs, S) \in Seq(C \cap S)
    BY OnlyFacts
  <2> HIDE DEF S, C
  <2>3. \A A, B : A \subseteq B => Seq(A) \subseteq Seq(B)
    OBVIOUS
  <2>4. Only(chs, S) \in Seq(Sent(C))
    BY <2>1, <2>2, <2>3
  <2> QED
    BY <2>4 DEF S
<1> HIDE DEF sent, fit, slow, given
<1>4. TrackerOK(rest, N, R, W)
  BY ClearDirtyKeeps
<1> HIDE DEF rest
<1>5. count \in Nat
  <2>1. Len(fit) \in Nat
    BY <1>2
  <2> HIDE DEF b
  <2> QED
    BY <2>1, CountType DEF b
<1>6. ASSUME NEW i \in 1 .. count
      PROVE  group(i) \in Seq(Packable(C)) /\ group(i) # <<>>
  <2> DEFINE from == (i - 1) * b + 1
             to == IF i = count THEN Len(fit) ELSE i * b
  <2>1. from \in 1 .. Len(fit) /\ to \in 1 .. Len(fit) /\ from <= to
    <3>1. Len(fit) \in Nat
      BY <1>2
    <3>2. count = groupCount(Len(fit), b)
      BY DEF groupCount
    <3>3. from = groupFirst(Len(fit), b, i) /\ to = groupLast(Len(fit), b, i)
      BY <3>2 DEF groupFirst, groupLast
    <3> HIDE DEF count, b, from, to
    <3> QED
      BY <3>1, <3>2, <3>3, GroupBounds DEF b
  <2> HIDE DEF from, to, C
  <2>2. \A k \in from .. to : fit[k] \in Packable(C)
    BY <1>2, <2>1
  <2>3. from \in Int /\ to \in Int
    BY <1>2, <2>1
  <2>4. /\ SubSeq(fit, from, to) \in Seq(Packable(C))
        /\ Len(SubSeq(fit, from, to)) = to - from + 1
    BY <2>1, <2>2, <2>3, SubSeqProperties
  <2>5. SubSeq(fit, from, to) # <<>>
    <3>1. Len(SubSeq(fit, from, to)) # 0 /\ Len(<<>>) = 0
      BY <2>1, <2>3, <2>4
    <3> QED
      BY <3>1
  <2> QED
    BY <2>4, <2>5 DEF from, to
<1> HIDE DEF count, group
<1>7. \A i \in 1 .. count : groups[i].changes = group(i)
  OBVIOUS
<1>8. DOMAIN groups = 1 .. count
  OBVIOUS
<1>9. IsFiniteSet(packets)
  <2> DEFINE F == [i \in 1 .. count |->
                     [token |-> groups[i].token, frames |-> EventualFrames(groups[i].changes)]]
  <2>1. IsFiniteSet(1 .. count)
    BY <1>5, FS_Interval
  <2> HIDE DEF groups
  <2>2. packets = {F[i] : i \in 1 .. count}
    OBVIOUS
  <2>3. F \in Surjection(1 .. count, packets)
    BY <2>2 DEF Surjection
  <2> HIDE DEF F, packets
  <2> QED
    BY <2>1, <2>3, FS_Surjection
<1>10. \A p \in packets : p.frames \in Seq(FramesOf(Packable(C)))
  <2>1. ASSUME NEW i \in 1 .. count
        PROVE EventualFrames(groups[i].changes) \in Seq(FramesOf(Packable(C)))
    <3> HIDE DEF groups, C
    <3> QED
      BY <1>6, <1>7, EventualFramesType
  <2> HIDE DEF groups, C
  <2> QED
    BY <2>1
<1>11. EventualFrames(slow) \in Seq(FramesOf(Sent(C)))
  <2> HIDE DEF C
  <2> QED
    BY <1>3, EventualFramesType
<1> HIDE DEF groups, packets
<1>12. TrackerOK(Packing!Fold(0, rest, groups), N, R, W)
  <2>1. ASSUME NEW i \in 1 .. count
        PROVE  groups[i].changes \in Seq(Changes(N, R, W)) /\ groups[i].changes # <<>>
    <3>1. Packable(C) \subseteq C
      BY DEF Packable
    <3> HIDE DEF C
    <3>2. group(i) \in Seq(C)
      BY <1>6, <3>1
    <3> QED
      BY <1>6, <1>7, <3>2 DEF C
  <2> QED
    BY <1>4, <1>5, <1>8, <2>1, PackingKeeps
<1> HIDE DEF C
<1> QED
  BY <1>1, <1>9, <1>10, <1>11, <1>12 DEF SendOK, sent, C

\* sendSessionEventualState and sendBlindEventualState, with and without older
\* changes to merge.
LEMMA SendStateKeeps ==
    ASSUME NEW N, NEW R, NEW W, NEW t, TrackerOK(t, N, R, W), NEW chs \in Seq(Changes(N, R, W)),
           scenario.budget \in Nat \ {0}
    PROVE  /\ SendOK(sendSessionEventualState(t, chs), N, R, W)
           /\ SendOK(sendBlindEventualState(t, chs), N, R, W)
<1>1. ASSUME NEW u, TrackerOK(u, N, R, W) PROVE SendOK(sendEventualState(u), N, R, W)
  <2> DEFINE s == sendEventualStateChanges(u, dirtyChanges(u))
  <2>1. SendOK(s, N, R, W)
    BY <1>1, DirtyChangesType, SendChangesKeeps
  <2>2. s = [tracker |-> s.tracker, frames |-> s.frames, packets |-> s.packets]
    BY DEF sendEventualStateChanges
  <2>3. sendEventualState(u) = [s EXCEPT !.tracker = compactDirtyQueue(s.tracker)]
    BY DEF sendEventualState
  <2> HIDE DEF s
  <2>4. sendEventualState(u) =
          [tracker |-> compactDirtyQueue(s.tracker), frames |-> s.frames, packets |-> s.packets]
    BY <2>2, <2>3
  <2>5. TrackerOK(compactDirtyQueue(s.tracker), N, R, W)
    BY <2>1, CompactKeeps DEF SendOK
  <2> QED
    BY <2>1, <2>4, <2>5 DEF SendOK
<1>2. TrackerOK(markAll(t, chs), N, R, W)
  BY MarkAllKeeps
<1>3. SendOK(sendEventualState(markAll(t, chs)), N, R, W)
  BY <1>1, <1>2
<1>4. SendOK(sendEventualStateChanges(t, chs), N, R, W)
  BY SendChangesKeeps
<1> QED
  BY <1>3, <1>4 DEF sendSessionEventualState, sendBlindEventualState

\* SetToSeq lists the elements of a set of entities.
LEMMA FramesOver ==
    ASSUME NEW S, S \subseteq Entities
    PROVE  /\ SetToSeq(S) \in Seq(S) /\ IsFiniteSet(S)
           /\ \A e \in S : \E i \in 1 .. Len(SetToSeq(S)) : SetToSeq(S)[i] = e
<1>1. IsFiniteSet(S)
  BY ReplicationAssumption, FS_Subset
<1>2. /\ Cardinality(S) \in Nat
      /\ SetToSeq(S) \in [1 .. Cardinality(S) -> S] /\ Len(SetToSeq(S)) = Cardinality(S)
      /\ \A x \in S : \E i \in 1 .. Cardinality(S) : SetToSeq(S)[i] = x
  BY <1>1, SetToSeqFacts
<1> QED
  BY <1>1, <1>2

\* A list of a set of entities has its elements.
LEMMA OrderFacts ==
    ASSUME NEW S, S \subseteq Entities, NEW order \in SetToSeqs(S)
    PROVE  order \in Seq(S)
<1>1. IsFiniteSet(S)
  BY ReplicationAssumption, FS_Subset
<1>2. Cardinality(S) \in Nat
  BY <1>1, FS_CardinalityType
<1>3. order \in [1 .. Cardinality(S) -> S]
  BY DEF SetToSeqs
<1> QED
  BY <1>2, <1>3

\* Of the entities of S, only those of W were flushed as a whole state.
Partial(S, W) == \A e \in S : e \in W \/ (e \in live /\ flushMask[e] # {})

\* The change of a delta, as it is and as one session gets it.
LEMMA DeltaChange ==
    ASSUME NEW e \in Entities, flushMask \in [Entities -> SUBSET Fields],
           Scoped \in BOOLEAN, NEW W, e \in W \/ (e \in live /\ flushMask[e] # {})
    PROVE  LET ch == eventualChangeForDelta(e) IN
           /\ ch \in ChangeType /\ ch.id = e
           /\ eventualChangeForSession(ch) \in ChangeType
           /\ eventualChangeForSession(ch).id = e
           /\ Scoped /\ ~Mine(e) => eventualChangeForSession(ch).public
           /\ ch.full => e \in W
           /\ eventualChangeForSession(ch).full => e \in W
<1> DEFINE ch == eventualChangeForDelta(e)
<1>1. ch \in ChangeType /\ ch.id = e /\ (ch.full => e \in W)
  BY DEF eventualChangeForDelta, Change, ChangeType
<1> HIDE DEF ch
<1>2. /\ eventualChangeForSession(ch) \in ChangeType /\ eventualChangeForSession(ch).id = e
      /\ Scoped /\ ~Mine(e) => eventualChangeForSession(ch).public
      /\ eventualChangeForSession(ch).full => e \in W
  BY <1>1 DEF eventualChangeForSession, Change, ChangeType
<1> QED
  BY <1>1, <1>2 DEF ch

\* The changes of a blind pass name what was flushed.
LEMMA BlindChangesType ==
    ASSUME NEW S, S \subseteq Entities, NEW order \in Seq(S),
           flushMask \in [Entities -> SUBSET Fields], NEW W, Partial(S, W)
    PROVE  [i \in 1 .. Len(order) |-> eventualChangeForDelta(order[i])] \in Seq(Changes(S, {}, W))
<1> DEFINE n == Len(order)
           chs == [i \in 1 .. n |-> eventualChangeForDelta(order[i])]
<1>1. n \in Nat /\ \A i \in 1 .. n : order[i] \in S /\ order[i] \in Entities
  OBVIOUS
<1>2. ASSUME NEW i \in 1 .. n PROVE eventualChangeForDelta(order[i]) \in Changes(S, {}, W)
  <2>1. /\ eventualChangeForDelta(order[i]) \in ChangeType
        /\ eventualChangeForDelta(order[i]).id = order[i]
        /\ eventualChangeForDelta(order[i]).full => order[i] \in W
    BY <1>1 DEF eventualChangeForDelta, Change, ChangeType, Partial
  <2> QED
    BY <1>1, <2>1 DEF Changes
<1> HIDE DEF n
<1>3. chs \in [1 .. n -> Changes(S, {}, W)]
  BY <1>2
<1> HIDE DEF chs
<1>4. chs \in Seq(Changes(S, {}, W))
  BY <1>1, <1>3
<1> QED
  BY <1>4 DEF chs, n

\* What one session gets names what it stays with, redacted unless it owns it.
LEMMA SessionChangesType ==
    ASSUME NEW S, S \subseteq Entities, NEW order \in Seq(S),
           flushMask \in [Entities -> SUBSET Fields], NEW R, NEW W, Partial(S, W),
           \A e \in R : Scoped /\ ~Mine(e)
    PROVE  SessionChanges(order) \in Seq(Changes(S, R, W))
<1> DEFINE n == Len(order)
           one(i) == eventualChangeForSession(eventualChangeForDelta(order[i]))
           chs == [i \in 1 .. n |-> one(i)]
<1>1. n \in Nat /\ \A i \in 1 .. n : order[i] \in S /\ order[i] \in Entities
  OBVIOUS
<1>2. ASSUME NEW i \in 1 .. n PROVE one(i) \in Changes(S, R, W)
  <2>1. /\ one(i) \in ChangeType /\ one(i).id = order[i]
        /\ Scoped /\ ~Mine(order[i]) => one(i).public
        /\ one(i).full => order[i] \in W
    BY <1>1, DeltaChange DEF Scoped, Partial
  <2> QED
    BY <1>1, <2>1 DEF Changes
<1>3. SessionChanges(order) = Only(chs, {ch \in ToSet(chs) : ch.full \/ ch.mask # {}})
  BY DEF SessionChanges
<1> DEFINE keepers == {ch \in ToSet(chs) : ch.full \/ ch.mask # {}}
<1> HIDE DEF n, one
<1>4. chs \in [1 .. n -> Changes(S, R, W)]
  BY <1>2
<1> HIDE DEF chs
<1>5. chs \in Seq(Changes(S, R, W))
  BY <1>1, <1>4
<1> HIDE DEF keepers
<1>6. Only(chs, keepers) \in Seq(Changes(S, R, W) \cap keepers)
  BY <1>5, OnlyFacts
<1>7. \A A, B : A \subseteq B => Seq(A) \subseteq Seq(B)
  OBVIOUS
<1>8. Only(chs, keepers) \in Seq(Changes(S, R, W))
  BY <1>6, <1>7
<1> QED
  BY <1>3, <1>8 DEF keepers

-----------------------------------------------------------------------------
(* Owner-only fields: the invariant, and one lemma for each action. *)

\* The owner the session was last told of: a change of owner waits in refresh.
OldOwner(e) == IF e \in DOMAIN refresh THEN refresh[e].clear ELSE owner[e]
\* What is recorded of a removal: IDs are never used again.
Removal == [id : born \ live, rev : Nat]
BasicOK ==
    /\ scenario \in Scenarios
    /\ live \subseteq born /\ born \subseteq Entities
    /\ owner \in [Entities -> Owners]
    /\ fdirty \in [Entities -> SUBSET Fields] /\ flushMask \in [Entities -> SUBSET Fields]
    /\ rev \in [Entities -> Nat]
    /\ spawned \subseteq born /\ despawned \in Seq(Removal)
RefreshOK ==
    /\ DOMAIN refresh \subseteq born /\ (~Scoped => DOMAIN refresh = {})
    /\ \A e \in DOMAIN refresh : e \in live => refresh[e].new = owner[e]

\* Entities a change owed to the session may name, and those the session was
\* last told it does not own.
Owed ==
    {e \in born : /\ sess = "live"
                  /\ Scoped /\ e \in live => e \in known /\ (pass # NoPass => pass.filter)}
Strangers == {e \in live : Scoped /\ OldOwner(e) # "me"}
PassFields == {"at", "filter", "spawns", "deltas", "removals", "read", "removed"}
RemovalsOK ==
    pass # NoPass =>
        /\ PassFields \subseteq DOMAIN pass /\ pass.at = "send"
        /\ pass.removals \in Seq(Removal) /\ pass.read \in Nat
        /\ DOMAIN pass.removed \subseteq born \ live
        /\ \A e \in DOMAIN pass.removed : pass.removed[e] \in Nat
PassOK ==
    pass # NoPass =>
        /\ DOMAIN pass.spawns \subseteq born /\ DOMAIN pass.deltas \subseteq born
        /\ \A e \in DOMAIN pass.spawns : pass.spawns[e].id = e
        /\ pass.filter \in BOOLEAN
        /\ Scoped /\ ~pass.filter => DOMAIN pass.deltas = {} /\ DOMAIN pass.spawns \cap live = {}
StreamOK == \E X : stream \in Seq(X)
VerdictsOK == \E X : msgQueue \in Seq(X)
OwnerInv ==
    /\ BasicOK /\ RefreshOK /\ RemovalsOK /\ PassOK /\ StreamOK /\ VerdictsOK /\ known \subseteq born
    /\ TrackerOK(tracker, Owed, Strangers, Entities)
NoLeak(fr) ==
    fr.id \in live =>
        \A f \in DOMAIN fr.vals \cap scenario.private : fr.vals[f] # 0 => Mine(fr.id)

\* A step that leaves the tracker alone.
LEMMA TrackerStays ==
    ASSUME TrackerOK(tracker, Owed, Strangers, Entities), tracker' = tracker,
           Owed \subseteq Owed', Owed \cap Strangers' \subseteq Strangers
    PROVE  TrackerOK(tracker', Owed', Strangers', Entities)
  BY ChangesGrow

GameAction ==
    \/ \E e \in Entities, f \in Fields : SetField(e, f)
    \/ \E e \in Entities, o \in Owners : CreateEntity(e, o)
    \/ \E e \in Entities : DeleteEntity(e)
    \/ \E e \in Entities, o \in Owners : SetOwner(e, o)
    \/ \E e \in Entities, in \in BOOLEAN : SetEntityVisibilityGroup(e, in)
    \/ SetMember

\* Deletions may write over the removals of a pass that was flushed, but leave
\* the rest of it alone.
SamePass ==
    /\ (pass' = NoPass) <=> (pass = NoPass)
    /\ pass # NoPass =>
        /\ PassFields \subseteq DOMAIN pass'
        /\ pass'.at = pass.at /\ pass'.filter = pass.filter /\ pass'.spawns = pass.spawns
        /\ pass'.deltas = pass.deltas /\ pass'.read = pass.read /\ pass'.removed = pass.removed
        /\ Len(pass'.removals) = Len(pass.removals) /\ pass'.removals \in Seq(Removal')

\* Game code changes nothing the session was told: in particular a change of
\* owner is remembered until a pass takes it.
GameKeepsOwners ==
    /\ BasicOK' /\ RefreshOK'
    /\ born \subseteq born' /\ live' \cap born \subseteq live
    /\ Scoped => \A e \in live' \cap born : OldOwner(e)' = OldOwner(e)
    /\ SamePass
    /\ UNCHANGED <<scenario, sess, known, tracker, stream, net, msgQueue>>

\* Most of it leaves the flushed pass as it is.
LEMMA PassStays ==
    ASSUME RemovalsOK, pass' = pass, born \subseteq born', live' \cap born \subseteq live
    PROVE  SamePass
<1>1. Removal \subseteq Removal'
  BY DEF Removal
<1>2. Seq(Removal) \subseteq Seq(Removal')
  BY <1>1
<1> QED
  BY <1>2 DEF RemovalsOK, PassOK, SamePass

\* A deletion takes the next place in the registry's list of removals, which the
\* pass under way may hold as well.
LEMMA DespawnKeeps ==
    ASSUME BasicOK, RemovalsOK, NEW e \in live, live' = live \ {e}, born' = born,
           Despawn([id |-> e, rev |-> removalRevision(e)])
    PROVE  despawned' \in Seq(Removal') /\ SamePass
<1> DEFINE r == [id |-> e, rev |-> removalRevision(e)]
           slot == Len(despawned) + 1
<1>1. Removal \subseteq Removal' /\ r \in Removal'
  BY DEF Removal, BasicOK, removalRevision
<1>2. Seq(Removal) \subseteq Seq(Removal')
  BY <1>1
<1>3. despawned' = Append(despawned, r)
  BY DEF Despawn
<1> HIDE DEF r
<1>4. despawned' \in Seq(Removal')
  BY <1>1, <1>2, <1>3 DEF BasicOK
<1>5. CASE pass # NoPass /\ slot \in DOMAIN pass.removals
  <2>1. pass' = [pass EXCEPT !.removals[slot] = r]
    BY <1>5 DEF Despawn, r
  <2>2. PassFields \subseteq DOMAIN pass /\ pass.at = "send" /\ pass.removals \in Seq(Removal)
    BY <1>5 DEF RemovalsOK, PassOK
  <2>3. /\ DOMAIN pass' = DOMAIN pass
        /\ pass'.at = pass.at /\ pass'.filter = pass.filter /\ pass'.spawns = pass.spawns
        /\ pass'.deltas = pass.deltas /\ pass'.read = pass.read /\ pass'.removed = pass.removed
        /\ pass'.removals = [pass.removals EXCEPT ![slot] = r]
    BY <2>1, <2>2 DEF PassFields
  <2>4. pass.removals \in Seq(Removal')
    BY <1>2, <2>2
  <2>5. Len(pass'.removals) = Len(pass.removals) /\ pass'.removals \in Seq(Removal')
    BY <1>1, <1>5, <2>3, <2>4
  <2>6. pass' # NoPass
    BY <2>2, <2>3 DEF NoPass
  <2> QED
    BY <1>4, <1>5, <2>2, <2>3, <2>5, <2>6 DEF SamePass
<1>6. CASE ~(pass # NoPass /\ slot \in DOMAIN pass.removals)
  <2>1. pass' = pass
    BY <1>6 DEF Despawn
  <2> QED
    BY <1>4, <2>1, PassStays
<1> QED
  BY <1>5, <1>6

\* Registry.SetOwner: refresh still holds the owner the session was last told
\* of, through any number of changes of owner.
LEMMA SetOwnerKeeps ==
    ASSUME BasicOK, RefreshOK, RemovalsOK, NEW e \in Entities, NEW o \in Owners, SetOwner(e, o)
    PROVE  GameKeepsOwners
<1>1. /\ e \in live /\ owner' = [owner EXCEPT ![e] = o]
      /\ refresh' = IF Scoped THEN queueOwnershipRefresh(e, owner[e], o) ELSE refresh
      /\ UNCHANGED <<scenario, live, born, rev, fdirty, flushMask, spawned, despawned, pass, sess, known,
                     tracker, stream, net, msgQueue>>
  BY DEF SetOwner, Owns, sendVars
<1>2. BasicOK' /\ SamePass
  BY <1>1, PassStays DEF BasicOK, Removal
<1> DEFINE c == IF e \in DOMAIN refresh THEN refresh[e].clear ELSE owner[e]
<1>3. c = OldOwner(e)
  BY DEF OldOwner
<1> HIDE DEF c
<1>4. ASSUME Scoped
      PROVE  refresh' = IF c = o THEN Drop(refresh, {e})
                        ELSE With(refresh, e, [clear |-> c, new |-> o])
  BY <1>1, <1>4 DEF queueOwnershipRefresh, c
<1>5. RefreshOK' /\ (Scoped => \A x \in live' \cap born : OldOwner(x)' = OldOwner(x))
  <2>1. CASE ~Scoped
    BY <1>1, <2>1 DEF RefreshOK, Scoped
  <2>2. CASE Scoped /\ c = o
    <3>1. refresh' = Drop(refresh, {e})
      BY <1>4, <2>2
    <3>2. DOMAIN refresh' = DOMAIN refresh \ {e} /\ \A x \in DOMAIN refresh' : refresh'[x] = refresh[x]
      BY <3>1 DEF Drop, Restrict
    <3>3. \A x \in Entities : owner'[x] = IF x = e THEN o ELSE owner[x]
      BY <1>1 DEF BasicOK
    <3> QED
      BY <1>1, <1>3, <2>2, <3>2, <3>3 DEF RefreshOK, Scoped, OldOwner, BasicOK
  <2>3. CASE Scoped /\ c # o
    <3>1. refresh' = With(refresh, e, [clear |-> c, new |-> o])
      BY <1>4, <2>3
    <3>2. /\ DOMAIN refresh' = DOMAIN refresh \cup {e}
          /\ refresh'[e].clear = c /\ refresh'[e].new = o
          /\ \A x \in DOMAIN refresh : x # e => refresh'[x] = refresh[x]
      BY <3>1 DEF With
    <3>3. \A x \in Entities : owner'[x] = IF x = e THEN o ELSE owner[x]
      BY <1>1 DEF BasicOK
    <3> QED
      BY <1>1, <1>3, <3>2, <3>3 DEF RefreshOK, Scoped, OldOwner, BasicOK
  <2> QED
    BY <2>1, <2>2, <2>3
<1> QED
  BY <1>1, <1>2, <1>5 DEF GameKeepsOwners

\* Game code leaves what is owed and sent alone, and nobody loses an entity
\* without an ownership refresh.
LEMMA GameKeeps ==
    ASSUME BasicOK, RefreshOK, RemovalsOK, GameAction
    PROVE  GameKeepsOwners
<1>1. ASSUME NEW e \in Entities, NEW f \in Fields, SetField(e, f) PROVE GameKeepsOwners
  <2>1. /\ fdirty' = [fdirty EXCEPT ![e] = @ \cup {f}] /\ rev' = [rev EXCEPT ![e] = @ + 1]
        /\ UNCHANGED <<scenario, live, born, flushMask, owner, refresh, spawned, despawned, pass, sess,
                       known, tracker, stream, net, msgQueue>>
    BY <1>1 DEF SetField, sendVars
  <2>2. BasicOK' /\ RefreshOK'
    BY <2>1 DEF BasicOK, RefreshOK, Scoped, Removal
  <2>3. \A x : OldOwner(x)' = OldOwner(x)
    BY <2>1 DEF OldOwner
  <2> QED
    BY <2>1, <2>2, <2>3, PassStays DEF GameKeepsOwners
<1>2. ASSUME NEW e \in Entities, NEW o \in Owners, CreateEntity(e, o) PROVE GameKeepsOwners
  <2>1. /\ e \notin born /\ live' = live \cup {e} /\ born' = born \cup {e}
        /\ owner' = [owner EXCEPT ![e] = o] /\ spawned' = spawned \cup {e}
        /\ UNCHANGED <<scenario, rev, fdirty, flushMask, refresh, despawned, pass, sess, known, tracker, stream,
                       net, msgQueue>>
    BY <1>2 DEF CreateEntity, sendVars
  <2>2. \A x \in Entities : x # e => owner'[x] = owner[x]
    BY <2>1 DEF BasicOK
  <2>3. BasicOK' /\ RefreshOK'
    <3>1. Removal \subseteq Removal'
      BY <2>1 DEF Removal, BasicOK
    <3>2. Seq(Removal) \subseteq Seq(Removal')
      BY <3>1
    <3> QED
      BY <2>1, <2>2, <3>2 DEF BasicOK, RefreshOK, Scoped
  <2>4. \A x \in born : OldOwner(x)' = OldOwner(x)
    BY <2>1, <2>2 DEF OldOwner, BasicOK
  <2> QED
    BY <2>1, <2>3, <2>4, PassStays DEF GameKeepsOwners, BasicOK
<1>3. ASSUME NEW e \in Entities, DeleteEntity(e) PROVE GameKeepsOwners
  <2>1. /\ e \in live /\ live' = live \ {e} /\ owner' = [owner EXCEPT ![e] = "none"]
        /\ Despawn([id |-> e, rev |-> removalRevision(e)])
        /\ UNCHANGED <<scenario, born, rev, fdirty, flushMask, refresh, spawned, sess, known,
                       tracker, stream, net, msgQueue>>
    BY <1>3 DEF DeleteEntity, sendVars
  <2>2. \A x \in Entities : x # e => owner'[x] = owner[x]
    BY <2>1 DEF BasicOK
  <2>3. despawned' \in Seq(Removal') /\ SamePass
    BY <2>1, DespawnKeeps
  <2>4. BasicOK' /\ RefreshOK'
    BY <2>1, <2>2, <2>3 DEF BasicOK, RefreshOK, Owners, Scoped
  <2>5. \A x \in live' : OldOwner(x)' = OldOwner(x)
    BY <2>1, <2>2 DEF OldOwner, BasicOK
  <2> QED
    BY <2>1, <2>3, <2>4, <2>5 DEF GameKeepsOwners, BasicOK
<1>4. ASSUME NEW e \in Entities, NEW o \in Owners, SetOwner(e, o) PROVE GameKeepsOwners
  BY <1>4, SetOwnerKeeps
<1>5. ASSUME \/ \E e \in Entities, in \in BOOLEAN : SetEntityVisibilityGroup(e, in)
             \/ SetMember
      PROVE  GameKeepsOwners
  <2>1. UNCHANGED <<scenario, live, born, rev, fdirty, flushMask, owner, refresh, spawned, despawned, pass, sess,
                    known, tracker, stream, net, msgQueue>>
    BY <1>5 DEF SetEntityVisibilityGroup, SetMember, sendVars
  <2>2. BasicOK' /\ RefreshOK'
    BY <2>1 DEF BasicOK, RefreshOK, Scoped, Removal
  <2>3. \A x : OldOwner(x)' = OldOwner(x)
    BY <2>1 DEF OldOwner
  <2> QED
    BY <2>1, <2>2, <2>3, PassStays DEF GameKeepsOwners
<1> QED
  BY <1>1, <1>2, <1>3, <1>4, <1>5 DEF GameAction

\* Game code keeps the invariant.
LEMMA GameKeepsInv ==
    ASSUME OwnerInv, GameAction
    PROVE  OwnerInv'
<1>1. GameKeepsOwners
  BY GameKeeps DEF OwnerInv
<1>2. RemovalsOK' /\ PassOK'
  BY <1>1 DEF OwnerInv, RemovalsOK, PassOK, BasicOK, GameKeepsOwners, SamePass, Scoped
<1>3. Owed \subseteq Owed'
  BY <1>1 DEF Owed, GameKeepsOwners, SamePass, Scoped
<1>4. Owed \cap Strangers' \subseteq Strangers
  BY <1>1 DEF Owed, Strangers, GameKeepsOwners, Scoped
<1>5. TrackerOK(tracker', Owed', Strangers', Entities)
  BY <1>1, <1>3, <1>4, TrackerStays DEF GameKeepsOwners, OwnerInv
<1>6. StreamOK'
  BY <1>1 DEF OwnerInv, StreamOK, GameKeepsOwners
<1>7. VerdictsOK'
  BY <1>1 DEF OwnerInv, VerdictsOK, GameKeepsOwners
<1> QED
  BY <1>1, <1>2, <1>5, <1>6, <1>7 DEF OwnerInv, GameKeepsOwners

NoLeaks == \A fr \in NewFrames : NoLeak(fr)

\* What was put on the stream is what is new there.
LEMMA SentFrames ==
    ASSUME StreamOK, NEW A, NEW all \in Seq(A), stream' = stream \o all
    PROVE  /\ StreamOK'
           /\ \A fr \in ToSet(IF Len(stream') > Len(stream)
                              THEN SubSeq(stream', Len(stream) + 1, Len(stream')) ELSE <<>>) : fr \in A
<1>1. PICK X : stream \in Seq(X)
  BY DEF StreamOK
<1>2. stream \in Seq(X \cup A) /\ all \in Seq(X \cup A)
  BY <1>1
<1>3. /\ stream' \in Seq(X \cup A) /\ Len(stream') = Len(stream) + Len(all)
      /\ Len(stream) \in Nat /\ Len(all) \in Nat
      /\ \A i \in 1 .. Len(all) : stream'[Len(stream) + i] = all[i]
  BY <1>2, ConcatProperties
<1>4. StreamOK'
  BY <1>3 DEF StreamOK
<1> DEFINE m == Len(stream) + 1
           n == Len(stream')
           new == SubSeq(stream', m, n)
<1>5. CASE Len(all) = 0
  <2>1. ~(Len(stream') > Len(stream))
    BY <1>3, <1>5
  <2>2. ToSet(<<>>) = {}
    BY DEF ToSet
  <2> QED
    BY <1>4, <2>1, <2>2
<1>6. CASE Len(all) > 0
  <2>1. ASSUME NEW i \in m .. n PROVE stream'[i] \in A
    <3>1. i - Len(stream) \in 1 .. Len(all) /\ Len(stream) + (i - Len(stream)) = i
      BY <1>3
    <3>2. stream'[i] = all[i - Len(stream)]
      BY <1>3, <3>1
    <3> QED
      BY <3>1, <3>2
  <2>2. m \in Int /\ n \in Int
    BY <1>3
  <2> HIDE DEF m, n
  <2>3. new \in Seq(A)
    BY <2>1, <2>2, SubSeqProperties
  <2> HIDE DEF new
  <2>4. \A fr \in ToSet(new) : fr \in A
    BY <2>3 DEF ToSet
  <2>5. (IF Len(stream') > Len(stream) THEN SubSeq(stream', Len(stream) + 1, Len(stream')) ELSE <<>>)
          = new
    BY <1>3, <1>6 DEF new, m, n
  <2> QED
    BY <1>4, <2>4, <2>5
<1> QED
  BY <1>3, <1>5, <1>6

\* A step that puts nothing on the stream or the network sends no frame.
LEMMA NoNewFrames ==
    ASSUME net' \subseteq net, StreamOK, stream' = stream \/ (stream # <<>> /\ stream' = Tail(stream))
    PROVE  StreamOK' /\ NewFrames = {}
<1>1. PICK X : stream \in Seq(X)
  BY DEF StreamOK
<1>2. stream' \in Seq(X) /\ ~(Len(stream') > Len(stream))
  BY <1>1
<1>3. NewFrames = {}
  BY <1>2 DEF NewFrames, ToSet
<1> QED
  BY <1>2, <1>3 DEF StreamOK

\* A frame for a change of someone else's entity is redacted.
LEMMA FrameSafe ==
    ASSUME NEW N, NEW R, NEW W, \A e \in N \cap live : Scoped /\ ~Mine(e) => e \in R,
           NEW fr \in FramesOf(Sent(Changes(N, R, W)))
    PROVE  NoLeak(fr)
<1>1. PICK ch \in Changes(N, R, W) : HasFrame(ch) /\ fr = eventualFrameForChange(ch)
  BY DEF FramesOf, Sent
<1>2. ch.id \in live /\ ch.id \in N /\ (ch.id \in R => ch.public)
  BY <1>1 DEF HasFrame, Changes
<1>3. fr.id = ch.id
  BY <1>1 DEF eventualFrameForChange, PublicFullUpdate, FullUpdate, DeltaOf, Frame
<1>4. CASE ~ch.public
  <2>1. ~Scoped \/ Mine(fr.id)
    BY <1>2, <1>3, <1>4
  <2> QED
    BY <2>1 DEF NoLeak, Scoped
<1>5. CASE ch.public /\ ch.full
  <2>1. fr = PublicFullUpdate(ch.id)
    BY <1>1, <1>5 DEF eventualFrameForChange
  <2>2. fr.vals = [f \in Fields |-> IF f \in scenario.private THEN 0 ELSE val[ch.id][f]]
    BY <2>1 DEF PublicFullUpdate, Frame
  <2> QED
    BY <2>2 DEF NoLeak
<1>6. CASE ch.public /\ ~ch.full
  <2>1. fr.vals = Restrict(val[ch.id], ch.mask \ scenario.private)
    BY <1>1, <1>6 DEF eventualFrameForChange, DeltaOf, Frame, SentMask
  <2>2. DOMAIN fr.vals \cap scenario.private = {}
    BY <2>1 DEF Restrict
  <2> QED
    BY <2>2 DEF NoLeak
<1> QED
  BY <1>4, <1>5, <1>6

\* What one send adds to the session's stream and datagrams is among the frames
\* of the pass and of the changes owed.
LEMMA SendInto ==
    ASSUME StreamOK, NEW frames, NEW A, frames \in Seq(A), NEW sent, NEW N, NEW R, NEW W, SendOK(sent, N, R, W),
           Send(frames, sent)
    PROVE  /\ StreamOK' /\ TrackerOK(tracker', N, R, W)
           /\ NewFrames \subseteq A \cup FramesOf(Sent(Changes(N, R, W)))
<1> DEFINE B == FramesOf(Sent(Changes(N, R, W)))
           all == frames \o sent.frames
<1>1. /\ stream' = stream \o all /\ tracker' = sent.tracker /\ net' = net \cup sent.packets
  BY DEF Send
<1>2. all \in Seq(A \cup B)
  <2>1. sent.frames \in Seq(B)
    BY DEF SendOK
  <2> HIDE DEF B
  <2>2. frames \in Seq(A \cup B) /\ sent.frames \in Seq(A \cup B)
    BY <2>1
  <2> QED
    BY <2>2, ConcatProperties
<1>3. \A p \in sent.packets : \A fr \in ToSet(p.frames) : fr \in B
  <2>1. Packable(Changes(N, R, W)) \subseteq Sent(Changes(N, R, W))
    BY DEF Packable, Sent
  <2>2. FramesOf(Packable(Changes(N, R, W))) \subseteq B
    BY <2>1 DEF FramesOf
  <2> HIDE DEF B
  <2>3. ASSUME NEW p \in sent.packets PROVE \A fr \in ToSet(p.frames) : fr \in B
    <3>1. p.frames \in Seq(FramesOf(Packable(Changes(N, R, W))))
      BY DEF SendOK
    <3>2. \A fr \in ToSet(p.frames) : fr \in FramesOf(Packable(Changes(N, R, W)))
      BY <3>1 DEF ToSet
    <3> QED
      BY <2>2, <3>2
  <2> QED
    BY <2>3
<1> HIDE DEF B, all
<1>4. /\ StreamOK'
      /\ \A fr \in ToSet(IF Len(stream') > Len(stream)
                              THEN SubSeq(stream', Len(stream) + 1, Len(stream')) ELSE <<>>) :
            fr \in A \cup B
  BY <1>1, <1>2, SentFrames
<1>5. NewFrames \subseteq A \cup B
  <2>1. ASSUME NEW fr \in NewFrames PROVE fr \in A \cup B
    <3> DEFINE added == ToSet(IF Len(stream') > Len(stream)
                            THEN SubSeq(stream', Len(stream) + 1, Len(stream')) ELSE <<>>)
         datagrams == UNION {ToSet(d.frames) : d \in net' \ net}
    <3>1. NewFrames = datagrams \cup added
      BY Zenon DEF NewFrames
    <3>2. fr \in added => fr \in A \cup B
      BY <1>4
    <3> HIDE DEF added, datagrams
    <3>3. fr \in datagrams \/ fr \in added
      BY <3>1
    <3>4. CASE fr \in datagrams
      <4>1. PICK d \in net' \ net : fr \in ToSet(d.frames)
        BY <3>4 DEF datagrams
      <4>2. d \in sent.packets
        BY <1>1
      <4> QED
        BY <1>3, <4>1, <4>2
    <3> QED
      BY <3>3, <3>2, <3>4
  <2> QED
    BY <2>1
<1> QED
  BY <1>1, <1>4, <1>5 DEF SendOK, B

\* A pass that sends safe frames, and the changes of a right tracker, shows the
\* session no owner-only value of an entity it does not own.
LEMMA SendSafe ==
    ASSUME StreamOK, NEW frames, NEW A, frames \in Seq(A), NEW sent, NEW N, NEW R, NEW W, SendOK(sent, N, R, W),
           Send(frames, sent), \A fr \in A : NoLeak(fr),
           \A e \in N \cap live : Scoped /\ ~Mine(e) => e \in R
    PROVE  StreamOK' /\ NoLeaks /\ TrackerOK(tracker', N, R, W)
<1> DEFINE B == FramesOf(Sent(Changes(N, R, W)))
<1>1. \A fr \in B : NoLeak(fr)
  BY FrameSafe
<1>2. StreamOK' /\ TrackerOK(tracker', N, R, W) /\ NewFrames \subseteq A \cup B
  BY SendInto
<1> HIDE DEF B
<1> QED
  BY <1>1, <1>2 DEF NoLeaks

drain(lv, t, f) == applyFeedback(t, f, lv)
Draining == INSTANCE LeftFold WITH Op <- drain

\* The loop of drainMessages over the queued verdicts.
LEMMA DrainKeeps ==
    ASSUME NEW N, NEW R, NEW W, NEW t, TrackerOK(t, N, R, W), NEW X, NEW q \in Seq(X), NEW L
    PROVE  TrackerOK(Draining!Fold(L, t, q), N, R, W)
<1> DEFINE n == Len(q)
<1>1. n \in Nat /\ DOMAIN q = 1 .. n
  OBVIOUS
<1> HIDE DEF n
<1>2. PICK h : /\ h[0] = t /\ Draining!Fold(L, t, q) = h[n]
               /\ \A i \in 1 .. n : h[i] = drain(L, h[i - 1], q[i])
  <2>1. Draining!Induction
    BY NatSetInduction DEF Draining!Induction
  <2>2. \E h : Draining!Run(h, n, L, t, q)
    BY <1>1, <2>1, Draining!FoldRuns
  <2> QED
    BY <2>2 DEF Draining!Run
<1> DEFINE U == {i \in 0 .. n : TrackerOK(h[i], N, R, W)}
<1>3. 0 \in U
  BY <1>1, <1>2
<1>4. ASSUME NEW i \in 1 .. n, i - 1 \in U PROVE i \in U
  <2>1. i \in 0 .. n /\ TrackerOK(h[i - 1], N, R, W)
    BY <1>1, <1>4
  <2>2. h[i] = applyFeedback(h[i - 1], q[i], L)
    BY <1>2 DEF drain
  <2> QED
    BY <2>1, <2>2, FeedbackKeeps
<1> HIDE DEF U
<1>5. \A i \in 0 .. n : i \in U
  BY <1>1, <1>3, <1>4, UpTo
<1>6. n \in U
  BY <1>1, <1>5
<1> QED
  BY <1>2, <1>6 DEF U

\* DrainMessages, with the registry as it is when the verdicts are read.
LEMMA DrainMessagesTracker ==
    ASSUME NEW N, NEW R, NEW W, TrackerOK(tracker, N, R, W), VerdictsOK, DrainMessages
    PROVE  TrackerOK(tracker', N, R, W) /\ VerdictsOK'
<1>1. PICK X : msgQueue \in Seq(X)
  BY DEF VerdictsOK
<1>2. tracker' = Draining!Fold(live, tracker, msgQueue)
  BY DEF DrainMessages, applyEventualStateFeedback, drain, FoldLeft, MapThenFoldSet, Max,
         Draining!Fold, Draining!Greatest
<1>3. TrackerOK(tracker', N, R, W)
  BY <1>1, <1>2, DrainKeeps
<1>4. VerdictsOK'
  <2>1. msgQueue' = <<>>
    BY DEF DrainMessages
  <2>2. <<>> \in Seq({})
    OBVIOUS
  <2> QED
    BY <2>1, <2>2 DEF VerdictsOK
<1> QED
  BY <1>3, <1>4

\* A retry of a lost change is redacted when the change was.
LEMMA DrainKeepsInv ==
    ASSUME OwnerInv, DrainMessages
    PROVE  OwnerInv' /\ NoLeaks
<1>1. UNCHANGED <<scenario, live, born, rev, owner, refresh, fdirty, flushMask, spawned, despawned, pass, sess,
                  known, stream, net>>
  BY DEF DrainMessages, gameVars
<1>2. Owed' = Owed /\ Strangers' = Strangers
  BY <1>1 DEF Owed, Strangers, Scoped, OldOwner
<1>3. TrackerOK(tracker', Owed', Strangers', Entities) /\ VerdictsOK'
  BY <1>2, DrainMessagesTracker DEF OwnerInv
<1>4. NoLeaks /\ StreamOK'
  BY <1>1, NoNewFrames DEF OwnerInv, NoLeaks
<1>5. BasicOK' /\ RefreshOK' /\ RemovalsOK' /\ PassOK'
  BY <1>1 DEF OwnerInv, BasicOK, RefreshOK, RemovalsOK, PassOK, Scoped, Removal
<1> QED
  BY <1>1, <1>3, <1>4, <1>5 DEF OwnerInv

\* fullUpdateForSession redacts what the session does not own.
LEMMA FullSafe ==
    ASSUME NEW e
    PROVE  /\ NoLeak(fullUpdateForSession(e)) /\ NoLeak(PublicFullUpdate(e))
           /\ (~Scoped \/ Mine(e)) => NoLeak(FullUpdate(e))
           /\ fullUpdateForSession(e).id = e /\ PublicFullUpdate(e).id = e /\ FullUpdate(e).id = e
<1>1. NoLeak(PublicFullUpdate(e)) /\ PublicFullUpdate(e).id = e
  BY DEF NoLeak, PublicFullUpdate, Frame
<1>2. FullUpdate(e).id = e
  BY DEF FullUpdate, Frame
<1>3. (~Scoped \/ Mine(e)) => NoLeak(FullUpdate(e))
  BY <1>2 DEF NoLeak, Scoped
<1> QED
  BY <1>1, <1>2, <1>3 DEF fullUpdateForSession

\* A list of the frames F[e] for the elements of S.
LEMMA SeqOver ==
    ASSUME NEW S, S \subseteq Entities, NEW F
    PROVE  [i \in 1 .. Len(SetToSeq(S)) |-> F[SetToSeq(S)[i]]] \in Seq({F[e] : e \in S})
<1> DEFINE ids == SetToSeq(S)
           A == {F[e] : e \in S}
<1>1. ids \in Seq(S)
  BY FramesOver
<1> HIDE DEF ids
<1>2. Len(ids) \in Nat /\ \A i \in 1 .. Len(ids) : ids[i] \in S
  BY <1>1
<1>3. [i \in 1 .. Len(ids) |-> F[ids[i]]] \in [1 .. Len(ids) -> A]
  BY <1>2
<1> HIDE DEF A
<1>4. [i \in 1 .. Len(ids) |-> F[ids[i]]] \in Seq(A)
  BY <1>2, <1>3
<1> QED
  BY <1>4 DEF A, ids

\* A frame for each element of S, all of them in P.
LEMMA FramesInto ==
    ASSUME NEW S, S \subseteq Entities, NEW F, NEW s, NEW P,
           s = [i \in 1 .. Len(SetToSeq(S)) |-> F[SetToSeq(S)[i]]], \A e \in S : F[e] \in P
    PROVE  s \in Seq(P)
<1>1. s \in Seq({F[e] : e \in S})
  BY SeqOver
<1>2. {F[e] : e \in S} \subseteq P
  OBVIOUS
<1>3. \A A, B : A \subseteq B => Seq(A) \subseteq Seq(B)
  OBVIOUS
<1> QED
  BY <1>1, <1>2, <1>3

\* The snapshot of a connecting session is redacted.
LEMMA SnapshotKeepsInv ==
    ASSUME OwnerInv, SendSnapshot
    PROVE  OwnerInv' /\ NoLeaks
<1> DEFINE S == {e \in live : Allows(e)}
           F == [e \in S |-> fullUpdateForSession(e)]
           A == {F[e] : e \in S}
<1>1. /\ UNCHANGED <<scenario, live, born, rev, owner, refresh, fdirty, flushMask, spawned, despawned, pass,
                     tracker, net, msgQueue>>
      /\ sess = "new" /\ sess' = "snapshot" /\ known' = S
      /\ stream' = stream \o Frames(S, fullUpdateForSession)
  BY DEF SendSnapshot, gameVars
<1>2. Frames(S, fullUpdateForSession) \in Seq(A)
  <2>1. S \subseteq Entities
    BY DEF OwnerInv, BasicOK
  <2>2. \A i \in 1 .. Len(SetToSeq(S)) : SetToSeq(S)[i] \in S
    <3> HIDE DEF S
    <3>1. SetToSeq(S) \in Seq(S)
      BY <2>1, FramesOver
    <3> QED
      BY <3>1
  <2>3. Frames(S, fullUpdateForSession) = [i \in 1 .. Len(SetToSeq(S)) |-> F[SetToSeq(S)[i]]]
    <3> HIDE DEF S
    <3> QED
      BY <2>2 DEF Frames
  <2> HIDE DEF S, F
  <2> DEFINE x == Frames(S, fullUpdateForSession)
  <2>4. x = [i \in 1 .. Len(SetToSeq(S)) |-> F[SetToSeq(S)[i]]]
    BY <2>3
  <2>5. \A e \in S : F[e] \in A
    OBVIOUS
  <2> HIDE DEF A, x
  <2>6. x \in Seq(A)
    BY <2>1, <2>4, <2>5, FramesInto
  <2> QED
    BY <2>6 DEF x
<1>3. \A fr \in A : NoLeak(fr)
  BY FullSafe
<1> HIDE DEF A
<1>4. StreamOK' /\ NoLeaks
  BY <1>1, <1>2, <1>3, SentFrames DEF NewFrames, NoLeaks, OwnerInv
<1>5. BasicOK' /\ RefreshOK' /\ RemovalsOK' /\ PassOK' /\ VerdictsOK'
  BY <1>1 DEF OwnerInv, BasicOK, RefreshOK, RemovalsOK, PassOK, Scoped, VerdictsOK, Removal
<1>6. Owed = {} /\ Owed' = {}
  BY <1>1 DEF Owed
<1>7. TrackerOK(tracker', Owed', Strangers', Entities)
  BY <1>1, <1>6, TrackerStays DEF OwnerInv
<1>8. known' \subseteq born'
  BY <1>1 DEF OwnerInv, BasicOK
<1> QED
  BY <1>4, <1>5, <1>7, <1>8 DEF OwnerInv

\* Joining the ticks sends nothing and owes nothing.
LEMMA AddSessionKeepsInv ==
    ASSUME OwnerInv, AddSession
    PROVE  OwnerInv' /\ NoLeaks
<1>1. /\ UNCHANGED <<scenario, live, born, rev, owner, refresh, fdirty, flushMask, spawned, despawned, pass,
                     known, tracker, stream, net, msgQueue>>
      /\ sess = "snapshot"
  BY DEF AddSession, gameVars, sendVars
<1>2. BasicOK' /\ RefreshOK' /\ RemovalsOK' /\ PassOK' /\ VerdictsOK'
  BY <1>1 DEF OwnerInv, BasicOK, RefreshOK, RemovalsOK, PassOK, Scoped, VerdictsOK, Removal
<1>3. Owed = {}
  BY <1>1 DEF Owed
<1>4. TrackerOK(tracker', Owed', Strangers', Entities)
  BY <1>1, <1>3, TrackerStays DEF OwnerInv
<1>5. NoLeaks /\ StreamOK'
  BY <1>1, NoNewFrames DEF OwnerInv, NoLeaks
<1> QED
  BY <1>1, <1>2, <1>4, <1>5 DEF OwnerInv

\* Deliveries and verdicts send nothing.
LEMMA NetworkKeepsInv ==
    ASSUME OwnerInv, StreamDeliver \/ DatagramDeliver \/ Acknowledged \/ Lost
    PROVE  OwnerInv' /\ NoLeaks
<1>1. /\ UNCHANGED <<scenario, live, born, rev, owner, refresh, fdirty, flushMask, spawned, despawned, pass, sess,
                     known, tracker>>
      /\ net' \subseteq net /\ (stream' = stream \/ (stream # <<>> /\ stream' = Tail(stream)))
      /\ msgQueue' = msgQueue \/ \E x : msgQueue' = Append(msgQueue, x)
  BY DEF StreamDeliver, DatagramDeliver, Acknowledged, Lost, Enqueue, gameVars
<1>2. BasicOK' /\ RefreshOK' /\ RemovalsOK' /\ PassOK'
  BY <1>1 DEF OwnerInv, BasicOK, RefreshOK, RemovalsOK, PassOK, Scoped, Removal
<1>3. Owed' = Owed /\ Strangers' = Strangers
  BY <1>1 DEF Owed, Strangers, Scoped, OldOwner
<1>4. TrackerOK(tracker', Owed', Strangers', Entities)
  BY <1>1, <1>3 DEF OwnerInv
<1>5. NoLeaks /\ StreamOK'
  BY <1>1, NoNewFrames DEF OwnerInv, NoLeaks
<1>6. VerdictsOK'
  <2>1. PICK X : msgQueue \in Seq(X)
    BY DEF OwnerInv, VerdictsOK
  <2>2. ASSUME NEW x, msgQueue' = Append(msgQueue, x) PROVE VerdictsOK'
    <3>1. msgQueue' \in Seq(X \cup {x})
      BY <2>1, <2>2
    <3> QED
      BY <3>1 DEF VerdictsOK
  <2>3. CASE msgQueue' = msgQueue
    BY <2>1, <2>3 DEF VerdictsOK
  <2> QED
    BY <1>1, <2>2, <2>3
<1> QED
  BY <1>1, <1>2, <1>4, <1>5, <1>6 DEF OwnerInv

\* FlushAll: a pass over owner-only fields is filtered unless nothing is live.
LEMMA FlushKeepsInv ==
    ASSUME OwnerInv, FlushAll
    PROVE  OwnerInv' /\ NoLeaks
<1> DEFINE flushed == {e \in live \ spawned : fdirty[e] # {}}
           filter == shouldFilterBroadcast
<1>1. /\ UNCHANGED <<scenario, live, born, rev, owner, refresh, sess, known, tracker, stream, net,
                     msgQueue>>
      /\ pass = NoPass /\ spawned' = {} /\ despawned' = <<>>
      /\ pass' = [at |-> "send", filter |-> filter,
                  spawns |-> [e \in spawned |-> FullUpdate(e)],
                  deltas |-> [e \in flushed |-> DeltaOf("delta", e, fdirty[e])],
                  removals |-> despawned, read |-> 0, removed |-> <<>>]
      /\ flushMask' = [e \in Entities |-> IF e \in live \ spawned THEN fdirty[e] ELSE flushMask[e]]
      /\ fdirty' = [e \in Entities |-> IF e \in flushed THEN {} ELSE fdirty[e]]
  BY DEF FlushAll, Flush, sendVars
<1>2. filter \in BOOLEAN /\ (Scoped /\ ~filter => live = {})
  BY DEF shouldFilterBroadcast, Scoped
<1> HIDE DEF filter
<1>3. /\ pass'.filter = filter /\ DOMAIN pass'.spawns = spawned /\ DOMAIN pass'.deltas = flushed
      /\ pass'.removals = despawned /\ \A e \in spawned : pass'.spawns[e].id = e
      /\ pass'.at = "send" /\ pass'.read = 0 /\ DOMAIN pass'.removed = {}
      /\ PassFields \subseteq DOMAIN pass' /\ Removal' = Removal
  BY <1>1 DEF FullUpdate, Frame, PassFields, Removal
<1>4. RemovalsOK' /\ PassOK'
  BY <1>1, <1>2, <1>3 DEF RemovalsOK, PassOK, Scoped, OwnerInv, BasicOK
<1>5. BasicOK' /\ RefreshOK' /\ VerdictsOK'
  <2>1. fdirty' \in [Entities -> SUBSET Fields] /\ flushMask' \in [Entities -> SUBSET Fields]
    BY <1>1 DEF OwnerInv, BasicOK
  <2>2. despawned' \in Seq(Removal')
    BY <1>1
  <2> QED
    BY <1>1, <1>3, <2>1, <2>2 DEF OwnerInv, BasicOK, RefreshOK, VerdictsOK, Scoped
<1>6. Owed \subseteq Owed' /\ Strangers' = Strangers
  BY <1>1, <1>2, <1>3 DEF Owed, Strangers, Scoped, OldOwner
<1>7. TrackerOK(tracker', Owed', Strangers', Entities)
  BY <1>1, <1>6, TrackerStays DEF OwnerInv
<1>8. NoLeaks /\ StreamOK'
  BY <1>1, NoNewFrames DEF OwnerInv, NoLeaks
<1> QED
  BY <1>1, <1>4, <1>5, <1>7, <1>8 DEF OwnerInv

\* A removal that is turned into a frame: the rest of the pass stays.
LEMMA SerializeKeepsPass ==
    ASSUME BasicOK, RemovalsOK, SerializeRemoval
    PROVE  /\ pass # NoPass /\ pass' # NoPass /\ PassFields \subseteq DOMAIN pass'
           /\ pass'.at = pass.at /\ pass'.filter = pass.filter /\ pass'.spawns = pass.spawns
           /\ pass'.deltas = pass.deltas /\ pass'.removals = pass.removals
           /\ pass'.read = pass.read + 1 /\ pass.read + 1 \in 1 .. Len(pass.removals)
           /\ LET r == pass.removals[pass.read + 1] IN
              /\ r \in Removal /\ DOMAIN pass'.removed = DOMAIN pass.removed \cup {r.id}
              /\ \A x \in DOMAIN pass'.removed :
                    pass'.removed[x] = IF x = r.id THEN r.rev ELSE pass.removed[x]
           /\ RemovalIDs \subseteq born \ live
           /\ tracker' = tracker \/ tracker' = clearEntities(tracker, RemovalIDs)
           /\ UNCHANGED <<scenario, gameVars, sess, known, nextToken, stream, net, open, msgQueue,
                          client, astray>>
<1> DEFINE r == pass.removals[pass.read + 1]
<1>1. /\ pass # NoPass /\ pass.read + 1 \in DOMAIN pass.removals
      /\ pass' = [pass EXCEPT !.read = @ + 1, !.removed = With(@, r.id, r.rev)]
      /\ tracker' = tracker \/ tracker' = clearEntities(tracker, RemovalIDs)
      /\ UNCHANGED <<scenario, gameVars, sess, known, nextToken, stream, net, open, msgQueue,
                     client, astray>>
  BY DEF SerializeRemoval, clearEventualEntities, histVars
<1>2. /\ PassFields \subseteq DOMAIN pass /\ pass.at = "send" /\ pass.removals \in Seq(Removal)
      /\ pass.read \in Nat
  BY <1>1 DEF RemovalsOK
<1>3. r \in Removal /\ RemovalIDs \subseteq born \ live /\ pass.read + 1 \in 1 .. Len(pass.removals)
  <2>1. /\ DOMAIN pass.removals = 1 .. Len(pass.removals)
        /\ \A i \in DOMAIN pass.removals : pass.removals[i] \in Removal
    BY <1>2
  <2>2. \A x \in Removal : x.id \in born \ live
    BY DEF Removal
  <2> QED
    BY <1>1, <2>1, <2>2 DEF RemovalIDs, ToSet
<1> HIDE DEF r
<1>4. /\ DOMAIN pass' = DOMAIN pass
      /\ pass'.at = pass.at /\ pass'.filter = pass.filter /\ pass'.spawns = pass.spawns
      /\ pass'.deltas = pass.deltas /\ pass'.removals = pass.removals
      /\ pass'.read = pass.read + 1 /\ pass'.removed = With(pass.removed, r.id, r.rev)
  BY <1>1, <1>2 DEF PassFields
<1>5. /\ DOMAIN pass'.removed = DOMAIN pass.removed \cup {r.id}
      /\ \A x \in DOMAIN pass'.removed :
            pass'.removed[x] = IF x = r.id THEN r.rev ELSE pass.removed[x]
  BY <1>4 DEF With
<1>6. pass' # NoPass
  BY <1>2, <1>4 DEF NoPass
<1> QED
  BY <1>1, <1>2, <1>3, <1>4, <1>5, <1>6 DEF r

\* The removals of the pass stay removals of entities that are gone.
LEMMA SerializeKeepsRemovals ==
    ASSUME BasicOK, RemovalsOK, SerializeRemoval
    PROVE  RemovalsOK'
<1>1. /\ pass # NoPass /\ PassFields \subseteq DOMAIN pass'
      /\ pass'.at = pass.at /\ pass'.removals = pass.removals /\ pass'.read = pass.read + 1
      /\ UNCHANGED <<born, live>>
  BY SerializeKeepsPass DEF gameVars
<1> DEFINE r == pass.removals[pass.read + 1]
<1>2. /\ r \in Removal /\ DOMAIN pass'.removed = DOMAIN pass.removed \cup {r.id}
      /\ \A x \in DOMAIN pass'.removed :
            pass'.removed[x] = IF x = r.id THEN r.rev ELSE pass.removed[x]
  BY SerializeKeepsPass
<1> HIDE DEF r
<1>3. /\ DOMAIN pass'.removed \subseteq born \ live
      /\ \A e \in DOMAIN pass'.removed : pass'.removed[e] \in Nat
  BY <1>1, <1>2 DEF RemovalsOK, Removal
<1>4. Removal' = Removal
  BY <1>1 DEF Removal
<1> QED
  BY <1>1, <1>3, <1>4 DEF RemovalsOK

\* It leaves the session owed what it was, less the entities that are removed.
LEMMA SerializeKeepsInv ==
    ASSUME OwnerInv, SerializeRemoval
    PROVE  OwnerInv' /\ NoLeaks
<1>1. UNCHANGED <<scenario, live, born, rev, owner, refresh, fdirty, flushMask, spawned, despawned, sess,
                  known, stream, net, msgQueue>>
  BY SerializeKeepsPass DEF OwnerInv, gameVars
<1>2. BasicOK' /\ RefreshOK' /\ VerdictsOK' /\ Removal' = Removal
  BY <1>1 DEF OwnerInv, BasicOK, RefreshOK, VerdictsOK, Scoped, Removal
<1>3. PassOK'
  BY <1>1, SerializeKeepsPass DEF OwnerInv, PassOK, Scoped
<1>4. Owed' = Owed /\ Strangers' = Strangers
  BY <1>1, SerializeKeepsPass DEF OwnerInv, Owed, Strangers, Scoped, OldOwner
<1>5. TrackerOK(tracker', Owed', Strangers', Entities)
  <2>1. TrackerOK(tracker, Owed, Strangers, Entities)
    BY DEF OwnerInv
  <2>2. TrackerOK(clearEntities(tracker, RemovalIDs), Owed \ RemovalIDs, Strangers, Entities)
    BY <2>1, ClearEntitiesKeeps
  <2>3. TrackerOK(clearEntities(tracker, RemovalIDs), Owed, Strangers, Entities)
    BY <2>2, ChangesGrow
  <2>4. tracker' = tracker \/ tracker' = clearEntities(tracker, RemovalIDs)
    BY SerializeKeepsPass DEF OwnerInv
  <2> QED
    BY <1>4, <2>1, <2>3, <2>4
<1>6. NoLeaks /\ StreamOK'
  BY <1>1, NoNewFrames DEF OwnerInv, NoLeaks
<1>7. RemovalsOK'
  BY SerializeKeepsRemovals DEF OwnerInv
<1> QED
  BY <1>1, <1>2, <1>3, <1>5, <1>6, <1>7 DEF OwnerInv

\* What the end of a pass leaves as it was.
LEMMA EndPassKeeps ==
    ASSUME OwnerInv, EndPass
    PROVE  /\ UNCHANGED <<scenario, live, born, rev, owner, fdirty, flushMask, spawned, despawned, sess, msgQueue>>
           /\ pass' = NoPass /\ BasicOK' /\ RemovalsOK' /\ PassOK' /\ VerdictsOK'
<1>1. /\ UNCHANGED <<scenario, live, born, rev, owner, fdirty, flushMask, spawned, despawned, sess, msgQueue>>
      /\ pass' = NoPass
  BY DEF EndPass
<1> QED
  BY <1>1 DEF OwnerInv, BasicOK, RemovalsOK, PassOK, VerdictsOK, Removal

\* A filtered pass takes the pending changes of owner: from then on the
\* strangers are the entities the session does not own.
LEMMA RefreshTaken ==
    ASSUME OwnerInv, EndPass, refresh' = <<>>
    PROVE  RefreshOK' /\ Strangers' = {e \in live : Scoped /\ ~Mine(e)}
<1>1. DOMAIN refresh' = {}
  OBVIOUS
<1>2. UNCHANGED <<scenario, live, born, rev, owner>>
  BY EndPassKeeps
<1> QED
  BY <1>1, <1>2 DEF RefreshOK, Strangers, OldOwner, Mine, Scoped

BlindFrames ==
    Frames(DOMAIN pass.spawns, LAMBDA e : pass.spawns[e]) \o Removals(DOMAIN pass.removed)
BlindNames == Owed \cup DOMAIN pass.deltas

\* What runBroadcastTickBlind sends, of the changes in the tracker.
LEMMA BlindSendsOf ==
    ASSUME OwnerInv, BroadcastBlind, ~Idle, NEW N0, NEW R, NEW W, TrackerOK(tracker, N0, R, W),
           DOMAIN pass.deltas \cap R = {}, Partial(DOMAIN pass.deltas, W)
    PROVE  \E sent : /\ SendOK(sent, N0 \cup DOMAIN pass.deltas, R, W)
                     /\ Send(BlindFrames, sent)
<1> DEFINE S == DOMAIN pass.deltas
           frames == BlindFrames
<1>1. pass # NoPass /\ ~pass.filter /\ sess = "live"
  BY DEF BroadcastBlind, Sending
<1>2. PICK order \in SetToSeqs(S) :
        Send(frames, sendBlindEventualState(tracker,
               [i \in 1 .. Len(order) |-> eventualChangeForDelta(order[i])]))
  BY Zenon DEF BroadcastBlind, BlindFrames
<1> DEFINE chs == [i \in 1 .. Len(order) |-> eventualChangeForDelta(order[i])]
           N == N0 \cup S
           sent == sendBlindEventualState(tracker, chs)
<1>3. S \subseteq Entities /\ Partial(S, W)
  BY <1>1 DEF OwnerInv, BasicOK, RemovalsOK, PassOK
<1>4. order \in Seq(S)
  BY <1>3, OrderFacts
<1>5. chs \in Seq(Changes(S, {}, W))
  <2> HIDE DEF S
  <2> QED
    BY <1>3, <1>4, BlindChangesType DEF OwnerInv, BasicOK
<1>6. chs \in Seq(Changes(N, R, W))
  <2>1. S \cap R \subseteq {} /\ S \subseteq N
    OBVIOUS
  <2>2. Changes(S, {}, W) \subseteq Changes(N, R, W)
    <3> HIDE DEF S, N
    <3> QED
      BY <2>1, ChangesGrow
  <2> HIDE DEF S, N, chs
  <2> QED
    BY <1>5, <2>2
<1>7. TrackerOK(tracker, N, R, W)
  <2>1. N0 \subseteq N /\ N0 \cap R \subseteq R
    OBVIOUS
  <2> HIDE DEF N
  <2> QED
    BY <2>1, ChangesGrow
<1>8. scenario.budget \in Nat \ {0}
  BY ReplicationAssumption DEF OwnerInv, BasicOK, ScenarioType
<1>9. SendOK(sent, N, R, W)
  <2> HIDE DEF chs, N
  <2> QED
    BY <1>6, <1>7, <1>8, SendStateKeeps
<1>10. Send(frames, sent)
  BY <1>2
<1> HIDE DEF sent, frames
<1> QED
  BY <1>9, <1>10 DEF N, S, frames

\* A blind pass has nothing to redact.
LEMMA BlindSends ==
    ASSUME OwnerInv, BroadcastBlind, ~Idle
    PROVE  \E sent : SendOK(sent, BlindNames, Strangers, Entities) /\ Send(BlindFrames, sent)
<1>1. pass # NoPass /\ ~pass.filter
  BY DEF BroadcastBlind, Sending
<1>2. DOMAIN pass.deltas \cap Strangers = {}
  BY <1>1 DEF OwnerInv, RemovalsOK, PassOK, Strangers
<1>3. Partial(DOMAIN pass.deltas, Entities)
  BY <1>1 DEF OwnerInv, RemovalsOK, PassOK, BasicOK, Partial
<1>4. TrackerOK(tracker, Owed, Strangers, Entities)
  BY DEF OwnerInv
<1> QED
  BY <1>2, <1>3, <1>4, BlindSendsOf DEF BlindNames

\* Which frames a blind pass puts on the stream.
LEMMA BlindFramesIn ==
    ASSUME BasicOK, RemovalsOK, PassOK, pass # NoPass, NEW Q, \A e \in DOMAIN pass.spawns : pass.spawns[e] \in Q,
           \A e \in DOMAIN pass.removed : Removed(e, pass.removed[e]) \in Q
    PROVE  BlindFrames \in Seq(Q)
<1> DEFINE T == DOMAIN pass.spawns
           gone == DOMAIN pass.removed
           F == [e \in T |-> pass.spawns[e]]
           D == [e \in gone |-> Removed(e, pass.removed[e])]
           x == Frames(T, LAMBDA e : pass.spawns[e])
           y == Removals(gone)
<1>1. T \subseteq Entities /\ gone \subseteq Entities
  BY DEF BasicOK, RemovalsOK, PassOK
<1>2. x \in Seq(Q)
  <2>1. \A e \in T : F[e] \in Q
    OBVIOUS
  <2> HIDE DEF T
  <2>2. x = [i \in 1 .. Len(SetToSeq(T)) |-> F[SetToSeq(T)[i]]]
    BY <1>1, FramesOver DEF Frames
  <2> HIDE DEF F, x
  <2> QED
    BY <1>1, <2>1, <2>2, FramesInto
<1>3. y \in Seq(Q)
  <2>1. \A e \in gone : D[e] \in Q
    OBVIOUS
  <2> HIDE DEF gone
  <2>2. y = [i \in 1 .. Len(SetToSeq(gone)) |-> D[SetToSeq(gone)[i]]]
    BY <1>1, FramesOver DEF Removals, Frames
  <2> HIDE DEF D, y
  <2> QED
    BY <1>1, <2>1, <2>2, FramesInto
<1>4. BlindFrames = x \o y
  BY DEF BlindFrames
<1> HIDE DEF x, y
<1> QED
  BY <1>2, <1>3, <1>4, ConcatProperties

\* A blind pass only happens when there is nothing to redact.
LEMMA BlindKeepsInv ==
    ASSUME OwnerInv, BroadcastBlind
    PROVE  OwnerInv' /\ NoLeaks
<1> DEFINE gone == DOMAIN pass.removed
           S == DOMAIN pass.deltas
           frames == BlindFrames
<1>1. /\ pass # NoPass /\ ~pass.filter /\ sess = "live" /\ EndPass /\ refresh' = refresh
  BY DEF BroadcastBlind, Sending
<1>2. /\ UNCHANGED <<scenario, live, born, rev, owner, fdirty, flushMask, spawned, despawned, sess, msgQueue>>
      /\ pass' = NoPass /\ BasicOK' /\ RemovalsOK' /\ PassOK' /\ VerdictsOK'
  BY <1>1, EndPassKeeps
<1>3. RefreshOK' /\ Strangers' = Strangers
  BY <1>1, <1>2 DEF OwnerInv, RefreshOK, Strangers, OldOwner, Scoped
<1>4. Scoped => live \cap Owed = {} /\ S = {}
  BY <1>1 DEF OwnerInv, RemovalsOK, PassOK, Owed
<1>5. CASE Idle
  <2>1. UNCHANGED <<known, tracker, stream, net>> /\ known' \subseteq born'
    BY <1>2, <1>5 DEF BroadcastBlind, sendVars, OwnerInv
  <2>2. Owed \subseteq Owed'
    BY <1>2, <1>4, <2>1 DEF Owed, Scoped
  <2>3. TrackerOK(tracker', Owed', Strangers', Entities)
    BY <1>3, <2>1, <2>2, TrackerStays DEF OwnerInv
  <2>4. NoLeaks /\ StreamOK'
    BY <2>1, NoNewFrames DEF OwnerInv, NoLeaks
  <2> QED
    BY <1>2, <1>3, <2>1, <2>3, <2>4 DEF OwnerInv
<1>6. CASE ~Idle
  <2> DEFINE N == Owed \cup S
  <2>1. PICK sent : SendOK(sent, N, Strangers, Entities) /\ Send(frames, sent)
    BY <1>6, BlindSends DEF BlindNames
  <2>2. S \subseteq born /\ S \subseteq Entities /\ DOMAIN pass.spawns \subseteq Entities
        /\ gone \subseteq Entities
    BY <1>1 DEF OwnerInv, BasicOK, RemovalsOK, PassOK
  <2> DEFINE spawn == {pass.spawns[e] : e \in DOMAIN pass.spawns}
             A == spawn \cup {Removed(e, pass.removed[e]) : e \in gone}
  <2>3. frames \in Seq(A)
    <3>1. \A e \in DOMAIN pass.spawns : pass.spawns[e] \in A
      OBVIOUS
    <3>2. \A e \in gone : Removed(e, pass.removed[e]) \in A
      OBVIOUS
    <3> HIDE DEF A
    <3> QED
      BY <1>1, <3>1, <3>2, BlindFramesIn DEF OwnerInv
  <2>4. \A fr \in A : NoLeak(fr)
    <3>1. \A e \in DOMAIN pass.spawns : NoLeak(pass.spawns[e])
      BY <1>1 DEF OwnerInv, RemovalsOK, PassOK, NoLeak, Scoped
    <3>2. \A e \in gone : NoLeak(Removed(e, pass.removed[e]))
      BY <1>1 DEF OwnerInv, RemovalsOK, PassOK, NoLeak, Removed
    <3> QED
      BY <3>1, <3>2
  <2>5. \A e \in N \cap live : Scoped /\ ~Mine(e) => e \in Strangers
    BY <1>4
  <2>6. StreamOK' /\ NoLeaks /\ TrackerOK(tracker', N, Strangers, Entities)
    <3>1. Send(frames, sent) /\ StreamOK
      BY <2>1 DEF OwnerInv
    <3> HIDE DEF frames, A, N
    <3> QED
      BY <2>1, <2>3, <2>4, <2>5, <3>1, SendSafe
  <2>7. N \subseteq Owed' /\ N \cap Strangers' \subseteq Strangers
    BY <1>1, <1>2, <1>3, <1>4, <2>2 DEF Owed, Scoped
  <2>8. TrackerOK(tracker', Owed', Strangers', Entities)
    BY <2>6, <2>7, ChangesGrow
  <2>9. known' \subseteq born'
    <3>1. known' \subseteq known \cup DOMAIN pass.spawns
      BY <1>6 DEF BroadcastBlind, applyBlindBroadcastKnown
    <3> QED
      BY <1>1, <1>2, <3>1 DEF OwnerInv, RemovalsOK, PassOK
  <2> QED
    BY <1>2, <1>3, <2>6, <2>8, <2>9 DEF OwnerInv
<1> QED
  BY <1>5, <1>6

\* A pass while the session is not among the listener's sends it nothing.
LEMMA OthersKeepsInv ==
    ASSUME OwnerInv, BroadcastToOthers
    PROVE  OwnerInv' /\ NoLeaks
<1>1. /\ pass # NoPass /\ sess # "live" /\ EndPass
      /\ refresh' = (IF pass.filter THEN <<>> ELSE refresh)
      /\ UNCHANGED <<known, tracker, stream, net>>
  BY DEF BroadcastToOthers, Sending, sendVars
<1>2. /\ UNCHANGED <<scenario, live, born, rev, owner, fdirty, flushMask, spawned, despawned, sess, msgQueue>>
      /\ pass' = NoPass /\ BasicOK' /\ RemovalsOK' /\ PassOK' /\ VerdictsOK'
  BY <1>1, EndPassKeeps
<1>3. RefreshOK'
  <2>1. CASE refresh' = <<>>
    BY <1>1, <2>1, RefreshTaken
  <2>2. CASE refresh' = refresh
    BY <1>2, <2>2 DEF OwnerInv, RefreshOK, Scoped
  <2> QED
    BY <1>1, <2>1, <2>2
<1>4. Owed = {}
  BY <1>1 DEF Owed
<1>5. TrackerOK(tracker', Owed', Strangers', Entities)
  BY <1>1, <1>4, TrackerStays DEF OwnerInv
<1>6. NoLeaks /\ StreamOK'
  BY <1>1, NoNewFrames DEF OwnerInv, NoLeaks
<1> QED
  BY <1>1, <1>2, <1>3, <1>5, <1>6 DEF OwnerInv

\* The frames of a filtered pass that are not changes: entities that entered or
\* were registered again, exits, and the grants and clears of a change of owner.
LEMMA WrappedSafe ==
    ASSUME NEW e, e \in DOMAIN pass.spawns => pass.spawns[e].id = e
    PROVE  NoLeak(wrappedFullForSession(e)) /\ wrappedFullForSession(e).id = e
<1>1. CASE (Scoped => Mine(e)) /\ e \in DOMAIN pass.spawns
  <2>1. wrappedFullForSession(e) = pass.spawns[e] /\ pass.spawns[e].id = e
    BY <1>1 DEF wrappedFullForSession
  <2> QED
    BY <1>1, <2>1 DEF NoLeak, Scoped
<1>2. CASE ~((Scoped => Mine(e)) /\ e \in DOMAIN pass.spawns)
  <2>1. wrappedFullForSession(e) = fullUpdateForSession(e)
    BY <1>2 DEF wrappedFullForSession
  <2> QED
    BY <2>1, FullSafe
<1> QED
  BY <1>1, <1>2

\* A grant goes to the owner only.
LEMMA GrantSafe ==
    ASSUME NEW e, e \in DOMAIN pass.spawns => pass.spawns[e].id = e
    PROVE  /\ GrantFrame(e).id = e
           /\ ~Scoped \/ Mine(e) => NoLeak(GrantFrame(e))
<1>1. CASE e \in DOMAIN pass.spawns
  <2>1. GrantFrame(e) = pass.spawns[e] /\ pass.spawns[e].id = e
    BY <1>1 DEF GrantFrame
  <2> QED
    BY <1>1, <2>1 DEF NoLeak, Scoped
<1>2. CASE e \notin DOMAIN pass.spawns
  <2>1. GrantFrame(e) = FullUpdate(e)
    BY <1>2 DEF GrantFrame
  <2> QED
    BY <2>1, FullSafe
<1> QED
  BY <1>1, <1>2

\* A removal carries no field.
LEMMA ExitSafe == \A e : NoLeak(ExitFrame(e))
  BY DEF NoLeak, ExitFrame, Removed

\* The full states that clear or grant, of the entities that stay.
LEMMA RefreshFramesIn ==
    ASSUME NEW S, S \subseteq Entities, NEW pending, NEW Q,
           \A e \in S : /\ pending[e].clear = "me" => PublicFullUpdate(e) \in Q
                        /\ pending[e].new = "me" => GrantFrame(e) \in Q
    PROVE  RefreshFrames(pending, S) \in Seq(Q)
<1> DEFINE C == {e \in S : pending[e].clear = "me"}
           G == {e \in S : pending[e].new = "me"}
           c == Frames(C, PublicFullUpdate)
           d == Frames(G, GrantFrame)
           fc == [e \in C |-> PublicFullUpdate(e)]
           fd == [e \in G |-> GrantFrame(e)]
<1>1. /\ C \subseteq Entities /\ G \subseteq Entities
      /\ \A e \in C : PublicFullUpdate(e) \in Q
      /\ \A e \in G : GrantFrame(e) \in Q
  OBVIOUS
<1>2. RefreshFrames(pending, S) = c \o d
  BY DEF RefreshFrames
<1> HIDE DEF C, G
<1>3. c \in Seq(Q)
  <2>1. c = [i \in 1 .. Len(SetToSeq(C)) |-> fc[SetToSeq(C)[i]]]
    BY <1>1, FramesOver DEF Frames
  <2>2. \A e \in C : fc[e] \in Q
    BY <1>1
  <2> HIDE DEF c, fc
  <2> QED
    BY <1>1, <2>1, <2>2, FramesInto
<1>4. d \in Seq(Q)
  <2>1. d = [i \in 1 .. Len(SetToSeq(G)) |-> fd[SetToSeq(G)[i]]]
    BY <1>1, FramesOver DEF Frames
  <2>2. \A e \in G : fd[e] \in Q
    BY <1>1
  <2> HIDE DEF d, fd
  <2> QED
    BY <1>1, <2>1, <2>2, FramesInto
<1> HIDE DEF c, d
<1> QED
  BY <1>2, <1>3, <1>4, ConcatProperties

\* The three kinds of stream frames of a filtered pass, in order.
LEMMA PassFrames ==
    ASSUME NEW S1, NEW S2, NEW S3, S1 \cup S2 \cup S3 \subseteq Entities, NEW pending, NEW Q,
           \A e \in S1 : wrappedFullForSession(e) \in Q, \A e \in S2 : ExitFrame(e) \in Q,
           \A e \in S3 : /\ pending[e].clear = "me" => PublicFullUpdate(e) \in Q
                         /\ pending[e].new = "me" => GrantFrame(e) \in Q
    PROVE  /\ Frames(S1, wrappedFullForSession) \in Seq(Q) /\ Frames(S2, ExitFrame) \in Seq(Q)
           /\ RefreshFrames(pending, S3) \in Seq(Q)
<1> DEFINE a == Frames(S1, wrappedFullForSession)
           b == Frames(S2, ExitFrame)
           fa == [e \in S1 |-> wrappedFullForSession(e)]
           fb == [e \in S2 |-> ExitFrame(e)]
<1>1. S1 \subseteq Entities /\ S2 \subseteq Entities /\ S3 \subseteq Entities
  OBVIOUS
<1>2. a \in Seq(Q)
  <2>1. a = [i \in 1 .. Len(SetToSeq(S1)) |-> fa[SetToSeq(S1)[i]]]
    BY <1>1, FramesOver DEF Frames
  <2>2. \A e \in S1 : fa[e] \in Q
    OBVIOUS
  <2> HIDE DEF a, fa
  <2> QED
    BY <1>1, <2>1, <2>2, FramesInto
<1>3. b \in Seq(Q)
  <2>1. b = [i \in 1 .. Len(SetToSeq(S2)) |-> fb[SetToSeq(S2)[i]]]
    BY <1>1, FramesOver DEF Frames
  <2>2. \A e \in S2 : fb[e] \in Q
    OBVIOUS
  <2> HIDE DEF b, fb
  <2> QED
    BY <1>1, <2>1, <2>2, FramesInto
<1>4. RefreshFrames(pending, S3) \in Seq(Q)
  BY <1>1, RefreshFramesIn
<1> QED
  BY <1>2, <1>3, <1>4

FilteredFrames ==
    LET df == computeBroadcastDiff IN
    Frames(df.entered \cup (df.stayed \cap DOMAIN pass.spawns), wrappedFullForSession) \o
    Frames(df.exited, ExitFrame) \o RefreshFrames(refresh, Refreshed(refresh, df.stayed))
Restarted ==
    LET df == computeBroadcastDiff IN
    df.entered \cup df.exited \cup Refreshed(refresh, df.stayed)
FilteredNames ==
    (Owed \ Restarted) \cup computeBroadcastDiff.stayed
NotMine == {e \in live : Scoped /\ ~Mine(e)}

\* computeBroadcastDiff: what enters, stays and leaves, and which of the pending
\* changes of owner concern the session.
LEMMA DiffFacts ==
    ASSUME BasicOK, known \subseteq born
    PROVE  LET df == computeBroadcastDiff
               regrant == Refreshed(refresh, df.stayed)
           IN  /\ df.entered \subseteq live \ known /\ df.stayed \subseteq live \cap known
               /\ df.known = df.entered \cup df.stayed /\ df.exited = known \ df.known
               /\ df.exited \subseteq Entities /\ df.known \subseteq live
               /\ live \subseteq Entities /\ live \subseteq born
               /\ regrant = {e \in DOMAIN refresh \cap df.stayed \cap live :
                               refresh[e].clear = "me" \/ refresh[e].new = "me"}
  BY DEF computeBroadcastDiff, Refreshed, BasicOK

\* What runBroadcastTickFiltered sends, when the tracker holds what it may.
LEMMA FilteredSendsOf ==
    ASSUME OwnerInv, BroadcastFiltered, NEW N0, NEW R0, NEW W, TrackerOK(tracker, N0, R0, W),
           NEW R, (N0 \ Restarted) \cap R \subseteq R0,
           \A e \in R : Scoped /\ ~Mine(e), Partial(DOMAIN pass.deltas, W)
    PROVE  \E sent : /\ SendOK(sent, (N0 \ Restarted) \cup computeBroadcastDiff.stayed, R, W)
                     /\ Send(FilteredFrames, sent)
<1> DEFINE df == computeBroadcastDiff
           regrant == Refreshed(refresh, df.stayed)
           X == df.entered \cup df.exited \cup regrant
           cleared == clearEntities(tracker, X)
           S == df.stayed \cap DOMAIN pass.deltas
           frames == FilteredFrames
           N1 == N0 \ X
           N == N1 \cup df.stayed
<1>1. PICK order \in SetToSeqs(S) :
        Send(frames, sendSessionEventualState(cleared, SessionChanges(order)))
  BY Zenon DEF BroadcastFiltered, FilteredFrames
<1>2. N = (N0 \ Restarted) \cup computeBroadcastDiff.stayed
      /\ N1 \cap R \subseteq R0
  BY DEF Restarted
<1>3. df.stayed \subseteq live \cap known /\ live \subseteq Entities
  BY DiffFacts DEF OwnerInv
<1> HIDE DEF df, regrant
<1> DEFINE chs == SessionChanges(order)
           sent == sendSessionEventualState(cleared, chs)
<1>4. TrackerOK(cleared, N1, R0, W)
  <2> HIDE DEF X
  <2> QED
    BY ClearEntitiesKeeps
<1>5. TrackerOK(cleared, N, R, W)
  <2>1. N1 \subseteq N /\ N1 \cap R \subseteq R0
    BY <1>2
  <2> HIDE DEF cleared, N1, N
  <2> QED
    BY <1>4, <2>1, ChangesGrow
<1>6. chs \in Seq(Changes(N, R, W))
  <2>1. S \subseteq Entities /\ Partial(S, W)
    BY <1>3 DEF Partial
  <2>2. order \in Seq(S)
    <3> HIDE DEF S
    <3> QED
      BY <2>1, OrderFacts
  <2>3. chs \in Seq(Changes(S, R, W))
    <3> HIDE DEF S
    <3> QED
      BY <2>1, <2>2, SessionChangesType DEF OwnerInv, BasicOK
  <2>4. Changes(S, R, W) \subseteq Changes(N, R, W)
    <3>1. S \subseteq N
      OBVIOUS
    <3> HIDE DEF S, N
    <3> QED
      BY <3>1, ChangesGrow
  <2> HIDE DEF S, N, chs
  <2> QED
    BY <2>3, <2>4
<1>7. scenario.budget \in Nat \ {0}
  BY ReplicationAssumption DEF OwnerInv, BasicOK, ScenarioType
<1>8. SendOK(sent, N, R, W)
  <2> HIDE DEF cleared, chs, N
  <2> QED
    BY <1>5, <1>6, <1>7, SendStateKeeps
<1>9. Send(frames, sent)
  BY <1>1
<1> HIDE DEF sent, frames, N
<1> QED
  BY <1>2, <1>8, <1>9 DEF frames

\* What is sent is redacted for whoever the session does not own now.
LEMMA FilteredSends ==
    ASSUME OwnerInv, BroadcastFiltered
    PROVE  \E sent : SendOK(sent, FilteredNames, NotMine, Entities) /\ Send(FilteredFrames, sent)
<1> DEFINE N1 == Owed \ Restarted
<1>1. pass # NoPass /\ pass.filter /\ sess = "live"
  BY DEF BroadcastFiltered, Sending
<1>2. /\ computeBroadcastDiff.entered \subseteq live \ known
      /\ computeBroadcastDiff.stayed \subseteq live \cap known
      /\ computeBroadcastDiff.known = computeBroadcastDiff.entered \cup computeBroadcastDiff.stayed
      /\ computeBroadcastDiff.exited = known \ computeBroadcastDiff.known
      /\ live \subseteq Entities
      /\ Refreshed(refresh, computeBroadcastDiff.stayed)
            = {e \in DOMAIN refresh \cap computeBroadcastDiff.stayed \cap live :
                      refresh[e].clear = "me" \/ refresh[e].new = "me"}
  BY DiffFacts DEF OwnerInv
<1>3. N1 \cap NotMine \subseteq Strangers
  BY <1>1, <1>2 DEF Owed, Strangers, OldOwner, Mine, NotMine, Restarted
<1>4. Partial(DOMAIN pass.deltas, Entities)
  BY <1>1 DEF OwnerInv, RemovalsOK, PassOK, BasicOK, Partial
<1>5. TrackerOK(tracker, Owed, Strangers, Entities) /\ \A e \in NotMine : Scoped /\ ~Mine(e)
  BY DEF OwnerInv, NotMine
<1>6. \E sent : SendOK(sent, N1 \cup computeBroadcastDiff.stayed, NotMine, Entities)
                 /\ Send(FilteredFrames, sent)
  BY <1>3, <1>4, <1>5, FilteredSendsOf
<1> QED
  BY <1>6 DEF FilteredNames

\* Which frames a filtered pass puts on the stream.
LEMMA FilteredFramesIn ==
    ASSUME BasicOK, known \subseteq born, NEW Q,
           \A e \in Entities : /\ wrappedFullForSession(e) \in Q /\ ExitFrame(e) \in Q
                               /\ PublicFullUpdate(e) \in Q,
           \A e \in DOMAIN refresh \cap live : refresh[e].new = "me" => GrantFrame(e) \in Q
    PROVE  FilteredFrames \in Seq(Q)
<1> DEFINE df == computeBroadcastDiff
           regrant == Refreshed(refresh, df.stayed)
           respawned == df.stayed \cap DOMAIN pass.spawns
           S1 == df.entered \cup respawned
           S2 == df.exited
           a == Frames(S1, wrappedFullForSession)
           b == Frames(S2, ExitFrame)
           c == RefreshFrames(refresh, regrant)
<1>1. /\ df.entered \subseteq live \ known /\ df.stayed \subseteq live \cap known
      /\ df.exited \subseteq Entities /\ live \subseteq Entities
      /\ regrant = {e \in DOMAIN refresh \cap df.stayed \cap live :
                      refresh[e].clear = "me" \/ refresh[e].new = "me"}
  BY DiffFacts
<1>2. FilteredFrames = a \o b \o c
  BY DEF FilteredFrames
<1> HIDE DEF df, regrant
<1>3. S1 \cup S2 \cup regrant \subseteq Entities
  BY <1>1
<1>4. \A e \in S1 : wrappedFullForSession(e) \in Q
  BY <1>3
<1>5. \A e \in S2 : ExitFrame(e) \in Q
  BY <1>3
<1>6. \A e \in regrant : /\ refresh[e].clear = "me" => PublicFullUpdate(e) \in Q
                         /\ refresh[e].new = "me" => GrantFrame(e) \in Q
  BY <1>1, <1>3
<1> HIDE DEF S1, S2
<1>7. a \in Seq(Q) /\ b \in Seq(Q) /\ c \in Seq(Q)
  BY <1>3, <1>4, <1>5, <1>6, PassFrames
<1> HIDE DEF a, b, c
<1>8. a \o b \o c \in Seq(Q)
  BY <1>7, ConcatProperties
<1> QED
  BY <1>2, <1>8

\* A filtered pass keeps the invariant and leaks nothing.
LEMMA FilteredKeepsInv ==
    ASSUME OwnerInv, BroadcastFiltered
    PROVE  OwnerInv' /\ NoLeaks
<1> DEFINE df == computeBroadcastDiff
           N == FilteredNames
           R == NotMine
           frames == FilteredFrames
<1>1. /\ pass # NoPass /\ pass.filter /\ sess = "live" /\ EndPass /\ refresh' = <<>>
      /\ known' = df.known
  BY DEF BroadcastFiltered, Sending
<1>2. /\ UNCHANGED <<scenario, live, born, rev, owner, fdirty, flushMask, spawned, despawned, sess, msgQueue>>
      /\ pass' = NoPass /\ BasicOK' /\ RemovalsOK' /\ PassOK' /\ VerdictsOK'
  BY <1>1, EndPassKeeps
<1>3. RefreshOK' /\ Strangers' = R
  BY <1>1, RefreshTaken DEF NotMine
<1>4. PICK sent : SendOK(sent, N, R, Entities) /\ Send(frames, sent)
  BY FilteredSends
<1>5. /\ df.entered \subseteq live \ known /\ df.stayed \subseteq live \cap known
      /\ df.known = df.entered \cup df.stayed /\ df.exited = known \ df.known
      /\ live \subseteq Entities /\ live \subseteq born
  BY DiffFacts DEF OwnerInv
<1> DEFINE all == {wrappedFullForSession(e) : e \in Entities} \cup {ExitFrame(e) : e \in Entities}
                  \cup {PublicFullUpdate(e) : e \in Entities} \cup {GrantFrame(e) : e \in Entities}
           A == {fr \in all : NoLeak(fr)}
<1>6. frames \in Seq(A)
  <2>1. \A e \in DOMAIN pass.spawns : pass.spawns[e].id = e
    BY <1>1 DEF OwnerInv, RemovalsOK, PassOK
  <2>2. \A e \in Entities : /\ wrappedFullForSession(e) \in A /\ ExitFrame(e) \in A
                            /\ PublicFullUpdate(e) \in A
    BY <2>1, WrappedSafe, ExitSafe, FullSafe
  <2>3. ASSUME NEW e \in DOMAIN refresh \cap live, refresh[e].new = "me" PROVE GrantFrame(e) \in A
    BY <1>1, <1>5, <2>1, <2>3, GrantSafe DEF OwnerInv, RefreshOK, Mine
  <2> HIDE DEF A
  <2> QED
    BY <2>2, <2>3, FilteredFramesIn DEF OwnerInv
<1>7. \A fr \in A : NoLeak(fr)
  OBVIOUS
<1>8. \A e \in N \cap live : Scoped /\ ~Mine(e) => e \in R
  BY DEF NotMine
<1>9. StreamOK' /\ NoLeaks /\ TrackerOK(tracker', N, R, Entities)
  <2> HIDE DEF frames, N, R, A
  <2> QED
    BY <1>4, <1>6, <1>7, <1>8, SendSafe DEF OwnerInv
<1>10. N \subseteq Owed'
  BY <1>1, <1>2, <1>5 DEF Owed, Scoped, FilteredNames, Restarted
<1>11. TrackerOK(tracker', Owed', Strangers', Entities)
  <2> HIDE DEF N, R
  <2> QED
    BY <1>3, <1>9, <1>10, ChangesGrow
<1>12. known' \subseteq born'
  BY <1>1, <1>2, <1>5
<1> QED
  BY <1>2, <1>3, <1>9, <1>11, <1>12 DEF OwnerInv

\* A server starts with no change of owner pending.
LEMMA InitOwnerInv == Init => OwnerInv
<1> SUFFICES ASSUME Init PROVE OwnerInv
  OBVIOUS
<1>1. scenario \in ScenarioType
  BY ReplicationAssumption DEF Init
<1>2. scenario.live \subseteq Entities
  BY <1>1 DEF ScenarioType
<1>3. BasicOK
  BY <1>2 DEF Init, BasicOK, Owners
<1>4. RefreshOK /\ RemovalsOK /\ PassOK
  BY DEF Init, RefreshOK, RemovalsOK, PassOK
<1>5. StreamOK /\ VerdictsOK
  <2>1. stream = <<>> /\ msgQueue = <<>>
    BY DEF Init
  <2>2. <<>> \in Seq({})
    OBVIOUS
  <2> QED
    BY <2>1, <2>2 DEF StreamOK, VerdictsOK
<1>6. TrackerOK(tracker, Owed, Strangers, Entities)
  BY NewTracker DEF Init
<1>7. known \subseteq born
  BY DEF Init
<1> QED
  BY <1>3, <1>4, <1>5, <1>6, <1>7 DEF OwnerInv

\* Every step keeps the invariant and leaks nothing.
LEMMA NextOwnerInv ==
    ASSUME OwnerInv, Next
    PROVE  OwnerInv' /\ NoLeaks
<1>1. CASE GameAction
  <2>1. GameKeepsOwners
    BY <1>1, GameKeeps DEF OwnerInv
  <2>2. NoLeaks
    BY <2>1, NoNewFrames DEF OwnerInv, NoLeaks, GameKeepsOwners
  <2> QED
    BY <1>1, <2>2, GameKeepsInv
<1>2. CASE SendSnapshot
  BY <1>2, SnapshotKeepsInv
<1>3. CASE AddSession
  BY <1>3, AddSessionKeepsInv
<1>4. CASE DrainMessages
  BY <1>4, DrainKeepsInv
<1>5. CASE FlushAll
  BY <1>5, FlushKeepsInv
<1>6. CASE BroadcastBlind
  BY <1>6, BlindKeepsInv
<1>7. CASE BroadcastFiltered
  BY <1>7, FilteredKeepsInv
<1>8. CASE BroadcastToOthers
  BY <1>8, OthersKeepsInv
<1>9. CASE StreamDeliver \/ DatagramDeliver \/ Acknowledged \/ Lost
  BY <1>9, NetworkKeepsInv
<1>10. CASE SerializeRemoval
  BY <1>10, SerializeKeepsInv
<1> QED
  BY <1>1, <1>2, <1>3, <1>4, <1>5, <1>6, <1>7, <1>8, <1>9, <1>10 DEF Next, GameAction

\* A step that changes nothing keeps the invariant.
LEMMA StutterOwnerInv ==
    ASSUME OwnerInv, UNCHANGED vars
    PROVE  OwnerInv'
<1>1. /\ UNCHANGED <<scenario, live, born, rev, owner, refresh, fdirty, flushMask, spawned, despawned,
                     pass, sess, known, tracker, stream, msgQueue>>
  BY DEF vars, gameVars, sendVars
<1>2. Owed' = Owed /\ Strangers' = Strangers
  BY <1>1 DEF Owed, Strangers, Scoped, OldOwner
<1>3. TrackerOK(tracker', Owed', Strangers', Entities)
  BY <1>1, <1>2 DEF OwnerInv
<1>4. BasicOK' /\ RefreshOK' /\ RemovalsOK' /\ PassOK' /\ StreamOK' /\ VerdictsOK'
  BY <1>1 DEF OwnerInv, BasicOK, RefreshOK, RemovalsOK, PassOK, StreamOK, VerdictsOK, Scoped,
     Removal
<1> QED
  BY <1>1, <1>3, <1>4 DEF OwnerInv

\* At every moment each change a session's tracker holds, waiting or in flight,
\* names an entity the session knows, is redacted unless the session was last
\* told it owns the entity, and has one place in the queue (golem/owner_replication.go,
\* golem/eventual_state.go).
THEOREM OwnersInvariant == Spec => []OwnerInv
<1>1. OwnerInv /\ [Next]_vars => OwnerInv'
  BY NextOwnerInv, StutterOwnerInv
<1> QED
  BY <1>1, InitOwnerInv, PTL DEF Spec

\* Whatever the interleaving of game code, ticks, losses and retries, a frame
\* carries an owner-only value of a live entity only to its owner
\* (appendOwnershipRefreshFrames, eventualChangeForSession, applyFeedback).
THEOREM PrivateStaysPrivate == Spec => PrivateOnlyToOwner
<1> DEFINE P == \A fr \in (UNION {ToSet(d.frames) : d \in net' \ net}) \cup
                 ToSet(IF Len(stream') > Len(stream)
                       THEN SubSeq(stream', Len(stream) + 1, Len(stream')) ELSE <<>>) :
         fr.id \in live =>
           \A f \in DOMAIN fr.vals \cap scenario.private : fr.vals[f] # 0 => Mine(fr.id)
<1>1. OwnerInv /\ [Next]_vars => [P]_vars
  <2> SUFFICES ASSUME OwnerInv, Next PROVE P
    OBVIOUS
  <2>1. NoLeaks
    BY NextOwnerInv
  <2> QED
    BY <2>1, Zenon DEF NoLeaks, NoLeak, NewFrames
<1>2. [][OwnerInv /\ [Next]_vars]_vars => [][P]_vars
  BY <1>1, PTL
<1>3. Spec => []OwnerInv
  BY OwnersInvariant
<1> QED
  BY <1>1, <1>3, PTL DEF Spec, PrivateOnlyToOwner

\* The queue of eventualStateTracker names every dirty entity exactly once.
THEOREM QueueIsExact == Spec => []DirtyQueueExact
<1>1. OwnerInv => DirtyQueueExact
  <2> SUFFICES ASSUME OwnerInv, NEW e \in Dirty(tracker)
               PROVE  Cardinality({i \in 1 .. Len(tracker.dirtyQueue) : tracker.dirtyQueue[i] = e}) = 1
    BY DEF DirtyQueueExact
  <2> DEFINE q == tracker.dirtyQueue
  <2>1. Once(q, Len(q), e)
    BY DEF OwnerInv, TrackerOK, QueueOK
  <2>2. PICK i \in 1 .. Len(q) : q[i] = e /\ \A j \in 1 .. Len(q) : q[j] = e => j = i
    BY <2>1 DEF Once
  <2>3. {j \in 1 .. Len(q) : q[j] = e} = {i}
    BY <2>2
  <2> QED
    BY <2>3, FS_Singleton
<1> QED
  BY <1>1, OwnersInvariant, PTL

-----------------------------------------------------------------------------
(* Revisions: frames are true to one history of the fields. *)

FrameSet ==
    [kind : FrameKinds, id : Entities, rev : Nat, vals : UNION {[m -> Nat] : m \in SUBSET Fields}]

\* Frames that say what the history H of an entity's fields was at their
\* revision, which is not in the future; a full state may hide the fields of P.
Good(H, rv, P) ==
    {fr \in FrameSet :
        /\ fr.kind # "removed" => fr.rev <= rv[fr.id]
        /\ fr.kind = "full" => DOMAIN fr.vals = Fields
        /\ fr.kind = "removed" => DOMAIN fr.vals = {}
        /\ \A f \in DOMAIN fr.vals : \/ fr.vals[f] = H[fr.id][f][fr.rev]
                                     \/ fr.kind = "full" /\ f \in P /\ fr.vals[f] = 0}
Compact(H, rv, P) == {fr \in Good(H, rv, P) : fr.kind = "compact"}
Histories == [Entities -> [Fields -> [Nat -> Nat]]]
Monotone(H) ==
    \A e \in Entities, f \in Fields : \A r, s \in Nat : r <= s => H[e][f][r] <= H[e][f][s]
ValuesOK ==
    /\ val \in [Entities -> [Fields -> Nat]] /\ rev \in [Entities -> Nat]
    /\ \A e \in Entities, f \in Fields : val[e][f] <= rev[e]

\* H is what the fields were at each revision so far, and are since.
HistoryOK(H) ==
    /\ H \in Histories /\ Monotone(H)
    /\ \A e \in Entities, f \in Fields : \A r \in Nat : r >= rev[e] => H[e][f][r] = val[e][f]
ClientOK(H, c) ==
    /\ c = [ents |-> c.ents, last |-> c.last]
    /\ DOMAIN c.ents \subseteq DOMAIN c.last /\ DOMAIN c.last \subseteq Entities
    /\ \A e \in DOMAIN c.last : c.last[e] \in Nat
    /\ \A e \in DOMAIN c.ents : /\ c.ents[e] \in [Fields -> Nat]
                                /\ \A f \in Fields : c.ents[e][f] <= H[e][f][c.last[e]]
Newer(c, d, P) ==
    \A e \in DOMAIN c.ents \cap DOMAIN d.ents : \A f \in Fields :
        d.ents[e][f] >= c.ents[e][f] \/ (f \in P /\ d.ents[e][f] = 0)
Grown(c, d) ==
    /\ DOMAIN d.ents = DOMAIN c.ents
    /\ \A e \in DOMAIN c.ents : \A f \in Fields : d.ents[e][f] >= c.ents[e][f]

\* A frame that is applied brings the client's entity to the state at its
\* revision, or past the older ones in the fields it has.
LEMMA ApplyKeeps ==
    ASSUME NEW H \in Histories, Monotone(H), NEW rv, NEW P, NEW fr \in Good(H, rv, P),
           NEW c, ClientOK(H, c)
    PROVE  /\ ClientOK(H, Apply(c, fr)) /\ Newer(c, Apply(c, fr), P)
           /\ fr.kind = "compact" => Grown(c, Apply(c, fr))
<1> DEFINE e == fr.id
           d == Apply(c, fr)
           last == With(c.last, e, fr.rev)
<1>1. /\ e \in Entities /\ fr.rev \in Nat /\ fr.kind \in FrameKinds
      /\ DOMAIN fr.vals \subseteq Fields /\ \A f \in DOMAIN fr.vals : fr.vals[f] \in Nat
      /\ fr.kind = "full" => DOMAIN fr.vals = Fields
      /\ \A f \in DOMAIN fr.vals : \/ fr.vals[f] = H[e][f][fr.rev]
                                   \/ fr.kind = "full" /\ f \in P /\ fr.vals[f] = 0
      /\ fr.vals = [f \in DOMAIN fr.vals |-> fr.vals[f]]
  <2>1. fr \in FrameSet
    BY DEF Good
  <2>2. PICK m \in SUBSET Fields : fr.vals \in [m -> Nat]
    BY <2>1 DEF FrameSet
  <2> QED
    BY <2>1, <2>2 DEF Good, FrameSet
<1>2. ASSUME NEW x \in Entities, NEW f \in Fields, NEW r \in Nat PROVE H[x][f][r] \in Nat
  BY DEF Histories
<1>3. /\ c = [ents |-> c.ents, last |-> c.last]
      /\ DOMAIN c.ents \subseteq DOMAIN c.last /\ DOMAIN c.last \subseteq Entities
      /\ \A x \in DOMAIN c.last : c.last[x] \in Nat
      /\ \A x \in DOMAIN c.ents : /\ c.ents[x] \in [Fields -> Nat]
                                  /\ \A f \in Fields : c.ents[x][f] <= H[x][f][c.last[x]]
  BY DEF ClientOK
<1>4. /\ DOMAIN last = DOMAIN c.last \cup {e} /\ last[e] = fr.rev
      /\ \A x \in DOMAIN c.last : x # e => last[x] = c.last[x]
  BY DEF With
<1>5. CASE isStale(c, fr)
  <2>1. d = c
    BY <1>5 DEF Apply
  <2> HIDE DEF d
  <2> QED
    BY <1>3, <2>1 DEF Newer, Grown, d
<1>6. CASE ~isStale(c, fr) /\ fr.kind = "removed"
  <2> DEFINE ents == Drop(c.ents, {e})
  <2>1. d = [ents |-> ents, last |-> last]
    BY <1>3, <1>6 DEF Apply
  <2>2. DOMAIN ents = DOMAIN c.ents \ {e} /\ \A x \in DOMAIN ents : ents[x] = c.ents[x]
    BY DEF Drop, Restrict
  <2> HIDE DEF ents, last, d
  <2>3. ClientOK(H, d)
    BY <1>1, <1>3, <1>4, <2>1, <2>2 DEF ClientOK
  <2>4. Newer(c, d, P)
    BY <1>3, <2>1, <2>2 DEF Newer
  <2> QED
    BY <1>6, <2>3, <2>4 DEF d
<1>7. ASSUME ~isStale(c, fr), e \in DOMAIN c.ents
      PROVE  \A f \in Fields : c.ents[e][f] <= H[e][f][fr.rev]
  <2>1. e \in DOMAIN c.last /\ c.last[e] \in Nat /\ c.last[e] <= fr.rev
    BY <1>1, <1>3, <1>7 DEF isStale
  <2>2. ASSUME NEW f \in Fields PROVE c.ents[e][f] <= H[e][f][fr.rev]
    <3>1. H[e][f][c.last[e]] <= H[e][f][fr.rev]
      BY <1>1, <2>1 DEF Monotone
    <3>2. H[e][f][c.last[e]] \in Nat /\ H[e][f][fr.rev] \in Nat
      BY <1>1, <1>2, <2>1
    <3>3. c.ents[e][f] <= H[e][f][c.last[e]] /\ c.ents[e][f] \in Nat
      BY <1>3, <1>7
    <3> QED
      BY <3>1, <3>2, <3>3
  <2> QED
    BY <2>2
<1>8. CASE ~isStale(c, fr) /\ fr.kind = "full"
  <2> DEFINE ents == With(c.ents, e, fr.vals)
  <2>1. d = [ents |-> ents, last |-> last]
    BY <1>3, <1>8 DEF Apply
  <2>2. /\ DOMAIN ents = DOMAIN c.ents \cup {e} /\ ents[e] = fr.vals
        /\ \A x \in DOMAIN c.ents : x # e => ents[x] = c.ents[x]
    BY DEF With
  <2>3. fr.vals \in [Fields -> Nat]
    BY <1>1, <1>8
  <2>4. \A f \in Fields : fr.vals[f] <= H[e][f][fr.rev]
    BY <1>1, <1>2, <1>8
  <2> HIDE DEF ents, last, d
  <2>5. ClientOK(H, d)
    BY <1>1, <1>3, <1>4, <2>1, <2>2, <2>3, <2>4 DEF ClientOK
  <2>6. Newer(c, d, P)
    <3> SUFFICES ASSUME NEW x \in DOMAIN c.ents \cap DOMAIN d.ents, NEW f \in Fields
                 PROVE  d.ents[x][f] >= c.ents[x][f] \/ (f \in P /\ d.ents[x][f] = 0)
      BY DEF Newer
    <3>1. CASE x # e
      BY <1>3, <2>1, <2>2, <3>1
    <3>2. CASE x = e
      <4>1. c.ents[e][f] <= H[e][f][fr.rev] /\ c.ents[e][f] \in Nat
        BY <1>3, <1>7, <1>8, <3>2
      <4>2. d.ents[x][f] = fr.vals[f]
        BY <2>1, <2>2, <3>2
      <4> QED
        BY <1>1, <1>8, <3>2, <4>1, <4>2
    <3> QED
      BY <3>1, <3>2
  <2> QED
    BY <1>8, <2>5, <2>6 DEF d
<1>9. CASE ~isStale(c, fr) /\ fr.kind \notin {"removed", "full"}
  <2>1. CASE e \notin DOMAIN c.ents
    <3>1. d = c
      BY <1>9, <2>1 DEF Apply
    <3> HIDE DEF d
    <3> QED
      BY <1>3, <3>1 DEF Newer, Grown, d
  <2>2. CASE e \in DOMAIN c.ents
    <3> DEFINE vals == Over(fr.vals, c.ents[e])
               ents == [c.ents EXCEPT ![e] = vals]
    <3>1. d = [ents |-> ents, last |-> last]
      BY <1>3, <1>9, <2>2 DEF Apply
    <3>2. \A f \in Fields : vals[f] = IF f \in DOMAIN fr.vals THEN fr.vals[f] ELSE c.ents[e][f]
      BY <1>1, <1>3, <2>2 DEF Over
    <3>3. vals \in [Fields -> Nat]
      BY <1>1, <1>3, <2>2 DEF Over
    <3>4. \A f \in Fields : vals[f] <= H[e][f][fr.rev] /\ vals[f] >= c.ents[e][f]
      <4> SUFFICES ASSUME NEW f \in Fields
                   PROVE  vals[f] <= H[e][f][fr.rev] /\ vals[f] >= c.ents[e][f]
        OBVIOUS
      <4>1. c.ents[e][f] <= H[e][f][fr.rev] /\ c.ents[e][f] \in Nat /\ H[e][f][fr.rev] \in Nat
        BY <1>1, <1>2, <1>3, <1>7, <1>9, <2>2
      <4> HIDE DEF vals
      <4> QED
        BY <1>1, <1>9, <3>2, <4>1
    <3>5. /\ DOMAIN ents = DOMAIN c.ents /\ ents[e] = vals
          /\ \A x \in DOMAIN c.ents : x # e => ents[x] = c.ents[x]
      BY <2>2
    <3> HIDE DEF vals, ents, last, d
    <3>6. ClientOK(H, d)
      BY <1>1, <1>3, <1>4, <3>1, <3>3, <3>4, <3>5 DEF ClientOK
    <3>7. Grown(c, d)
      BY <1>3, <3>1, <3>4, <3>5 DEF Grown
    <3> QED
      BY <3>6, <3>7 DEF d, Grown, Newer
  <2> QED
    BY <2>1, <2>2
<1> QED
  BY <1>5, <1>6, <1>8, <1>9

applyOne(env, c, fr) == Apply(c, fr)
Applying == INSTANCE LeftFold WITH Op <- applyOne

\* Moving forward twice is moving forward.
LEMMA GrownTransitive ==
    ASSUME NEW c, NEW d, NEW b, Grown(c, d), Grown(d, b), NEW H, ClientOK(H, c), ClientOK(H, d),
           ClientOK(H, b)
    PROVE  Grown(c, b)
<1>1. DOMAIN b.ents = DOMAIN c.ents /\ DOMAIN d.ents = DOMAIN c.ents
  BY DEF Grown
<1>2. ASSUME NEW e \in DOMAIN c.ents, NEW f \in Fields PROVE b.ents[e][f] >= c.ents[e][f]
  <2>1. b.ents[e][f] \in Nat /\ c.ents[e][f] \in Nat /\ d.ents[e][f] \in Nat
    BY <1>1 DEF ClientOK
  <2>2. b.ents[e][f] >= d.ents[e][f] /\ d.ents[e][f] >= c.ents[e][f]
    BY <1>1 DEF Grown
  <2> QED
    BY <2>1, <2>2
<1> QED
  BY <1>1, <1>2 DEF Grown

\* h[i] is the client after the first i frames of a datagram.
ApplyRun(h, n, c, frames) ==
    /\ h[0] = c /\ FoldLeft(Apply, c, frames) = h[n]
    /\ \A i \in 1 .. n : h[i] = Apply(h[i - 1], frames[i])

\* EntityManager applies the frames of a datagram one after the other.
LEMMA ApplySteps ==
    ASSUME NEW n \in Nat, NEW frames, DOMAIN frames = 1 .. n, NEW c
    PROVE  \E h : ApplyRun(h, n, c, frames)
<1>1. PICK h : Applying!Run(h, n, 0, c, frames)
  <2>1. Applying!Induction
    BY NatSetInduction DEF Applying!Induction
  <2> QED
    BY <2>1, Applying!FoldRuns
<1>2. FoldLeft(Apply, c, frames) = Applying!Fold(0, c, frames)
  BY DEF applyOne, FoldLeft, MapThenFoldSet, Max,
         Applying!Fold, Applying!Greatest
<1>3. ApplyRun(h, n, c, frames)
  BY <1>1, <1>2 DEF ApplyRun, applyOne, Applying!Run
<1> QED
  BY <1>3

\* The frames of one datagram only move the client's entities forward.
LEMMA DatagramGrows ==
    ASSUME NEW H \in Histories, Monotone(H), NEW rv, NEW P, NEW frames \in Seq(Compact(H, rv, P)),
           NEW c, ClientOK(H, c)
    PROVE  LET d == FoldLeft(Apply, c, frames) IN ClientOK(H, d) /\ Grown(c, d)
<1> DEFINE n == Len(frames)
<1>1. n \in Nat /\ DOMAIN frames = 1 .. n /\ \A i \in 1 .. n : frames[i] \in Compact(H, rv, P)
  OBVIOUS
<1> HIDE DEF n
<1>2. PICK h : ApplyRun(h, n, c, frames)
  BY <1>1, ApplySteps
<1>3. /\ h[0] = c /\ FoldLeft(Apply, c, frames) = h[n]
      /\ \A i \in 1 .. n : h[i] = Apply(h[i - 1], frames[i])
  BY <1>2 DEF ApplyRun
<1> DEFINE U == {i \in 0 .. n : ClientOK(H, h[i]) /\ Grown(c, h[i])}
<1>4. 0 \in U
  <2>1. Grown(c, c)
    BY DEF Grown, ClientOK
  <2> QED
    BY <1>1, <1>3, <2>1
<1>5. ASSUME NEW i \in 1 .. n, i - 1 \in U PROVE i \in U
  <2> DEFINE d == h[i - 1]
             b == h[i]
             fr == frames[i]
  <2>1. i \in 0 .. n /\ ClientOK(H, d) /\ Grown(c, d)
    BY <1>1, <1>5
  <2>2. b = Apply(d, fr) /\ fr \in Good(H, rv, P) /\ fr.kind = "compact"
    BY <1>1, <1>3 DEF Compact
  <2> HIDE DEF d, b, fr
  <2>3. ClientOK(H, b) /\ Grown(d, b)
    BY <2>1, <2>2, ApplyKeeps
  <2>4. Grown(c, b)
    BY <2>1, <2>3, GrownTransitive
  <2> QED
    BY <2>1, <2>3, <2>4 DEF b
<1> HIDE DEF U
<1>6. \A i \in 0 .. n : i \in U
  BY <1>1, <1>4, <1>5, UpTo
<1>7. n \in U
  BY <1>1, <1>6
<1> QED
  BY <1>3, <1>7 DEF U

\* Frames made now are true to the history.
LEMMA FreshGood ==
    ASSUME ValuesOK, NEW H, HistoryOK(H), NEW e \in Entities
    PROVE  LET G == Good(H, rev, scenario.private) IN
           /\ FullUpdate(e) \in G /\ PublicFullUpdate(e) \in G
           /\ \A n \in Nat : Removed(e, n) \in G
           /\ \A m \in SUBSET Fields : /\ DeltaOf("delta", e, m) \in G
                                       /\ DeltaOf("compact", e, m) \in G
                                       /\ DeltaOf("compact", e, m).kind = "compact"
<1> DEFINE P == scenario.private
           G == Good(H, rev, P)
<1>1. rev[e] \in Nat /\ \A f \in Fields : val[e][f] \in Nat /\ val[e][f] = H[e][f][rev[e]]
  BY DEF ValuesOK, HistoryOK
<1>2. DOMAIN val[e] = Fields
  BY DEF ValuesOK
<1>3. ASSUME NEW m \in SUBSET Fields, NEW vals \in [m -> Nat], NEW kind \in FrameKinds
      PROVE  Frame(kind, e, vals) \in FrameSet /\ Frame(kind, e, vals).kind = kind
             /\ Frame(kind, e, vals).id = e /\ Frame(kind, e, vals).rev = rev[e]
             /\ Frame(kind, e, vals).vals = vals
  BY <1>1 DEF Frame, FrameSet
<1>4. FullUpdate(e) \in G
  <2>1. val[e] \in [Fields -> Nat] /\ "full" \in FrameKinds /\ Fields \in SUBSET Fields
    BY DEF ValuesOK, FrameKinds
  <2> DEFINE fr == FullUpdate(e)
  <2>2. fr \in FrameSet /\ fr.kind = "full" /\ fr.id = e /\ fr.rev = rev[e] /\ fr.vals = val[e]
    BY <1>3, <2>1 DEF FullUpdate
  <2> HIDE DEF fr
  <2>3. fr \in G
    BY <1>1, <1>2, <2>2 DEF Good
  <2> QED
    BY <2>3 DEF fr
<1>5. PublicFullUpdate(e) \in G
  <2> DEFINE vals == [f \in Fields |-> IF f \in P THEN 0 ELSE val[e][f]]
             fr == PublicFullUpdate(e)
  <2>1. vals \in [Fields -> Nat] /\ "full" \in FrameKinds /\ Fields \in SUBSET Fields
    BY <1>1 DEF FrameKinds
  <2>2. fr = Frame("full", e, vals)
    BY DEF PublicFullUpdate
  <2>3. \A f \in Fields : vals[f] = val[e][f] \/ (f \in P /\ vals[f] = 0)
    OBVIOUS
  <2>4. DOMAIN vals = Fields
    OBVIOUS
  <2> HIDE DEF vals, fr
  <2>5. fr \in FrameSet /\ fr.kind = "full" /\ fr.id = e /\ fr.rev = rev[e] /\ fr.vals = vals
    BY <1>3, <2>1, <2>2
  <2>6. fr \in G
    BY <1>1, <2>3, <2>5, <2>4 DEF Good
  <2> QED
    BY <2>6 DEF fr
<1>6. ASSUME NEW n \in Nat PROVE Removed(e, n) \in G
  <2> DEFINE fr == Removed(e, n)
  <2>1. fr = [kind |-> "removed", id |-> e, rev |-> n, vals |-> <<>>]
    BY DEF Removed
  <2>2. DOMAIN <<>> = {} /\ <<>> \in [{} -> Nat] /\ {} \in SUBSET Fields
    OBVIOUS
  <2>3. <<>> \in UNION {[m -> Nat] : m \in SUBSET Fields}
    BY <2>2
  <2> HIDE DEF fr
  <2>4. fr \in FrameSet
    BY <2>1, <2>3 DEF FrameSet, FrameKinds
  <2>5. fr \in G
    BY <2>1, <2>2, <2>4 DEF Good
  <2> QED
    BY <2>5 DEF fr
<1>7. ASSUME NEW m \in SUBSET Fields, NEW kind \in {"delta", "compact"}
      PROVE  DeltaOf(kind, e, m) \in G /\ DeltaOf(kind, e, m).kind = kind
  <2> DEFINE vals == Restrict(val[e], m)
             fr == DeltaOf(kind, e, m)
  <2>1. vals \in [m -> Nat] /\ kind \in FrameKinds
    BY <1>1 DEF Restrict, FrameKinds
  <2>2. \A f \in m : vals[f] = val[e][f]
    BY DEF Restrict
  <2>3. DOMAIN vals = m
    BY DEF Restrict
  <2>4. fr = Frame(kind, e, vals)
    BY DEF DeltaOf
  <2> HIDE DEF vals, fr
  <2>5. fr \in FrameSet /\ fr.kind = kind /\ fr.id = e /\ fr.rev = rev[e] /\ fr.vals = vals
    BY <1>3, <2>1, <2>4
  <2>6. fr \in G
    BY <1>1, <2>2, <2>3, <2>5 DEF Good
  <2> QED
    BY <2>5, <2>6 DEF fr
<1> QED
  BY <1>4, <1>5, <1>6, <1>7

\* The frames of the eventual-state lane are true to the history.
LEMMA ChangeFramesGood ==
    ASSUME ValuesOK, NEW H, HistoryOK(H), NEW N, NEW R, NEW W
    PROVE  /\ FramesOf(Sent(Changes(N, R, W))) \subseteq Good(H, rev, scenario.private)
           /\ FramesOf(Packable(Changes(N, R, W))) \subseteq Compact(H, rev, scenario.private)
<1> DEFINE G == Good(H, rev, scenario.private)
<1>1. ASSUME NEW ch \in Changes(N, R, W) PROVE eventualFrameForChange(ch) \in G
  <2>1. ch.id \in Entities /\ SentMask(ch) \in SUBSET Fields
    BY DEF Changes, ChangeType, SentMask
  <2> QED
    BY <2>1, FreshGood DEF eventualFrameForChange
<1>2. ASSUME NEW ch \in Changes(N, R, W), Fits(ch) PROVE eventualFrameForChange(ch).kind = "compact"
  <2>1. ch.id \in Entities /\ SentMask(ch) \in SUBSET Fields
    BY DEF Changes, ChangeType, SentMask
  <2>2. eventualFrameForChange(ch) = DeltaOf("compact", ch.id, SentMask(ch))
    BY <1>2 DEF eventualFrameForChange, Fits
  <2> QED
    BY <2>1, <2>2, FreshGood
<1> QED
  BY <1>1, <1>2 DEF FramesOf, Sent, Packable, Compact

-----------------------------------------------------------------------------
(* Revisions: the invariant, and one lemma for each action. *)

\* Every frame on its way is true to the history H.
LanesOK(H) ==
    /\ stream \in Seq(Good(H, rev, scenario.private))
    /\ \A d \in net : d.frames \in Seq(Compact(H, rev, scenario.private))
    /\ pass # NoPass =>
         \A e \in DOMAIN pass.spawns : pass.spawns[e] \in Good(H, rev, scenario.private)
RevisionInv == ValuesOK /\ \E H : HistoryOK(H) /\ LanesOK(H) /\ ClientOK(H, client)
Forward ==
    \A e \in DOMAIN client.ents \cap DOMAIN client'.ents : \A f \in Fields :
        \/ client'.ents[e][f] >= client.ents[e][f]
        \/ f \in scenario.private /\ client'.ents[e][f] = 0

\* A client that reads nothing does not go back.
LEMMA ClientStays ==
    ASSUME RevisionInv, client' = client
    PROVE  Forward
  BY DEF RevisionInv, ClientOK, Forward

\* A step of the server that sets no field.
LEMMA HistoryStays ==
    ASSUME UNCHANGED <<val, rev>>
    PROVE  /\ ValuesOK => ValuesOK'
           /\ \A H : HistoryOK(H) => HistoryOK(H)'
  BY DEF ValuesOK, HistoryOK

\* A new value starts the next revision of its entity.
LEMMA SetFieldForward ==
    ASSUME RevisionInv, NEW e \in Entities, NEW f \in Fields, SetField(e, f)
    PROVE  RevisionInv' /\ Forward
<1> DEFINE P == scenario.private
<1>1. PICK H : HistoryOK(H) /\ LanesOK(H) /\ ClientOK(H, client)
  BY DEF RevisionInv
<1> DEFINE J == [x \in Entities |-> [g \in Fields |-> [r \in Nat |->
                   IF x = e /\ g = f /\ r > rev[e] THEN rev[e] + 1 ELSE H[x][g][r]]]]
<1>2. /\ rev' = [rev EXCEPT ![e] = rev[e] + 1]
      /\ val' = [val EXCEPT ![e] = [val[e] EXCEPT ![f] = rev[e] + 1]]
      /\ UNCHANGED <<scenario, stream, net, pass, client>>
  BY DEF SetField, sendVars
<1>3. /\ val \in [Entities -> [Fields -> Nat]] /\ rev \in [Entities -> Nat]
      /\ \A x \in Entities, g \in Fields : val[x][g] <= rev[x]
  BY DEF RevisionInv, ValuesOK
<1>4. ValuesOK'
  <2>1. val' \in [Entities -> [Fields -> Nat]] /\ rev' \in [Entities -> Nat]
    BY <1>2, <1>3
  <2>2. ASSUME NEW x \in Entities, NEW g \in Fields PROVE val'[x][g] <= rev'[x]
    <3>1. val[x][g] \in Nat /\ rev[x] \in Nat /\ val[x][g] <= rev[x]
      BY <1>3
    <3>2. CASE x = e
      <4>1. rev'[x] = rev[x] + 1
        BY <1>2, <1>3, <3>2
      <4>2. val'[x][g] = IF g = f THEN rev[x] + 1 ELSE val[x][g]
        BY <1>2, <1>3, <3>2
      <4> QED
        BY <3>1, <4>1, <4>2
    <3>3. CASE x # e
      BY <1>2, <1>3, <3>1, <3>3
    <3> QED
      BY <3>2, <3>3
  <2> QED
    BY <2>1, <2>2 DEF ValuesOK
<1>5. /\ \A x \in Entities, g \in Fields : \A r \in Nat : H[x][g][r] \in Nat
      /\ \A r \in Nat : r <= rev[e] => H[e][f][r] <= rev[e]
      /\ \A r \in Nat : r >= rev[e] => H[e][f][r] <= rev[e]
  <2>1. \A x \in Entities, g \in Fields : \A r \in Nat : H[x][g][r] \in Nat
    BY <1>1 DEF HistoryOK, Histories
  <2>2. rev[e] \in Nat /\ val[e][f] \in Nat /\ val[e][f] <= rev[e] /\ H[e][f][rev[e]] = val[e][f]
    BY <1>1, <1>3 DEF HistoryOK
  <2>3. \A r \in Nat : r <= rev[e] => H[e][f][r] <= H[e][f][rev[e]]
    BY <1>1, <2>2 DEF HistoryOK, Monotone
  <2>4. \A r \in Nat : r >= rev[e] => H[e][f][r] = val[e][f]
    BY <1>1 DEF HistoryOK
  <2> QED
    BY <2>1, <2>2, <2>3, <2>4
<1>6. PICK I \in Histories : \A x \in Entities, g \in Fields : \A r \in Nat :
        I[x][g][r] = IF x = e /\ g = f /\ r > rev[e] THEN rev[e] + 1 ELSE H[x][g][r]
  <2>1. rev[e] + 1 \in Nat
    BY <1>3
  <2>2. J \in Histories
    BY <1>5, <2>1 DEF Histories
  <2>3. \A x \in Entities, g \in Fields : \A r \in Nat :
          J[x][g][r] = IF x = e /\ g = f /\ r > rev[e] THEN rev[e] + 1 ELSE H[x][g][r]
    OBVIOUS
  <2> HIDE DEF J
  <2> QED
    BY <2>2, <2>3
<1> HIDE DEF J
<1>7. \A x \in Entities, g \in Fields : \A r \in Nat : H[x][g][r] <= I[x][g][r]
  <2>1. rev[e] \in Nat
    BY <1>3
  <2> SUFFICES ASSUME NEW x \in Entities, NEW g \in Fields, NEW r \in Nat
               PROVE  H[x][g][r] <= I[x][g][r]
    OBVIOUS
  <2>2. I[x][g][r] = IF x = e /\ g = f /\ r > rev[e] THEN rev[e] + 1 ELSE H[x][g][r]
    BY <1>6
  <2>3. H[x][g][r] \in Nat
    BY <1>5
  <2>4. CASE x = e /\ g = f /\ r > rev[e]
    BY <1>5, <2>1, <2>2, <2>3, <2>4
  <2> QED
    BY <2>2, <2>3, <2>4
<1>8. HistoryOK(I)'
  <2>1. Monotone(I)
    <3> SUFFICES ASSUME NEW x \in Entities, NEW g \in Fields, NEW r \in Nat, NEW s \in Nat, r <= s
                 PROVE  I[x][g][r] <= I[x][g][s]
      BY DEF Monotone
    <3>1. H[x][g][r] <= H[x][g][s] /\ H[x][g][r] \in Nat /\ H[x][g][s] \in Nat
      BY <1>1, <1>5 DEF HistoryOK, Monotone
    <3>2. /\ I[x][g][r] = IF x = e /\ g = f /\ r > rev[e] THEN rev[e] + 1 ELSE H[x][g][r]
          /\ I[x][g][s] = IF x = e /\ g = f /\ s > rev[e] THEN rev[e] + 1 ELSE H[x][g][s]
      BY <1>6
    <3>3. rev[e] \in Nat
      BY <1>3
    <3>4. CASE x = e /\ g = f /\ s > rev[e] /\ ~(r > rev[e])
      <4>1. H[e][f][r] <= rev[e]
        BY <1>5, <3>3, <3>4
      <4> QED
        BY <3>1, <3>2, <3>3, <3>4, <4>1
    <3> QED
      BY <3>1, <3>2, <3>3, <3>4
  <2>2. ASSUME NEW x \in Entities, NEW g \in Fields, NEW r \in Nat, r >= rev'[x]
        PROVE  I[x][g][r] = val'[x][g]
    <3>1. I[x][g][r] = IF x = e /\ g = f /\ r > rev[e] THEN rev[e] + 1 ELSE H[x][g][r]
      BY <1>6
    <3>2. rev[x] \in Nat /\ (r >= rev[x] => H[x][g][r] = val[x][g])
      BY <1>1, <1>3 DEF HistoryOK
    <3>3. CASE x = e
      <4>1. rev'[x] = rev[x] + 1 /\ (val'[x][g] = IF g = f THEN rev[x] + 1 ELSE val[x][g])
        BY <1>2, <1>3, <3>3
      <4>2. r > rev[x]
        BY <2>2, <3>2, <4>1
      <4> QED
        BY <3>1, <3>2, <3>3, <4>1, <4>2
    <3>4. CASE x # e
      BY <1>2, <1>3, <2>2, <3>1, <3>2, <3>4
    <3> QED
      BY <3>3, <3>4
  <2> QED
    BY <1>6, <2>1, <2>2 DEF HistoryOK
<1>9. Good(H, rev, P) \subseteq Good(I, rev', P) /\ Compact(H, rev, P) \subseteq Compact(I, rev', P)
  <2>1. ASSUME NEW fr \in Good(H, rev, P) PROVE fr \in Good(I, rev', P)
    <3>1. /\ fr \in FrameSet /\ (fr.kind # "removed" => fr.rev <= rev[fr.id])
          /\ fr.kind = "full" => DOMAIN fr.vals = Fields
          /\ fr.kind = "removed" => DOMAIN fr.vals = {}
          /\ \A g \in DOMAIN fr.vals : \/ fr.vals[g] = H[fr.id][g][fr.rev]
                                       \/ fr.kind = "full" /\ g \in P /\ fr.vals[g] = 0
      BY DEF Good
    <3>2. fr.id \in Entities /\ fr.rev \in Nat /\ DOMAIN fr.vals \subseteq Fields
      BY <3>1 DEF FrameSet
    <3>3. rev[fr.id] \in Nat /\ rev'[fr.id] \in Nat /\ rev'[fr.id] >= rev[fr.id]
      BY <1>2, <1>3, <3>2
    <3>4. ASSUME NEW g \in DOMAIN fr.vals PROVE I[fr.id][g][fr.rev] = H[fr.id][g][fr.rev]
      <4>1. fr.rev <= rev[fr.id]
        BY <3>1
      <4> QED
        BY <1>6, <3>2, <3>3, <4>1
    <3> QED
      BY <3>1, <3>2, <3>3, <3>4 DEF Good
  <2> QED
    BY <2>1 DEF Compact
<1>10. LanesOK(I)'
  <2> DEFINE A == Good(H, rev, P)
             B == Good(I, rev', P)
             C == Compact(H, rev, P)
             D == Compact(I, rev', P)
  <2>1. /\ stream \in Seq(A) /\ \A d \in net : d.frames \in Seq(C)
        /\ pass # NoPass => \A e1 \in DOMAIN pass.spawns : pass.spawns[e1] \in A
    BY <1>1 DEF LanesOK
  <2>2. A \subseteq B /\ C \subseteq D
    BY <1>9
  <2> HIDE DEF A, B, C, D
  <2>3. \A X, Y : X \subseteq Y => Seq(X) \subseteq Seq(Y)
    OBVIOUS
  <2>4. stream \in Seq(B) /\ (\A d \in net : d.frames \in Seq(D))
        /\ (pass # NoPass => \A e1 \in DOMAIN pass.spawns : pass.spawns[e1] \in B)
    BY <2>1, <2>2, <2>3
  <2> QED
    BY <1>1, <1>2, <2>4 DEF LanesOK, B, D
<1>11. ClientOK(I, client)'
  <2>1. ASSUME NEW x \in DOMAIN client.ents, NEW g \in Fields
        PROVE  client.ents[x][g] <= I[x][g][client.last[x]]
    <3>1. /\ x \in Entities /\ client.last[x] \in Nat
          /\ client.ents[x][g] \in Nat /\ client.ents[x][g] <= H[x][g][client.last[x]]
      BY <1>1 DEF ClientOK
    <3>2. H[x][g][client.last[x]] <= I[x][g][client.last[x]]
      BY <1>7, <3>1
    <3>3. H[x][g][client.last[x]] \in Nat /\ I[x][g][client.last[x]] \in Nat
      BY <1>5, <1>6, <3>1 DEF Histories
    <3> QED
      BY <3>1, <3>2, <3>3
  <2> QED
    BY <1>1, <1>2, <2>1 DEF ClientOK
<1>12. Forward
  BY <1>2, ClientStays
<1> QED
  BY <1>4, <1>8, <1>10, <1>11, <1>12 DEF RevisionInv

\* The flushed tick is true to the history H as well.
FlushedOK(H) ==
    pass # NoPass =>
         \A e \in DOMAIN pass.spawns : pass.spawns[e] \in Good(H, rev, scenario.private)

\* A step that puts nothing on its way to the client.
LEMMA QuietForward ==
    ASSUME RevisionInv, UNCHANGED <<scenario, val, rev, stream, client>>, net' \subseteq net,
           \A H : HistoryOK(H) /\ LanesOK(H) => FlushedOK(H)'
    PROVE  RevisionInv' /\ Forward
<1>1. PICK H : HistoryOK(H) /\ LanesOK(H) /\ ClientOK(H, client)
  BY DEF RevisionInv
<1>2. ValuesOK' /\ HistoryOK(H)'
  BY <1>1, HistoryStays DEF RevisionInv
<1>3. LanesOK(H)'
  BY <1>1 DEF LanesOK, FlushedOK
<1>4. ClientOK(H, client)'
  BY <1>1
<1> QED
  BY <1>2, <1>3, <1>4, ClientStays DEF RevisionInv

\* Game code keeps every frame on its way true to the history.
LEMMA GameForward ==
    ASSUME OwnerInv, RevisionInv, GameAction
    PROVE  RevisionInv' /\ Forward
<1>1. CASE \E e \in Entities, f \in Fields : SetField(e, f)
  BY <1>1, SetFieldForward
<1>2. CASE ~\E e \in Entities, f \in Fields : SetField(e, f)
  <2>1. UNCHANGED <<val, rev, scenario, stream, net, client>>
    BY <1>2 DEF GameAction, DeleteEntity, CreateEntity, SetOwner, SetEntityVisibilityGroup,
                SetMember, sendVars
  <2>2. SamePass
    BY GameKeeps DEF GameKeepsOwners, OwnerInv
  <2>3. \A H : HistoryOK(H) /\ LanesOK(H) => FlushedOK(H)'
    BY <2>1, <2>2 DEF LanesOK, FlushedOK, SamePass
  <2> QED
    BY <2>1, <2>3, QuietForward
<1> QED
  BY <1>1, <1>2

\* Steps that send nothing keep the frames on their way as they are.
LEMMA ServerForward ==
    ASSUME OwnerInv, RevisionInv,
           \/ AddSession \/ DrainMessages \/ BroadcastToOthers \/ SerializeRemoval
           \/ Acknowledged \/ Lost
    PROVE  RevisionInv' /\ Forward
<1>1. /\ UNCHANGED <<scenario, val, rev, stream, net, client>>
      /\ pass' = pass \/ pass' = NoPass \/ (pass # NoPass /\ pass'.spawns = pass.spawns)
  <2>1. CASE SerializeRemoval
    BY <2>1, SerializeKeepsPass DEF OwnerInv, gameVars
  <2>2. CASE ~SerializeRemoval
    BY <2>2 DEF AddSession, DrainMessages, BroadcastToOthers, Acknowledged, Lost, Enqueue,
       EndPass, gameVars, sendVars
  <2> QED
    BY <2>1, <2>2
<1>2. \A H : HistoryOK(H) /\ LanesOK(H) => FlushedOK(H)'
  BY <1>1 DEF LanesOK, FlushedOK
<1> QED
  BY <1>1, <1>2, QuietForward

\* FlushAll serializes spawns at their revision.
LEMMA FlushForward ==
    ASSUME OwnerInv, RevisionInv, FlushAll
    PROVE  RevisionInv' /\ Forward
<1>1. /\ UNCHANGED <<scenario, val, rev, stream, net, client>> /\ DOMAIN pass'.spawns = spawned
      /\ \A e \in spawned : pass'.spawns[e] = FullUpdate(e)
  BY DEF FlushAll, Flush, sendVars
<1>2. spawned \subseteq Entities
  BY DEF OwnerInv, BasicOK
<1>3. ASSUME NEW H, HistoryOK(H), LanesOK(H) PROVE FlushedOK(H)'
  <2>1. \A e \in spawned : FullUpdate(e) \in Good(H, rev, scenario.private)
    BY <1>2, <1>3, FreshGood DEF RevisionInv
  <2> QED
    BY <1>1, <2>1 DEF FlushedOK
<1> QED
  BY <1>1, <1>3, QuietForward

\* Frames that are put on the stream or sent in datagrams.
LEMMA PutForward ==
    ASSUME RevisionInv, UNCHANGED <<scenario, val, rev, client>>,
           pass' = pass \/ pass' = NoPass, NEW frames, stream' = stream \o frames,
           \A H : HistoryOK(H) /\ LanesOK(H) => frames \in Seq(Good(H, rev, scenario.private)),
           \A H : HistoryOK(H) =>
               \A d \in net' \ net : d.frames \in Seq(Compact(H, rev, scenario.private))
    PROVE  RevisionInv' /\ Forward
<1>1. PICK H : HistoryOK(H) /\ LanesOK(H) /\ ClientOK(H, client)
  BY DEF RevisionInv
<1>2. ValuesOK' /\ HistoryOK(H)'
  BY <1>1, HistoryStays DEF RevisionInv
<1> DEFINE A == Good(H, rev, scenario.private)
           C == Compact(H, rev, scenario.private)
<1>3. stream \in Seq(A) /\ frames \in Seq(A) /\ \A d \in net \cup net' : d.frames \in Seq(C)
  BY <1>1 DEF LanesOK
<1>4. LanesOK(H)'
  <2>1. A' = A /\ C' = C
    BY DEF Good, Compact
  <2>2. stream' \in Seq(A)
    <3> HIDE DEF A
    <3> QED
      BY <1>3, ConcatProperties
  <2>3. (stream \in Seq(A))' /\ (\A d \in net : d.frames \in Seq(C))'
    <3> HIDE DEF A, C
    <3> QED
      BY <1>3, <2>1, <2>2
  <2> QED
    BY <1>1, <2>3 DEF LanesOK
<1>5. ClientOK(H, client)'
  BY <1>1
<1> QED
  BY <1>2, <1>4, <1>5, ClientStays DEF RevisionInv

\* The snapshot is true to the history.
LEMMA SnapshotForward ==
    ASSUME OwnerInv, RevisionInv, SendSnapshot
    PROVE  RevisionInv' /\ Forward
<1> DEFINE S == {e \in live : Allows(e)}
           F == [e \in S |-> fullUpdateForSession(e)]
           frames == Frames(S, fullUpdateForSession)
<1>1. /\ UNCHANGED <<scenario, val, rev, client, pass, net>>
      /\ stream' = stream \o frames
  BY DEF SendSnapshot, gameVars
<1>2. S \subseteq Entities
  BY DEF OwnerInv, BasicOK
<1>3. ASSUME NEW H, HistoryOK(H) PROVE frames \in Seq(Good(H, rev, scenario.private))
  <2> DEFINE G == Good(H, rev, scenario.private)
  <2>1. \A e \in Entities : FullUpdate(e) \in G /\ PublicFullUpdate(e) \in G
    BY <1>3, FreshGood DEF RevisionInv
  <2> HIDE DEF G
  <2>2. \A e \in S : F[e] \in G
    BY <1>2, <2>1 DEF fullUpdateForSession
  <2> HIDE DEF S
  <2>3. frames = [i \in 1 .. Len(SetToSeq(S)) |-> F[SetToSeq(S)[i]]]
    BY <1>2, FramesOver DEF Frames, S
  <2> HIDE DEF F, frames
  <2>4. frames \in Seq(G)
    BY <1>2, <2>2, <2>3, FramesInto
  <2> QED
    BY <2>4 DEF G
<1> HIDE DEF frames
<1> QED
  BY <1>1, <1>3, PutForward

\* The frames a pass sends are true to the history.
LEMMA SendForward ==
    ASSUME RevisionInv, UNCHANGED <<scenario, val, rev, client>>, pass' = NoPass,
           NEW frames,
           \A H : HistoryOK(H) /\ LanesOK(H) => frames \in Seq(Good(H, rev, scenario.private)),
           NEW sent, NEW N, NEW R, NEW W, SendOK(sent, N, R, W), Send(frames, sent)
    PROVE  RevisionInv' /\ Forward
<1> DEFINE all == frames \o sent.frames
<1>1. stream' = stream \o all /\ net' = net \cup sent.packets
  BY DEF Send
<1>2. ASSUME NEW H, HistoryOK(H)
      PROVE  /\ sent.frames \in Seq(Good(H, rev, scenario.private))
             /\ \A d \in sent.packets : d.frames \in Seq(Compact(H, rev, scenario.private))
  <2>1. /\ FramesOf(Sent(Changes(N, R, W))) \subseteq Good(H, rev, scenario.private)
        /\ FramesOf(Packable(Changes(N, R, W))) \subseteq Compact(H, rev, scenario.private)
    BY <1>2, ChangeFramesGood DEF RevisionInv
  <2>2. \A X, Y : X \subseteq Y => Seq(X) \subseteq Seq(Y)
    OBVIOUS
  <2>3. /\ Seq(FramesOf(Sent(Changes(N, R, W)))) \subseteq Seq(Good(H, rev, scenario.private))
        /\ Seq(FramesOf(Packable(Changes(N, R, W)))) \subseteq Seq(Compact(H, rev, scenario.private))
    BY <2>1, <2>2
  <2> QED
    BY <2>3 DEF SendOK
<1>3. ASSUME NEW H, HistoryOK(H), LanesOK(H)
      PROVE  all \in Seq(Good(H, rev, scenario.private))
  <2> DEFINE G == Good(H, rev, scenario.private)
  <2>1. frames \in Seq(G) /\ sent.frames \in Seq(G)
    BY <1>2, <1>3
  <2> HIDE DEF G
  <2> QED
    BY <2>1, ConcatProperties DEF G
<1>4. \A H : HistoryOK(H) =>
          \A d \in net' \ net : d.frames \in Seq(Compact(H, rev, scenario.private))
  BY <1>1, <1>2
<1> HIDE DEF all
<1> QED
  BY <1>1, <1>3, <1>4, PutForward

\* The frames of a pass that come from what it flushed.
LEMMA FlushedGood ==
    ASSUME RevisionInv, RemovalsOK, PassOK, BasicOK, pass # NoPass, NEW H, HistoryOK(H), LanesOK(H)
    PROVE  LET G == Good(H, rev, scenario.private) IN
           /\ \A e \in DOMAIN pass.spawns : pass.spawns[e] \in G
           /\ \A e \in DOMAIN pass.removed : Removed(e, pass.removed[e]) \in G
           /\ \A e \in Entities : /\ wrappedFullForSession(e) \in G /\ ExitFrame(e) \in G
                                  /\ PublicFullUpdate(e) \in G /\ GrantFrame(e) \in G
<1> DEFINE G == Good(H, rev, scenario.private)
<1>1. ValuesOK /\ DOMAIN pass.removed \subseteq Entities
  BY DEF RevisionInv, RemovalsOK, PassOK, BasicOK
<1>2. /\ \A e \in DOMAIN pass.spawns : pass.spawns[e] \in G
      /\ \A e \in DOMAIN pass.removed : pass.removed[e] \in Nat
  BY DEF LanesOK, RemovalsOK, PassOK
<1>3. \A e \in Entities : /\ FullUpdate(e) \in G /\ PublicFullUpdate(e) \in G
                          /\ \A n \in Nat : Removed(e, n) \in G
  BY <1>1, FreshGood
<1>4. \A e \in Entities : rev[e] \in Nat /\ 0 \in Nat
  BY <1>1 DEF ValuesOK
<1> HIDE DEF G
<1>5. \A e \in Entities : wrappedFullForSession(e) \in G /\ GrantFrame(e) \in G
  BY <1>2, <1>3 DEF wrappedFullForSession, fullUpdateForSession, GrantFrame
<1>6. \A e \in Entities : ExitFrame(e) \in G
  BY <1>2, <1>3, <1>4 DEF ExitFrame
<1> QED
  BY <1>1, <1>2, <1>3, <1>5, <1>6 DEF G

\* Both passes send frames that are true to the history.
LEMMA PassForward ==
    ASSUME OwnerInv, RevisionInv, BroadcastBlind \/ BroadcastFiltered
    PROVE  RevisionInv' /\ Forward
<1>1. /\ UNCHANGED <<scenario, val, rev, client>> /\ pass' = NoPass /\ pass # NoPass
  BY DEF BroadcastBlind, BroadcastFiltered, Sending, EndPass
<1>2. CASE BroadcastBlind /\ Idle
  <2>1. UNCHANGED <<stream, net>>
    BY <1>2 DEF BroadcastBlind, sendVars
  <2>2. \A H : HistoryOK(H) /\ LanesOK(H) => FlushedOK(H)'
    BY <1>1 DEF FlushedOK
  <2> QED
    BY <1>1, <2>1, <2>2, QuietForward
<1>3. CASE BroadcastBlind /\ ~Idle
  <2>1. PICK sent : SendOK(sent, BlindNames, Strangers, Entities) /\ Send(BlindFrames, sent)
    BY <1>3, BlindSends
  <2>2. ASSUME NEW H, HistoryOK(H), LanesOK(H)
        PROVE  BlindFrames \in Seq(Good(H, rev, scenario.private))
    BY <1>1, <2>2, FlushedGood, BlindFramesIn DEF OwnerInv
  <2> QED
    BY <1>1, <2>1, <2>2, SendForward
<1>4. CASE BroadcastFiltered
  <2>1. PICK sent : SendOK(sent, FilteredNames, NotMine, Entities) /\ Send(FilteredFrames, sent)
    BY <1>4, FilteredSends
  <2>2. ASSUME NEW H, HistoryOK(H), LanesOK(H)
        PROVE  FilteredFrames \in Seq(Good(H, rev, scenario.private))
    <3>1. live \subseteq Entities
      BY DEF OwnerInv, BasicOK
    <3> QED
      BY <1>1, <2>2, <3>1, FlushedGood, FilteredFramesIn DEF OwnerInv
  <2> QED
    BY <1>1, <2>1, <2>2, SendForward
<1> QED
  BY <1>2, <1>3, <1>4

\* A frame read from the stream only moves the client's entity forward, or
\* clears its owner-only fields.
LEMMA StreamForward ==
    ASSUME RevisionInv, StreamDeliver
    PROVE  RevisionInv' /\ Forward
<1>1. PICK H : HistoryOK(H) /\ LanesOK(H) /\ ClientOK(H, client)
  BY DEF RevisionInv
<1> DEFINE P == scenario.private
           G == Good(H, rev, P)
<1>2. /\ UNCHANGED <<scenario, val, rev, net, pass>> /\ stream # <<>>
      /\ client' = Apply(client, Head(stream)) /\ stream' = Tail(stream)
  BY DEF StreamDeliver, gameVars
<1>3. ValuesOK' /\ HistoryOK(H)'
  BY <1>1, <1>2, HistoryStays DEF RevisionInv
<1>4. Head(stream) \in G /\ stream' \in Seq(G)
  <2>1. stream \in Seq(G)
    BY <1>1 DEF LanesOK
  <2> HIDE DEF G
  <2> QED
    BY <1>2, <2>1
<1>5. ClientOK(H, client') /\ Newer(client, client', P)
  BY <1>1, <1>2, <1>4, ApplyKeeps DEF HistoryOK
<1>6. LanesOK(H)'
  BY <1>1, <1>2, <1>4 DEF LanesOK
<1> QED
  BY <1>3, <1>5, <1>6 DEF RevisionInv, Forward, Newer

\* A datagram, whenever it is read, only moves the client's entities forward.
LEMMA DatagramForward ==
    ASSUME RevisionInv, DatagramDeliver
    PROVE  RevisionInv' /\ Forward
<1>1. PICK H : HistoryOK(H) /\ LanesOK(H) /\ ClientOK(H, client)
  BY DEF RevisionInv
<1> DEFINE P == scenario.private
<1>2. PICK d \in net :
        /\ UNCHANGED <<scenario, val, rev, stream, pass>> /\ net' = net \ {d}
        /\ client' = FoldLeft(Apply, client, d.frames)
  BY DEF DatagramDeliver, gameVars
<1>3. ValuesOK' /\ HistoryOK(H)'
  BY <1>1, <1>2, HistoryStays DEF RevisionInv
<1>4. d.frames \in Seq(Compact(H, rev, P))
  BY <1>1 DEF LanesOK
<1>5. ClientOK(H, client') /\ Grown(client, client')
  BY <1>1, <1>2, <1>4, DatagramGrows DEF HistoryOK
<1>6. LanesOK(H)'
  BY <1>1, <1>2 DEF LanesOK
<1> QED
  BY <1>3, <1>5, <1>6 DEF RevisionInv, Forward, Grown

\* Every field starts at its default and at revision 0.
LEMMA InitRevisionInv == Init => RevisionInv
<1> SUFFICES ASSUME Init PROVE RevisionInv
  OBVIOUS
<1>1. scenario.live \subseteq Entities /\ known \subseteq Entities
  BY ReplicationAssumption DEF Init, ScenarioType
<1>2. PICK H \in Histories : \A e \in Entities, f \in Fields : \A r \in Nat : H[e][f][r] = 0
  <2> DEFINE J == [e \in Entities |-> [f \in Fields |-> [r \in Nat |-> 0]]]
  <2>1. J \in Histories /\ \A e \in Entities, f \in Fields : \A r \in Nat : J[e][f][r] = 0
    BY DEF Histories
  <2> HIDE DEF J
  <2> QED
    BY <2>1
<1>3. val = [e \in Entities |-> [f \in Fields |-> 0]] /\ rev = [e \in Entities |-> 0]
  BY DEF Init
<1>4. ValuesOK /\ HistoryOK(H)
  BY <1>2, <1>3 DEF ValuesOK, HistoryOK, Monotone
<1>5. LanesOK(H)
  BY DEF Init, LanesOK
<1>6. ClientOK(H, client)
  <2>1. client = [ents |-> [e \in known |-> val[e]], last |-> [e \in known |-> 0]]
    BY DEF Init
  <2>2. \A e \in known : val[e] = [f \in Fields |-> 0]
    BY <1>1, <1>3
  <2> QED
    BY <1>1, <1>2, <2>1, <2>2 DEF ClientOK
<1> QED
  BY <1>4, <1>5, <1>6 DEF RevisionInv

\* Every step keeps the frames true and the client forward.
LEMMA NextRevisionInv ==
    ASSUME OwnerInv, RevisionInv, Next
    PROVE  RevisionInv' /\ Forward
<1>1. CASE GameAction
  BY <1>1, GameForward
<1>2. CASE SendSnapshot
  BY <1>2, SnapshotForward
<1>3. CASE \/ AddSession \/ DrainMessages \/ BroadcastToOthers \/ SerializeRemoval
           \/ Acknowledged \/ Lost
  BY <1>3, ServerForward
<1>4. CASE FlushAll
  BY <1>4, FlushForward
<1>5. CASE BroadcastBlind \/ BroadcastFiltered
  BY <1>5, PassForward
<1>6. CASE StreamDeliver
  BY <1>6, StreamForward
<1>7. CASE DatagramDeliver
  BY <1>7, DatagramForward
<1> QED
  BY <1>1, <1>2, <1>3, <1>4, <1>5, <1>6, <1>7 DEF Next, GameAction

\* A step that changes nothing keeps the frames true.
LEMMA StutterRevisionInv ==
    ASSUME RevisionInv, UNCHANGED vars
    PROVE  RevisionInv'
<1>1. UNCHANGED <<scenario, val, rev, stream, net, client, pass>>
  BY DEF vars, gameVars, sendVars
<1>2. \A H : HistoryOK(H) /\ LanesOK(H) => FlushedOK(H)'
  BY <1>1 DEF LanesOK, FlushedOK
<1> QED
  BY <1>1, <1>2, QuietForward

\* There is one history of the fields, by entity and revision, that every frame
\* serialized, queued or on the network states at its revision, and that the
\* client's entities do not exceed (StateRevision, golem/entity.go).
THEOREM HistoryInvariant == Spec => [](OwnerInv /\ RevisionInv)
<1>1. Init => OwnerInv /\ RevisionInv
  BY InitOwnerInv, InitRevisionInv
<1>2. OwnerInv /\ RevisionInv /\ [Next]_vars => (OwnerInv /\ RevisionInv)'
  BY NextOwnerInv, StutterOwnerInv, NextRevisionInv, StutterRevisionInv
<1> QED
  BY <1>1, <1>2, PTL DEF Spec

\* EntityManager.isStale is enough: in whatever order the stream and the
\* datagrams are read, no frame takes a field the client shows back to an older
\* value, except a full state that hides an owner-only field.
THEOREM ClientNeverGoesBack == Spec => NeverGoesBack
<1> DEFINE P == \A e \in DOMAIN client.ents \cap DOMAIN client'.ents : \A f \in Fields :
                    \/ client'.ents[e][f] >= client.ents[e][f]
                    \/ f \in scenario.private /\ client'.ents[e][f] = 0
<1>1. OwnerInv /\ RevisionInv /\ [Next]_vars => [P]_vars
  BY NextRevisionInv DEF Forward
<1> QED
  BY <1>1, HistoryInvariant, PTL DEF Spec, NeverGoesBack

-----------------------------------------------------------------------------
(* Interest mode: what may be sent for an entity, and to whom, one lemma for each action. *)

Leaving == IF diff # NoDiff /\ diff.has THEN diff.exited ELSE {}
InterestOwed == known \cup forgotten \cup Leaving
Untrusted == {e \in live : Scoped /\ e \notin trusted}
DiffOK ==
    diff # NoDiff /\ diff.has =>
        /\ diff.entered \cup diff.stayed \subseteq known \cup forgotten
        /\ diff.entered \cup diff.stayed \cup diff.exited \subseteq born
InterestPassOK ==
    pass # NoPass =>
        /\ diff # NoDiff
        /\ DOMAIN pass.spawns \cup DOMAIN pass.deltas \subseteq born
        /\ \A e \in DOMAIN pass.spawns : pass.spawns[e].id = e
        /\ \A e \in DOMAIN pass.deltas : pass.deltas[e].id = e
TrustInv ==
    /\ BasicOK /\ RefreshOK /\ RemovalsOK /\ StreamOK /\ VerdictsOK /\ DiffOK /\ InterestPassOK
    /\ known \cup forgotten \subseteq born
    /\ TrackerOK(tracker, InterestOwed, Untrusted, Entities)
Granted(e) == e \in DOMAIN diff.refresh /\ diff.refresh[e].new = "me"
Confined(fr) ==
    /\ fr.kind # "removed" => fr.id \in known \cup forgotten
    /\ fr.id \in live => \A f \in DOMAIN fr.vals \cap scenario.private :
          fr.vals[f] = 0 \/ Mine(fr.id) \/ fr.id \in trusted' \/ Granted(fr.id)
AllConfined == \A fr \in NewFrames : Confined(fr)

\* A server starts with nothing owed and no tick under way.
LEMMA InitTrust == ASSUME InitInterest PROVE TrustInv
<1>1. OwnerInv
  BY InitOwnerInv DEF InitInterest
<1>2. known = {} /\ forgotten = {} /\ diff = NoDiff /\ pass = NoPass /\ tracker = newEventualStateTracker
  BY DEF InitInterest, Init
<1>3. TrackerOK(tracker, InterestOwed, Untrusted, Entities)
  BY <1>2, NewTracker
<1> QED
  BY <1>1, <1>2, <1>3 DEF OwnerInv, TrustInv, DiffOK, RemovalsOK, InterestPassOK

\* A step that leaves the tracker alone, and what was promised about it.
LEMMA TrustStays ==
    ASSUME TrackerOK(tracker, InterestOwed, Untrusted, Entities), tracker' = tracker,
           InterestOwed \subseteq InterestOwed', InterestOwed \cap Untrusted' \subseteq Untrusted
    PROVE  TrackerOK(tracker', InterestOwed', Untrusted', Entities)
  BY ChangesGrow

\* Changes are owed only for entities that were created.
LEMMA OwedBorn == ASSUME TrustInv PROVE InterestOwed \subseteq born
  BY DEF TrustInv, InterestOwed, Leaving, DiffOK

\* Game code sends nothing, and creates no entity that is owed a change already.
LEMMA GameKeepsTrust ==
    ASSUME TrustInv, GameAction, UNCHANGED <<diff, forgotten, trusted>>
    PROVE  TrustInv' /\ AllConfined
<1>1. GameKeepsOwners
  BY GameKeeps DEF TrustInv
<1>2. /\ BasicOK' /\ RefreshOK' /\ born \subseteq born' /\ live' \cap born \subseteq live
      /\ SamePass /\ UNCHANGED <<scenario, sess, known, tracker, stream, net, msgQueue>>
  BY <1>1 DEF GameKeepsOwners
<1>3. InterestOwed' = InterestOwed
  BY <1>2 DEF InterestOwed, Leaving, NoDiff
<1>4. InterestOwed \cap Untrusted' \subseteq Untrusted
  BY <1>2, OwedBorn DEF Untrusted, Scoped
<1>5. TrackerOK(tracker', InterestOwed', Untrusted', Entities)
  BY <1>2, <1>3, <1>4, TrustStays DEF TrustInv
<1>6. StreamOK' /\ VerdictsOK'
  BY <1>2 DEF TrustInv, StreamOK, VerdictsOK
<1>7. DiffOK' /\ RemovalsOK' /\ InterestPassOK'
  BY <1>2 DEF TrustInv, BasicOK, DiffOK, RemovalsOK, InterestPassOK, NoDiff, SamePass
<1>8. AllConfined
  BY <1>2, NoNewFrames DEF AllConfined, TrustInv
<1> QED
  BY <1>2, <1>5, <1>6, <1>7, <1>8 DEF TrustInv

\* AssignFOI, RemoveFOI and a connect send nothing; what RemoveFOI drops from the
\* known set is still owed what its tracker holds.
LEMMA FieldsKeepTrust ==
    ASSUME TrustInv, (\E f \in setting.fois : AssignFOI(f)) \/ RemoveFOI \/ Connect
    PROVE  TrustInv' /\ AllConfined
<1>1. /\ UNCHANGED <<scenario, live, born, rev, owner, refresh, fdirty, flushMask, spawned, despawned, pass,
                     tracker, stream, net, msgQueue, diff, trusted>>
      /\ known' \cup forgotten' = known \cup forgotten
  BY DEF AssignFOI, RemoveFOI, Connect, vars, gameVars, sendVars, interestVars
<1>2. InterestOwed' = InterestOwed
  BY <1>1 DEF InterestOwed, Leaving, NoDiff
<1>3. Untrusted' = Untrusted
  BY <1>1 DEF Untrusted, Scoped
<1>4. TrackerOK(tracker', InterestOwed', Untrusted', Entities)
  BY <1>1, <1>2, <1>3 DEF TrustInv
<1>5. BasicOK' /\ RefreshOK' /\ StreamOK' /\ VerdictsOK'
  BY <1>1 DEF TrustInv, BasicOK, Removal, RefreshOK, StreamOK, VerdictsOK, Scoped
<1>6. DiffOK' /\ RemovalsOK' /\ InterestPassOK'
  BY <1>1 DEF TrustInv, DiffOK, RemovalsOK, Removal, InterestPassOK, NoDiff, NoPass
<1>7. AllConfined
  BY <1>1, NoNewFrames DEF AllConfined, TrustInv
<1> QED
  BY <1>1, <1>4, <1>5, <1>6, <1>7 DEF TrustInv

\* The verdicts of the transport requeue only what was in flight, as it was sent.
LEMMA DrainKeepsTrust ==
    ASSUME TrustInv, InterestDrain
    PROVE  TrustInv' /\ AllConfined
<1>1. DrainMessages /\ UNCHANGED interestVars
  BY DEF InterestDrain
<1>2. /\ UNCHANGED <<scenario, live, born, rev, owner, refresh, fdirty, flushMask, spawned, despawned, pass,
                     known, stream, net, diff, forgotten, trusted>>
  BY <1>1 DEF DrainMessages, gameVars, interestVars
<1>3. TrackerOK(tracker', InterestOwed, Untrusted, Entities) /\ VerdictsOK'
  BY <1>1, DrainMessagesTracker DEF TrustInv
<1>4. InterestOwed' = InterestOwed /\ Untrusted' = Untrusted
  BY <1>2 DEF InterestOwed, Leaving, NoDiff, Untrusted, Scoped
<1>5. BasicOK' /\ RefreshOK' /\ DiffOK' /\ RemovalsOK' /\ InterestPassOK'
  BY <1>2 DEF TrustInv, BasicOK, Removal, RefreshOK, Scoped, DiffOK, RemovalsOK, InterestPassOK,
     NoDiff, NoPass
<1>6. AllConfined /\ StreamOK'
  BY <1>2, NoNewFrames DEF AllConfined, TrustInv
<1> QED
  BY <1>2, <1>3, <1>4, <1>5, <1>6 DEF TrustInv

\* The network delivers and loses, and adds nothing.
LEMMA NetworkKeepsTrust ==
    ASSUME TrustInv, NetworkStep
    PROVE  TrustInv' /\ AllConfined
<1>1. /\ UNCHANGED <<scenario, live, born, rev, owner, refresh, fdirty, flushMask, spawned, despawned, pass,
                     known, tracker, diff, forgotten, trusted>>
      /\ net' \subseteq net /\ (stream' = stream \/ (stream # <<>> /\ stream' = Tail(stream)))
      /\ msgQueue' = msgQueue \/ \E x : msgQueue' = Append(msgQueue, x)
  BY DEF NetworkStep, StreamDeliver, DatagramDeliver, Acknowledged, Lost, Enqueue, gameVars,
     interestVars
<1>2. BasicOK' /\ RefreshOK' /\ DiffOK' /\ RemovalsOK' /\ InterestPassOK'
  BY <1>1 DEF TrustInv, BasicOK, Removal, RefreshOK, Scoped, DiffOK, RemovalsOK, InterestPassOK,
     NoDiff, NoPass
<1>3. InterestOwed' = InterestOwed /\ Untrusted' = Untrusted
  BY <1>1 DEF InterestOwed, Leaving, NoDiff, Untrusted, Scoped
<1>4. TrackerOK(tracker', InterestOwed', Untrusted', Entities)
  BY <1>1, <1>3 DEF TrustInv
<1>5. AllConfined /\ StreamOK'
  BY <1>1, NoNewFrames DEF AllConfined, TrustInv
<1>6. VerdictsOK'
  <2>1. PICK X : msgQueue \in Seq(X)
    BY DEF TrustInv, VerdictsOK
  <2>2. ASSUME NEW x, msgQueue' = Append(msgQueue, x) PROVE VerdictsOK'
    <3>1. msgQueue' \in Seq(X \cup {x})
      BY <2>1, <2>2
    <3> QED
      BY <3>1 DEF VerdictsOK
  <2>3. CASE msgQueue' = msgQueue
    BY <2>1, <2>3 DEF VerdictsOK
  <2> QED
    BY <1>1, <2>2, <2>3
<1> QED
  BY <1>1, <1>2, <1>4, <1>5, <1>6 DEF TrustInv

\* A step that changes nothing keeps the invariant.
LEMMA StutterKeepsTrust ==
    ASSUME TrustInv, UNCHANGED allVars
    PROVE  TrustInv'
<1>1. /\ UNCHANGED <<scenario, live, born, rev, owner, refresh, fdirty, flushMask, spawned, despawned,
                     pass, sess, known, tracker, stream, msgQueue, diff, forgotten, trusted>>
  BY DEF allVars, vars, gameVars, sendVars, interestVars
<1>2. InterestOwed' = InterestOwed /\ Untrusted' = Untrusted
  BY <1>1 DEF InterestOwed, Leaving, NoDiff, Untrusted, Scoped
<1>3. TrackerOK(tracker', InterestOwed', Untrusted', Entities)
  BY <1>1, <1>2 DEF TrustInv
<1>4. BasicOK' /\ RefreshOK' /\ DiffOK' /\ RemovalsOK' /\ InterestPassOK' /\ StreamOK' /\ VerdictsOK'
  BY <1>1 DEF TrustInv, BasicOK, Removal, RefreshOK, DiffOK, RemovalsOK, InterestPassOK,
     StreamOK, VerdictsOK, Scoped, NoDiff, NoPass
<1> QED
  BY <1>1, <1>3, <1>4 DEF TrustInv

\* FlushAll serializes spawns and deltas of entities that were created.
LEMMA FlushKeepsTrust ==
    ASSUME TrustInv, InterestFlush
    PROVE  TrustInv' /\ AllConfined
<1> DEFINE flushed == {e \in live \ spawned : fdirty[e] # {}}
<1>1. /\ UNCHANGED <<scenario, live, born, rev, owner, refresh, known, tracker, stream, net, msgQueue,
                     diff, forgotten, trusted>>
      /\ diff # NoDiff /\ spawned' = {} /\ despawned' = <<>>
      /\ pass' = [at |-> "send", filter |-> FALSE,
                  spawns |-> [e \in spawned |-> FullUpdate(e)],
                  deltas |-> [e \in flushed |-> DeltaOf("delta", e, fdirty[e])],
                  removals |-> despawned, read |-> 0, removed |-> <<>>]
      /\ flushMask' = [e \in Entities |-> IF e \in live \ spawned THEN fdirty[e] ELSE flushMask[e]]
      /\ fdirty' = [e \in Entities |-> IF e \in flushed THEN {} ELSE fdirty[e]]
  BY DEF InterestFlush, Flush, sendVars, interestVars
<1>2. /\ DOMAIN pass'.spawns = spawned /\ DOMAIN pass'.deltas = flushed
      /\ pass'.removals = despawned /\ \A e \in spawned : pass'.spawns[e].id = e
      /\ \A e \in flushed : pass'.deltas[e].id = e
      /\ pass'.at = "send" /\ pass'.read = 0 /\ DOMAIN pass'.removed = {}
      /\ PassFields \subseteq DOMAIN pass' /\ Removal' = Removal
  BY <1>1 DEF FullUpdate, DeltaOf, Frame, PassFields, Removal
<1>3. RemovalsOK' /\ InterestPassOK' /\ DiffOK'
  BY <1>1, <1>2 DEF RemovalsOK, InterestPassOK, TrustInv, BasicOK, Removal, DiffOK, NoDiff
<1>4. BasicOK' /\ RefreshOK' /\ VerdictsOK'
  <2>1. fdirty' \in [Entities -> SUBSET Fields] /\ flushMask' \in [Entities -> SUBSET Fields]
    BY <1>1 DEF TrustInv, BasicOK, Removal
  <2>2. despawned' \in Seq(Removal')
    BY <1>1
  <2> QED
    BY <1>1, <2>1, <2>2 DEF TrustInv, BasicOK, Removal, RefreshOK, VerdictsOK, Scoped
<1>5. InterestOwed' = InterestOwed /\ Untrusted' = Untrusted
  BY <1>1 DEF InterestOwed, Leaving, NoDiff, Untrusted, Scoped
<1>6. TrackerOK(tracker', InterestOwed', Untrusted', Entities)
  BY <1>1, <1>5 DEF TrustInv
<1>7. AllConfined /\ StreamOK'
  BY <1>1, NoNewFrames DEF AllConfined, TrustInv
<1> QED
  BY <1>1, <1>3, <1>4, <1>6, <1>7 DEF TrustInv

\* What ComputeDiffsFiltered says of an entity it says once: it enters, stays or
\* leaves, and only what is known stays or leaves.
LEMMA VerdictsDiffer ==
    ASSUME InterestInv, foi # NoFOI
    PROVE  LET d == ComputeDiffsFiltered(UpdateGrid) IN
           /\ d.entered \subseteq live \ known /\ d.stayed \subseteq live \cap known
           /\ d.exited \subseteq known /\ d.stayed \cap d.exited = {}
<1> DEFINE g == UpdateGrid
           now == {e \in live : isGlobal(e)}
           d == ComputeDiffsFiltered(g)
           none == [entered |-> {}, stayed |-> {}, exited |-> {}]
           s == IF Has(g, foi.anchor) THEN SpatialDiff(g, g.positions[foi.anchor]) ELSE none
           all == GlobalsDiff
<1>1. DOMAIN g.positions = {e \in live : ~isGlobal(e)} /\ GridOK(g)
  BY GridAfterUpdate DEF InterestInv
<1>2. /\ \A e \in globals : isGlobal(e)
      /\ \A e \in known : isGlobal(e) => e \in globals
  BY DEF InterestInv, KnownGlobalsOK
<1>3. /\ d.entered = s.entered \cup all.entered /\ d.stayed = s.stayed \cup all.stayed
      /\ d.exited = s.exited \cup all.exited
  BY DEF ComputeDiffsFiltered
<1>4. /\ all.entered = {e \in now \ known : Allows(e)} /\ all.stayed = {e \in now \cap known : Allows(e)}
      /\ all.exited = {e \in now \cap known : ~Allows(e)} \cup ((globals \ now) \cap known)
  BY DEF GlobalsDiff
<1>5. /\ s.entered \subseteq {e \in live \ known : ~isGlobal(e)}
      /\ s.stayed \subseteq {e \in live \cap known : ~isGlobal(e)}
      /\ s.exited \subseteq {e \in known : ~(isGlobal(e) /\ e \in live)}
      /\ s.stayed \cap s.exited = {}
  <2>1. CASE ~Has(g, foi.anchor)
    BY <2>1
  <2>2. CASE Has(g, foi.anchor)
    <3> DEFINE p == g.positions[foi.anchor]
               far == foi.radius + foi.margin
               C == QueryInto(g, p, far)
               near(e, r) == Dist2(g.positions[e], p) <= r * r /\ Allows(e)
    <3>1. s = SpatialDiff(g, p)
      BY <2>2
    <3>2. /\ s.entered = {e \in C \ known : near(e, foi.radius)}
          /\ s.stayed = {e \in C \cap known : near(e, far)}
          /\ s.exited = {e \in C \cap known : ~near(e, far)}
                        \cup {e \in known \ C : ~(isGlobal(e) /\ e \in live)}
      <4> HIDE DEF s, g
      <4> QED
        BY <3>1 DEF SpatialDiff
    <3>3. C \subseteq {e \in live : ~isGlobal(e)}
      <4>1. foi.radius \in Nat /\ foi.margin \in Nat
        BY DEF InterestInv, FieldOK, FOIType
      <4>2. p \in Int \X Int
        <5>1. p \in Places
          BY <1>1, <2>2 DEF GridOK, PositionsOK, Has
        <5> QED
          BY <5>1, InterestAssumption
      <4>3. far \in Nat
        BY <4>1
      <4> HIDE DEF p, far, g
      <4>4. C = {e \in DOMAIN g.positions : Dist2(g.positions[e], p) <= far * far}
        BY <1>1, <4>2, <4>3, QueryFinds
      <4> QED
        BY <1>1, <4>4
    <3> HIDE DEF C, near, s
    <3> QED
      BY <3>2, <3>3
  <2> QED
    BY <2>1, <2>2
<1> HIDE DEF d, s, all, g
<1>6. live \cap now = now
  OBVIOUS
<1>7. d.stayed \cap d.exited = {}
  BY <1>2, <1>3, <1>4, <1>5
<1>8. /\ d.entered \subseteq live \ known /\ d.stayed \subseteq live \cap known
      /\ d.exited \subseteq known
  BY <1>3, <1>4, <1>5
<1> QED
  BY <1>7, <1>8 DEF d, g

\* The diff of a tick moves entities between what is known and what leaves.
LEMMA TickKeepsTrust ==
    ASSUME InterestInv, TrustInv, ComputeDiffs
    PROVE  TrustInv' /\ AllConfined
<1> DEFINE d == ComputeDiffsFiltered(UpdateGrid)
<1>1. /\ pass = NoPass /\ diff = NoDiff /\ grid' = UpdateGrid /\ refresh' = <<>>
      /\ UNCHANGED <<scenario, live, born, rev, owner, fdirty, flushMask, spawned, despawned, pass,
                     tracker, stream, net, msgQueue, trusted>>
  BY DEF ComputeDiffs
<1>2. BasicOK' /\ RefreshOK' /\ VerdictsOK' /\ RemovalsOK' /\ InterestPassOK'
  <2>1. DOMAIN refresh' = {}
    BY <1>1
  <2> QED
    BY <1>1, <2>1 DEF TrustInv, BasicOK, Removal, RefreshOK, VerdictsOK, Scoped, RemovalsOK,
       InterestPassOK, NoPass
<1>3. Untrusted' = Untrusted
  BY <1>1 DEF Untrusted, Scoped
<1>4. Leaving = {}
  BY <1>1 DEF Leaving
<1>5. DiffOK' /\ InterestOwed \subseteq InterestOwed' /\ known' \cup forgotten' \subseteq born'
  <2>1. CASE foi = NoFOI
    <3>1. diff'.has = FALSE /\ UNCHANGED <<known, forgotten>>
      BY <2>1 DEF ComputeDiffs
    <3> QED
      BY <1>1, <1>4, <3>1 DEF DiffOK, InterestOwed, TrustInv
  <2>2. CASE foi # NoFOI
    <3>1. /\ diff' = [has |-> TRUE, anchored |-> Has(grid', foi.anchor), refresh |-> refresh,
                      entered |-> d.entered, stayed |-> d.stayed, exited |-> d.exited]
          /\ known' = (known \cup d.entered) \ d.exited
          /\ forgotten' = forgotten \ known'
      BY <1>1, <2>2 DEF ComputeDiffs
    <3>2. /\ d.entered \subseteq live \ known /\ d.stayed \subseteq live \cap known
          /\ d.exited \subseteq known /\ d.stayed \cap d.exited = {}
      BY <2>2, VerdictsDiffer
    <3> HIDE DEF d
    <3>3. diff' # NoDiff /\ Leaving' = d.exited
      <4>1. "has" \in DOMAIN diff'
        BY <3>1
      <4>2. "has" \notin DOMAIN NoDiff
        BY DEF NoDiff
      <4>3. diff' # NoDiff
        BY <4>1, <4>2
      <4> QED
        BY <3>1, <4>3 DEF Leaving, NoDiff
    <3>4. /\ diff'.entered = d.entered /\ diff'.stayed = d.stayed /\ diff'.exited = d.exited
      BY <3>1
    <3>5. live \subseteq born /\ known \cup forgotten \subseteq born
      BY DEF TrustInv, BasicOK, Removal
    <3>6. known \cup forgotten \cup d.entered = known' \cup forgotten' \cup d.exited
      BY <3>1, <3>2
    <3> QED
      BY <1>1, <1>4, <3>1, <3>2, <3>3, <3>4, <3>5, <3>6 DEF DiffOK, InterestOwed
  <2> QED
    BY <2>1, <2>2
<1>6. TrackerOK(tracker', InterestOwed', Untrusted', Entities)
  BY <1>1, <1>3, <1>5, TrustStays DEF TrustInv
<1>7. AllConfined /\ StreamOK'
  BY <1>1, NoNewFrames DEF AllConfined, TrustInv
<1> QED
  BY <1>2, <1>5, <1>6, <1>7 DEF TrustInv

\* A frame that leaks nothing is confined, if the session knows its entity or it
\* is an exit.
LEMMA SafeConfined ==
    ASSUME NEW fr, NoLeak(fr), fr.kind = "removed" \/ fr.id \in known \cup forgotten
    PROVE  Confined(fr)
  BY DEF NoLeak, Confined

\* A change of an entity the session has not been trusted with goes out redacted.
LEMMA ChangeConfined ==
    ASSUME NEW N, N \subseteq known \cup forgotten, NEW R,
           \A e \in N \cap live : Scoped /\ e \notin trusted' => e \in R,
           NEW fr \in FramesOf(Sent(Changes(N, R, Entities)))
    PROVE  Confined(fr)
<1>1. PICK ch \in Changes(N, R, Entities) : HasFrame(ch) /\ fr = eventualFrameForChange(ch)
  BY DEF FramesOf, Sent
<1>2. ch.id \in live /\ ch.id \in N /\ (ch.id \in R => ch.public)
  BY <1>1 DEF HasFrame, Changes
<1>3. fr.id = ch.id
  BY <1>1 DEF eventualFrameForChange, PublicFullUpdate, FullUpdate, DeltaOf, Frame
<1>4. CASE ~ch.public
  <2>1. ~Scoped \/ fr.id \in trusted'
    BY <1>2, <1>3, <1>4
  <2> QED
    BY <1>2, <1>3, <2>1 DEF Confined, Scoped
<1>5. CASE ch.public /\ ch.full
  <2>1. fr = PublicFullUpdate(ch.id)
    BY <1>1, <1>5 DEF eventualFrameForChange
  <2>2. fr.vals = [f \in Fields |-> IF f \in scenario.private THEN 0 ELSE val[ch.id][f]]
    BY <2>1 DEF PublicFullUpdate, Frame
  <2> QED
    BY <1>2, <1>3, <2>2 DEF Confined
<1>6. CASE ch.public /\ ~ch.full
  <2>1. fr.vals = Restrict(val[ch.id], ch.mask \ scenario.private)
    BY <1>1, <1>6 DEF eventualFrameForChange, DeltaOf, Frame, SentMask
  <2>2. DOMAIN fr.vals \cap scenario.private = {}
    BY <2>1 DEF Restrict
  <2> QED
    BY <1>2, <1>3, <2>2 DEF Confined
<1> QED
  BY <1>4, <1>5, <1>6

\* streamDeltaForSession leaks nothing.
LEMMA StreamDeltaSafe ==
    ASSUME NEW e, e \in DOMAIN pass.deltas, pass.deltas[e].id = e
    PROVE  NoLeak(streamDeltaForSession(e)) /\ streamDeltaForSession(e).id = e
<1>1. CASE ~Scoped \/ Mine(e)
  BY <1>1 DEF streamDeltaForSession, NoLeak, Scoped
<1>2. CASE ~(~Scoped \/ Mine(e))
  <2>1. streamDeltaForSession(e) = DeltaOf("delta", e, flushMask[e] \ scenario.private)
    BY <1>2 DEF streamDeltaForSession
  <2>2. DOMAIN streamDeltaForSession(e).vals \cap scenario.private = {}
        /\ streamDeltaForSession(e).id = e
    BY <2>1 DEF DeltaOf, Frame, Restrict
  <2> QED
    BY <2>2 DEF NoLeak
<1> QED
  BY <1>1, <1>2

Changed == diff.stayed \cap live \cap DOMAIN pass.deltas
Fulls == live \cap (diff.entered \cup (diff.stayed \cap DOMAIN pass.spawns))
Regrant == Refreshed(diff.refresh, diff.stayed)
Cleared == clearEntities(tracker, Superseded)
TickFrames == Frames(diff.exited, ExitFrame) \o RefreshFrames(diff.refresh, Regrant)

\* Entities for which something may be sent or stay owed, and those of others.
StillOwed == (InterestOwed \ Superseded) \cup Changed
StillUntrusted == {e \in live : Scoped /\ e \notin trusted'}

\* What the sends of a tick are, on the stream and on the datagram lane.
LEMMA InterestSendFacts ==
    ASSUME TrustInv, InterestSend, diff.has
    PROVE  /\ pass # NoPass /\ diff # NoDiff /\ diff' = NoDiff /\ EndPass
           /\ UNCHANGED <<known, refresh, forgotten>>
           /\ trusted' = (trusted \ Restated) \cup {e \in Changed : Mine(e)}
           /\ \/ Send(Frames(Fulls, wrappedFullForSession) \o StreamDeltas(Changed) \o TickFrames,
                      [tracker |-> Cleared, frames |-> <<>>, packets |-> {}])
              \/ \E order \in SetToSeqs(Changed) :
                    Send(Frames(Fulls, wrappedFullForSession) \o TickFrames,
                         sendSessionEventualState(Cleared, SessionChanges(order)))
<1>1. pass # NoPass /\ diff # NoDiff
  BY DEF InterestSend, Sending, TrustInv, RemovalsOK, InterestPassOK
<1>2. /\ diff' = NoDiff /\ EndPass /\ UNCHANGED <<known, refresh, forgotten>>
      /\ trusted' = (trusted \ Restated) \cup {e \in Changed : Mine(e)}
  BY DEF InterestSend, Sending, Changed
<1>3. \/ Send(Frames(Fulls, wrappedFullForSession) \o StreamDeltas(Changed) \o TickFrames,
              [tracker |-> Cleared, frames |-> <<>>, packets |-> {}])
      \/ \E order \in SetToSeqs(Changed) :
            Send(Frames(Fulls, wrappedFullForSession) \o TickFrames,
                 sendSessionEventualState(Cleared, SessionChanges(order)))
  BY Zenon DEF InterestSend, Sending, Changed, Fulls, Regrant, Cleared, TickFrames
<1> QED
  BY <1>1, <1>2, <1>3

\* After the exits, the new full states and the changes of owner nothing is owed
\* from before for the entities they name, and the rest stays redacted.
LEMMA StillOwedFacts ==
    ASSUME TrustInv, InterestSend, diff.has
    PROVE  /\ TrackerOK(Cleared, StillOwed, StillUntrusted, Entities)
           /\ StillOwed \subseteq known \cup forgotten
           /\ Changed \cap StillUntrusted \subseteq {e \in Changed : Scoped /\ ~Mine(e)}
<1> DEFINE N1 == InterestOwed \ Superseded
<1>1. /\ pass # NoPass /\ diff # NoDiff
      /\ trusted' = (trusted \ Restated) \cup {e \in Changed : Mine(e)}
  BY InterestSendFacts
<1>2. TrackerOK(Cleared, N1, Untrusted, Entities)
  BY ClearEntitiesKeeps DEF TrustInv, Cleared
<1>3. N1 \cap StillUntrusted \subseteq Untrusted
  <2>1. live \cap Restated \subseteq Superseded
    BY DEF Restated, Superseded, Refreshed
  <2> QED
    BY <1>1, <2>1 DEF StillUntrusted, Untrusted
<1>4. StillOwed = N1 \cup Changed
  BY DEF StillOwed
<1>5. TrackerOK(Cleared, StillOwed, StillUntrusted, Entities)
  <2> HIDE DEF N1
  <2> QED
    BY <1>2, <1>3, <1>4, ChangesGrow
<1>6. StillOwed \subseteq known \cup forgotten
  <2>1. Leaving \subseteq Superseded
    BY DEF Leaving, Superseded
  <2>2. Changed \subseteq known \cup forgotten
    BY <1>1 DEF Changed, TrustInv, DiffOK
  <2> QED
    BY <2>1, <2>2 DEF StillOwed, InterestOwed
<1>7. Changed \cap StillUntrusted \subseteq {e \in Changed : Scoped /\ ~Mine(e)}
  BY <1>1 DEF StillUntrusted
<1> QED
  BY <1>5, <1>6, <1>7

\* A removal that is turned into a frame sends nothing.
LEMMA SerializeKeepsTrust ==
    ASSUME TrustInv, InterestSerialize
    PROVE  TrustInv' /\ AllConfined
<1>1. SerializeRemoval /\ UNCHANGED <<diff, forgotten, trusted>>
  BY DEF InterestSerialize, interestVars
<1>2. UNCHANGED <<scenario, live, born, rev, owner, refresh, fdirty, flushMask, spawned, despawned, sess,
                  known, stream, net, msgQueue>>
  BY <1>1, SerializeKeepsPass DEF TrustInv, gameVars
<1>3. BasicOK' /\ RefreshOK' /\ VerdictsOK' /\ DiffOK'
  BY <1>1, <1>2 DEF TrustInv, BasicOK, RefreshOK, VerdictsOK, DiffOK, NoDiff, Scoped, Removal
<1>4. InterestPassOK'
  BY <1>1, <1>2, SerializeKeepsPass DEF TrustInv, InterestPassOK, NoDiff
<1>5. RemovalsOK'
  BY <1>1, SerializeKeepsRemovals DEF TrustInv
<1>6. InterestOwed' = InterestOwed /\ Untrusted' = Untrusted
  BY <1>1, <1>2 DEF InterestOwed, Leaving, NoDiff, Untrusted, Scoped
<1>7. TrackerOK(tracker', InterestOwed', Untrusted', Entities)
  <2>1. TrackerOK(tracker, InterestOwed, Untrusted, Entities)
    BY DEF TrustInv
  <2>2. TrackerOK(clearEntities(tracker, RemovalIDs), InterestOwed \ RemovalIDs, Untrusted, Entities)
    BY <2>1, ClearEntitiesKeeps
  <2>3. TrackerOK(clearEntities(tracker, RemovalIDs), InterestOwed, Untrusted, Entities)
    BY <2>2, ChangesGrow
  <2>4. tracker' = tracker \/ tracker' = clearEntities(tracker, RemovalIDs)
    BY <1>1, SerializeKeepsPass DEF TrustInv
  <2> QED
    BY <1>6, <2>1, <2>3, <2>4
<1>8. AllConfined /\ StreamOK'
  BY <1>2, NoNewFrames DEF AllConfined, TrustInv
<1> QED
  BY <1>1, <1>2, <1>3, <1>4, <1>5, <1>7, <1>8 DEF TrustInv

\* The full states, exits and changes of owner of a tick.
LEMMA TickFramesIn ==
    ASSUME TrustInv, InterestSend, diff.has, NEW Q,
           \A e \in Entities \cap (known \cup forgotten) :
                /\ wrappedFullForSession(e) \in Q /\ PublicFullUpdate(e) \in Q
                /\ Granted(e) => GrantFrame(e) \in Q,
           \A e \in Entities : ExitFrame(e) \in Q
    PROVE  /\ Frames(Fulls, wrappedFullForSession) \in Seq(Q)
           /\ TickFrames \in Seq(Q)
<1> DEFINE a == Frames(Fulls, wrappedFullForSession)
           b == Frames(diff.exited, ExitFrame)
           c == RefreshFrames(diff.refresh, Regrant)
<1>1. /\ diff.entered \cup diff.stayed \subseteq known \cup forgotten
      /\ diff.entered \cup diff.stayed \cup diff.exited \subseteq Entities
  BY InterestSendFacts DEF TrustInv, DiffOK, BasicOK, Removal
<1>2. /\ Fulls \subseteq diff.entered \cup diff.stayed
      /\ Regrant \subseteq diff.stayed \cap DOMAIN diff.refresh
  BY DEF Fulls, Regrant, Refreshed
<1>3. Fulls \cup diff.exited \cup Regrant \subseteq Entities
  BY <1>1, <1>2
<1>4. \A e \in Fulls : wrappedFullForSession(e) \in Q
  BY <1>1, <1>2
<1>5. \A e \in diff.exited : ExitFrame(e) \in Q
  BY <1>1
<1>6. \A e \in Regrant : /\ diff.refresh[e].clear = "me" => PublicFullUpdate(e) \in Q
                         /\ diff.refresh[e].new = "me" => GrantFrame(e) \in Q
  BY <1>1, <1>2 DEF Granted
<1>7. a \in Seq(Q) /\ b \in Seq(Q) /\ c \in Seq(Q)
  BY <1>3, <1>4, <1>5, <1>6, PassFrames
<1>8. TickFrames = b \o c
  BY DEF TickFrames
<1> HIDE DEF a, b, c
<1>9. b \o c \in Seq(Q)
  BY <1>7, ConcatProperties
<1> QED
  BY <1>7, <1>8, <1>9 DEF a

\* The deltas of a tick on the stream.
LEMMA StreamDeltasIn ==
    ASSUME NEW S, S \subseteq Entities, NEW Q, \A e \in S : streamDeltaForSession(e) \in Q
    PROVE  StreamDeltas(S) \in Seq(Q)
<1> DEFINE T == {e \in S : ~Scoped \/ Mine(e) \/ flushMask[e] \ scenario.private # {}}
           a == Frames(T, streamDeltaForSession)
           fa == [e \in T |-> streamDeltaForSession(e)]
<1>1. StreamDeltas(S) = a
  BY DEF StreamDeltas
<1>2. T \subseteq Entities
  OBVIOUS
<1>3. \A e \in T : fa[e] \in Q
  OBVIOUS
<1> HIDE DEF T
<1>4. a = [i \in 1 .. Len(SetToSeq(T)) |-> fa[SetToSeq(T)[i]]]
  BY <1>2, FramesOver DEF Frames
<1> HIDE DEF a, fa
<1> QED
  BY <1>1, <1>2, <1>3, <1>4, FramesInto

\* Every frame of a tick is confined: an exit says nothing, a full update is of
\* an entity of the diff and goes out for its owner, and so does a delta.
LEMMA TickConfined ==
    ASSUME TrustInv, InterestSend, diff.has
    PROVE  \E Q : /\ \A fr \in Q : Confined(fr)
                  /\ Frames(Fulls, wrappedFullForSession) \in Seq(Q) /\ TickFrames \in Seq(Q)
                  /\ StreamDeltas(Changed) \in Seq(Q)
<1> DEFINE all == {wrappedFullForSession(e) : e \in Entities} \cup {ExitFrame(e) : e \in Entities}
                  \cup {PublicFullUpdate(e) : e \in Entities} \cup {GrantFrame(e) : e \in Entities}
                  \cup {streamDeltaForSession(e) : e \in Entities}
           Q == {fr \in all : Confined(fr)}
<1>1. /\ \A e \in DOMAIN pass.spawns : pass.spawns[e].id = e
      /\ \A e \in DOMAIN pass.deltas : pass.deltas[e].id = e
  BY InterestSendFacts DEF TrustInv, RemovalsOK, InterestPassOK
<1>2. Changed \subseteq Entities \cap (known \cup forgotten) /\ Changed \subseteq DOMAIN pass.deltas
  BY InterestSendFacts DEF TrustInv, DiffOK, BasicOK, Removal, Changed
<1>3. ASSUME NEW e \in Entities PROVE Confined(ExitFrame(e))
  <2>1. ExitFrame(e).kind = "removed"
    BY DEF ExitFrame, Removed
  <2> QED
    BY <2>1, ExitSafe, SafeConfined
<1>4. ASSUME NEW e \in Entities \cap (known \cup forgotten)
      PROVE  /\ Confined(wrappedFullForSession(e)) /\ Confined(PublicFullUpdate(e))
             /\ Granted(e) => Confined(GrantFrame(e))
  <2>1. Confined(wrappedFullForSession(e))
    BY <1>1, WrappedSafe, SafeConfined
  <2>2. Confined(PublicFullUpdate(e))
    BY FullSafe, SafeConfined
  <2>3. GrantFrame(e).id = e
    BY <1>1, GrantSafe
  <2>4. Granted(e) => Confined(GrantFrame(e))
    BY <2>3 DEF Confined
  <2> QED
    BY <2>1, <2>2, <2>4
<1>5. ASSUME NEW e \in Changed PROVE Confined(streamDeltaForSession(e))
  BY <1>1, <1>2, StreamDeltaSafe, SafeConfined
<1>6. /\ \A e \in Entities : ExitFrame(e) \in Q
      /\ \A e \in Entities \cap (known \cup forgotten) :
            /\ wrappedFullForSession(e) \in Q /\ PublicFullUpdate(e) \in Q
            /\ Granted(e) => GrantFrame(e) \in Q
      /\ \A e \in Changed : streamDeltaForSession(e) \in Q
  BY <1>2, <1>3, <1>4, <1>5
<1>7. \A fr \in Q : Confined(fr)
  OBVIOUS
<1> HIDE DEF Q
<1>8. Frames(Fulls, wrappedFullForSession) \in Seq(Q) /\ TickFrames \in Seq(Q)
  BY <1>6, TickFramesIn
<1>9. StreamDeltas(Changed) \in Seq(Q)
  <2>1. Changed \subseteq Entities
    BY <1>2
  <2> HIDE DEF Changed
  <2> QED
    BY <1>6, <2>1, StreamDeltasIn
<1> QED
  BY <1>7, <1>8, <1>9

\* The sends of a tick, on either lane, add only confined frames.
LEMMA TickSends ==
    ASSUME TrustInv, InterestSend, diff.has
    PROVE  StreamOK' /\ AllConfined /\ TrackerOK(tracker', StillOwed, StillUntrusted, Entities)
<1> DEFINE N == StillOwed
           R == StillUntrusted
           full == Frames(Fulls, wrappedFullForSession)
           plain == [tracker |-> Cleared, frames |-> <<>>, packets |-> {}]
<1>1. /\ TrackerOK(Cleared, N, R, Entities) /\ N \subseteq known \cup forgotten
      /\ Changed \cap R \subseteq {e \in Changed : Scoped /\ ~Mine(e)}
  BY StillOwedFacts
<1>2. PICK Q : /\ \A fr \in Q : Confined(fr)
               /\ full \in Seq(Q) /\ TickFrames \in Seq(Q) /\ StreamDeltas(Changed) \in Seq(Q)
  BY TickConfined
<1>3. \A fr \in FramesOf(Sent(Changes(N, R, Entities))) : Confined(fr)
  <2>1. \A e \in N \cap live : Scoped /\ e \notin trusted' => e \in R
    BY DEF StillUntrusted
  <2> HIDE DEF N, R
  <2> QED
    BY <1>1, <2>1, ChangeConfined
<1>4. ASSUME NEW frames \in Seq(Q), NEW sent, SendOK(sent, N, R, Entities), Send(frames, sent)
      PROVE  StreamOK' /\ AllConfined /\ TrackerOK(tracker', N, R, Entities)
  <2> HIDE DEF N, R
  <2>1. StreamOK' /\ TrackerOK(tracker', N, R, Entities) /\ NewFrames \subseteq Q \cup FramesOf(Sent(Changes(N, R, Entities)))
    BY <1>4, SendInto DEF TrustInv
  <2> QED
    BY <1>2, <1>3, <2>1 DEF AllConfined
<1>5. CASE Send(full \o StreamDeltas(Changed) \o TickFrames, plain)
  <2>1. full \o StreamDeltas(Changed) \o TickFrames \in Seq(Q)
    <3> HIDE DEF full
    <3> QED
      BY <1>2, ConcatProperties
  <2>2. SendOK(plain, N, R, Entities)
    <3>1. <<>> \in Seq(FramesOf(Sent(Changes(N, R, Entities)))) /\ IsFiniteSet({})
      BY FS_EmptySet
    <3> HIDE DEF N, R
    <3> QED
      BY <1>1, <3>1 DEF SendOK
  <2> HIDE DEF full, plain
  <2> QED
    BY <1>4, <1>5, <2>1, <2>2
<1>6. ASSUME NEW order \in SetToSeqs(Changed),
             Send(full \o TickFrames, sendSessionEventualState(Cleared, SessionChanges(order)))
      PROVE  StreamOK' /\ AllConfined /\ TrackerOK(tracker', N, R, Entities)
  <2> DEFINE chs == SessionChanges(order)
             sent == sendSessionEventualState(Cleared, chs)
             own == {e \in Changed : Scoped /\ ~Mine(e)}
  <2>1. full \o TickFrames \in Seq(Q)
    <3> HIDE DEF full
    <3> QED
      BY <1>2, ConcatProperties
  <2>2. Changed \subseteq Entities /\ flushMask \in [Entities -> SUBSET Fields]
    BY InterestSendFacts DEF TrustInv, BasicOK, Removal, Changed
  <2>3. order \in Seq(Changed)
    <3> HIDE DEF Changed
    <3> QED
      BY <2>2, OrderFacts
  <2>4. chs \in Seq(Changes(Changed, own, Entities))
    <3>1. \A e \in own : Scoped /\ ~Mine(e)
      OBVIOUS
    <3> HIDE DEF Changed, own
    <3> QED
      BY <2>2, <2>3, <3>1, SessionChangesType DEF Partial
  <2>5. Changes(Changed, own, Entities) \subseteq Changes(N, R, Entities)
    <3>1. Changed \subseteq N
      BY DEF StillOwed
    <3> HIDE DEF Changed, own, N, R
    <3> QED
      BY <1>1, <3>1, ChangesGrow DEF own
  <2>6. scenario.budget \in Nat \ {0}
    BY ReplicationAssumption DEF TrustInv, BasicOK, Removal, ScenarioType
  <2>7. SendOK(sent, N, R, Entities)
    <3> HIDE DEF chs, own, N, R
    <3>1. chs \in Seq(Changes(N, R, Entities))
      BY <2>4, <2>5
    <3> QED
      BY <1>1, <2>6, <3>1, SendStateKeeps
  <2> HIDE DEF full
  <2> QED
    BY <1>4, <1>6, <2>1, <2>7
<1> QED
  BY <1>5, <1>6, InterestSendFacts

\* The end of a tick takes the diff and the pass away.
LEMMA EndPassKeepsTrust ==
    ASSUME TrustInv, EndPass, diff' = NoDiff, UNCHANGED <<known, refresh, forgotten>>
    PROVE  /\ BasicOK' /\ RefreshOK' /\ VerdictsOK' /\ DiffOK' /\ RemovalsOK' /\ InterestPassOK'
           /\ UNCHANGED <<scenario, live, born, rev, owner>>
           /\ InterestOwed' = known \cup forgotten
<1>1. /\ UNCHANGED <<scenario, live, born, rev, owner, fdirty, flushMask, spawned, despawned, msgQueue>>
      /\ pass' = NoPass
  BY DEF EndPass
<1>2. BasicOK' /\ RefreshOK' /\ VerdictsOK'
  BY <1>1 DEF TrustInv, BasicOK, Removal, RefreshOK, VerdictsOK, Scoped
<1>3. DiffOK' /\ RemovalsOK' /\ InterestPassOK'
  BY <1>1 DEF DiffOK, RemovalsOK, InterestPassOK, NoDiff, NoPass
<1>4. InterestOwed' = known \cup forgotten
  BY DEF InterestOwed, Leaving, NoDiff
<1> QED
  BY <1>1, <1>2, <1>3, <1>4

\* The sends of a tick keep the invariant and are confined.
LEMMA InterestSendKeepsTrust ==
    ASSUME TrustInv, InterestSend
    PROVE  TrustInv' /\ AllConfined
<1>1. /\ pass # NoPass /\ diff # NoDiff /\ EndPass /\ diff' = NoDiff
      /\ UNCHANGED <<known, refresh, forgotten>>
  BY DEF InterestSend, Sending, TrustInv, RemovalsOK, InterestPassOK
<1>2. /\ BasicOK' /\ RefreshOK' /\ VerdictsOK' /\ DiffOK' /\ RemovalsOK' /\ InterestPassOK'
      /\ UNCHANGED <<scenario, live, born, rev, owner>>
      /\ InterestOwed' = known \cup forgotten
  BY <1>1, EndPassKeepsTrust
<1>3. known' \cup forgotten' \subseteq born'
  BY <1>1, <1>2 DEF TrustInv
<1>4. CASE ~diff.has
  <2>1. UNCHANGED <<tracker, stream, net, trusted>>
    BY <1>4 DEF InterestSend
  <2>2. InterestOwed = InterestOwed' /\ Untrusted' = Untrusted
    BY <1>2, <1>4, <2>1 DEF InterestOwed, Leaving, Untrusted, Scoped
  <2>3. TrackerOK(tracker', InterestOwed', Untrusted', Entities)
    BY <2>1, <2>2 DEF TrustInv
  <2>4. StreamOK' /\ AllConfined
    BY <2>1, NoNewFrames DEF TrustInv, AllConfined
  <2> QED
    BY <1>2, <1>3, <2>3, <2>4 DEF TrustInv
<1>5. CASE diff.has
  <2>1. StreamOK' /\ AllConfined /\ TrackerOK(tracker', StillOwed, StillUntrusted, Entities)
    BY <1>5, TickSends
  <2>2. StillUntrusted = Untrusted'
    BY <1>2 DEF StillUntrusted, Untrusted, Scoped
  <2>3. StillOwed \subseteq InterestOwed'
    BY <1>2, <1>5, StillOwedFacts
  <2>4. TrackerOK(tracker', InterestOwed', Untrusted', Entities)
    BY <2>1, <2>2, <2>3, ChangesGrow
  <2> QED
    BY <1>2, <1>3, <2>1, <2>4 DEF TrustInv
<1> QED
  BY <1>4, <1>5

\* Every step keeps the invariant, and what it sends is confined.
LEMMA NextTrust ==
    ASSUME InterestInv, TrustInv, NextInterest
    PROVE  TrustInv' /\ AllConfined
<1>1. CASE \E e \in Entities, p \in Places : MoveEntity(e, p)
  <2>1. GameAction /\ UNCHANGED <<diff, forgotten, trusted>>
    BY <1>1, InterestAssumption DEF MoveEntity, GameAction
  <2> QED
    BY <2>1, GameKeepsTrust
<1>2. CASE GameStep
  <2>1. GameAction /\ UNCHANGED <<diff, forgotten, trusted>>
    BY <1>2 DEF GameStep, GameAction, interestVars
  <2> QED
    BY <2>1, GameKeepsTrust
<1>3. CASE (\E f \in setting.fois : AssignFOI(f)) \/ RemoveFOI \/ Connect
  BY <1>3, FieldsKeepTrust
<1>4. CASE InterestDrain
  BY <1>4, DrainKeepsTrust
<1>5. CASE ComputeDiffs
  BY <1>5, TickKeepsTrust
<1>6. CASE InterestFlush
  BY <1>6, FlushKeepsTrust
<1>7. CASE InterestSend
  BY <1>7, InterestSendKeepsTrust
<1>8. CASE NetworkStep
  BY <1>8, NetworkKeepsTrust
<1>9. CASE InterestSerialize
  BY <1>9, SerializeKeepsTrust
<1> QED
  BY <1>1, <1>2, <1>3, <1>4, <1>5, <1>6, <1>7, <1>8, <1>9 DEF NextInterest

\* At every moment each change the tracker of a session with a field of interest
\* holds, waiting or in flight, names an entity that the session knows, was known
\* until a RemoveFOI, or leaves with the tick under way; and it is redacted unless
\* the session was sent the entity's changes as its owner and has not been told
\* otherwise since (runInterestTick, appendOwnershipRefreshFrames,
\* eventualChangeForSession).
THEOREM TrustInvariant == SpecInterest => [](InterestInv /\ TrustInv)
<1>1. InitInterest => InterestInv /\ TrustInv
  BY InitInterestInv, InitTrust
<1>2. InterestInv /\ TrustInv /\ [NextInterest]_allVars => (InterestInv /\ TrustInv)'
  BY NextInterestInv, NextTrust, StutterKeepsTrust
<1> QED
  BY <1>1, <1>2, PTL DEF SpecInterest

\* With a field of interest, on both lanes: whatever game code, ticks, losses and
\* retries do, and whenever they do it, state is sent only for entities the manager
\* takes the session to know, and owner-only values only to the owner, or again to
\* a session that had them as the owner (Server.runInterestTick).
THEOREM InterestStaysConfined == SpecInterest => InterestConfined
<1> DEFINE P == \A fr \in NewFrames :
                  /\ fr.kind # "removed" => fr.id \in known \cup forgotten
                  /\ fr.id \in live => \A f \in DOMAIN fr.vals \cap scenario.private :
                       \/ fr.vals[f] = 0 \/ Mine(fr.id) \/ fr.id \in trusted'
                       \/ fr.id \in DOMAIN diff.refresh /\ diff.refresh[fr.id].new = "me"
<1>1. InterestInv /\ TrustInv /\ [NextInterest]_allVars => [P]_allVars
  <2> SUFFICES ASSUME InterestInv, TrustInv, NextInterest PROVE P
    OBVIOUS
  <2>1. AllConfined
    BY NextTrust
  <2> QED
    BY <2>1, Zenon DEF AllConfined, Confined, Granted
<1>2. SpecInterest => [](InterestInv /\ TrustInv)
  BY TrustInvariant
<1> QED
  BY <1>1, <1>2, PTL DEF SpecInterest, InterestConfined

-----------------------------------------------------------------------------
(* What one side shows and what the other takes it to know: frames of one entity. *)

RemovedAt(s, i, e) == s[i].id = e /\ s[i].kind = "removed"
FullAt(s, i, e)    == s[i].id = e /\ s[i].kind = "full"
Fresh(s, e)        == \A i \in 1 .. Len(s) : ~RemovedAt(s, i, e)
NeverFull(s, e)    == \A i \in 1 .. Len(s) : ~FullAt(s, i, e)

\* The client forgot entity e, or a frame of the stream s will make it, at a
\* revision no greater than r.
Low(s, c, e, r) ==
    /\ \A i \in 1 .. Len(s) : RemovedAt(s, i, e) => s[i].rev <= r
    /\ e \in DOMAIN c.last \ DOMAIN c.ents => c.last[e] <= r

\* Once the stream has been read the client shows e: the last full state of e is
\* not stale, unless the client shows e already.
Shown(s, c, e) ==
    \/ e \in DOMAIN c.ents /\ Fresh(s, e)
    \/ \E i \in 1 .. Len(s) :
          /\ FullAt(s, i, e) /\ \A j \in i .. Len(s) : ~RemovedAt(s, j, e)
          /\ \A j \in 1 .. i : RemovedAt(s, j, e) => s[j].rev <= s[i].rev
          /\ e \in DOMAIN c.last \ DOMAIN c.ents => c.last[e] <= s[i].rev

\* Once the stream has been read the client does not show e: its last removal is
\* not stale, whatever arrives from the network n in the meantime.
Gone(s, n, c, e) ==
    \/ e \notin DOMAIN c.ents /\ NeverFull(s, e)
    \/ \E i \in 1 .. Len(s) :
          /\ RemovedAt(s, i, e) /\ \A j \in i .. Len(s) : ~FullAt(s, j, e)
          /\ \A j \in 1 .. i : s[j].id = e /\ s[j].kind # "removed" => s[j].rev <= s[i].rev
          /\ \A d \in n : \A j \in 1 .. Len(d.frames) :
                d.frames[j].id = e => d.frames[j].rev <= s[i].rev
          /\ e \in DOMAIN c.ents => c.last[e] <= s[i].rev

\* What a client keeps apart: the entities it shows and, for others too, revisions.
ClientShape(c) ==
    /\ c = [ents |-> c.ents, last |-> c.last] /\ DOMAIN c.ents \subseteq DOMAIN c.last
    /\ \A e \in DOMAIN c.last : c.last[e] \in Nat

\* What one frame does to the client's knowledge of e.
LEMMA ApplyOne ==
    ASSUME NEW c, ClientShape(c), NEW fr, fr.rev \in Nat, fr.kind \in FrameKinds, NEW e
    PROVE  LET d == Apply(c, fr) IN
           /\ ClientShape(d)
           /\ DOMAIN d.last \subseteq DOMAIN c.last \cup {fr.id}
           /\ e \in DOMAIN d.ents =>
                \/ e \in DOMAIN c.ents /\ d.last[e] = c.last[e]
                \/ /\ e = fr.id /\ fr.kind # "removed" /\ d.last[e] = fr.rev
                   /\ e \in DOMAIN c.ents \/ fr.kind = "full"
           /\ e \in DOMAIN d.last \ DOMAIN d.ents =>
                \/ e \in DOMAIN c.last \ DOMAIN c.ents /\ d.last[e] = c.last[e]
                \/ e = fr.id /\ fr.kind = "removed" /\ d.last[e] = fr.rev
           /\ e \in DOMAIN c.ents /\ ~(e = fr.id /\ fr.kind = "removed") => e \in DOMAIN d.ents
           /\ e = fr.id /\ fr.kind = "full"
                /\ (e \in DOMAIN c.last \ DOMAIN c.ents => c.last[e] <= fr.rev) => e \in DOMAIN d.ents
           /\ e = fr.id /\ fr.kind = "removed"
                /\ (e \in DOMAIN c.ents => c.last[e] <= fr.rev) => e \notin DOMAIN d.ents
<1> DEFINE d == Apply(c, fr)
           last == With(c.last, fr.id, fr.rev)
<1>1. /\ c = [ents |-> c.ents, last |-> c.last] /\ DOMAIN c.ents \subseteq DOMAIN c.last
      /\ \A x \in DOMAIN c.last : c.last[x] \in Nat
  BY DEF ClientShape
<1>2. /\ DOMAIN last = DOMAIN c.last \cup {fr.id} /\ last[fr.id] = fr.rev
      /\ \A x \in DOMAIN c.last : x # fr.id => last[x] = c.last[x]
  BY DEF With
<1>3. CASE isStale(c, fr)
  <2>1. d = c
    BY <1>3 DEF Apply
  <2>2. fr.id \in DOMAIN c.last /\ ~(c.last[fr.id] <= fr.rev)
    BY <1>1, <1>3 DEF isStale
  <2> HIDE DEF d
  <2>3. ClientShape(d)
    BY <2>1
  <2> QED
    BY <1>1, <2>1, <2>2, <2>3 DEF d
<1>4. CASE ~isStale(c, fr) /\ fr.kind = "removed"
  <2> DEFINE ents == Drop(c.ents, {fr.id})
  <2>1. d = [ents |-> ents, last |-> last]
    BY <1>1, <1>4 DEF Apply
  <2>2. DOMAIN ents = DOMAIN c.ents \ {fr.id}
    BY DEF Drop, Restrict
  <2> HIDE DEF ents, last, d
  <2>3. d.ents = ents /\ d.last = last /\ ClientShape(d)
    BY <1>1, <1>2, <2>1, <2>2 DEF ClientShape
  <2> QED
    BY <1>1, <1>2, <1>4, <2>2, <2>3 DEF d
<1>5. CASE ~isStale(c, fr) /\ fr.kind = "full"
  <2> DEFINE ents == With(c.ents, fr.id, fr.vals)
  <2>1. d = [ents |-> ents, last |-> last]
    BY <1>1, <1>5 DEF Apply
  <2>2. DOMAIN ents = DOMAIN c.ents \cup {fr.id}
    BY DEF With
  <2> HIDE DEF ents, last, d
  <2>3. d.ents = ents /\ d.last = last /\ ClientShape(d)
    BY <1>1, <1>2, <2>1, <2>2 DEF ClientShape
  <2> QED
    BY <1>1, <1>2, <1>5, <2>2, <2>3 DEF d
<1>6. CASE ~isStale(c, fr) /\ fr.kind \notin {"removed", "full"} /\ fr.id \in DOMAIN c.ents
  <2> DEFINE ents == [c.ents EXCEPT ![fr.id] = Over(fr.vals, c.ents[fr.id])]
  <2>1. d = [ents |-> ents, last |-> last]
    BY <1>1, <1>6 DEF Apply
  <2>2. DOMAIN ents = DOMAIN c.ents
    OBVIOUS
  <2> HIDE DEF ents, last, d
  <2>3. d.ents = ents /\ d.last = last /\ ClientShape(d)
    BY <1>1, <1>2, <2>1, <2>2 DEF ClientShape
  <2> QED
    BY <1>1, <1>2, <1>6, <2>2, <2>3 DEF d
<1>7. CASE ~isStale(c, fr) /\ fr.kind \notin {"removed", "full"} /\ fr.id \notin DOMAIN c.ents
  <2>1. d = c
    BY <1>7 DEF Apply
  <2> HIDE DEF d
  <2>2. ClientShape(d)
    BY <2>1
  <2> QED
    BY <1>1, <1>7, <2>1, <2>2 DEF d
<1> QED
  BY <1>3, <1>4, <1>5, <1>6, <1>7

\* Compact frames change no more than the revisions of entities the client shows.
LEMMA ApplyCompact ==
    ASSUME NEW C, \A fr \in C : fr.kind = "compact" /\ fr.rev \in Nat, NEW frames \in Seq(C),
           NEW c, ClientShape(c), NEW e
    PROVE  LET d == FoldLeft(Apply, c, frames) IN
           /\ ClientShape(d)
           /\ DOMAIN d.ents = DOMAIN c.ents /\ DOMAIN d.last = DOMAIN c.last
           /\ e \in DOMAIN c.ents =>
                \/ d.last[e] = c.last[e]
                \/ \E j \in 1 .. Len(frames) : frames[j].id = e /\ d.last[e] = frames[j].rev
           /\ e \in DOMAIN c.last \ DOMAIN c.ents => d.last[e] = c.last[e]
<1> DEFINE n == Len(frames)
<1>1. n \in Nat /\ DOMAIN frames = 1 .. n /\ \A i \in 1 .. n : frames[i] \in C
  OBVIOUS
<1> HIDE DEF n
<1>2. PICK h : ApplyRun(h, n, c, frames)
  BY <1>1, ApplySteps
<1>3. /\ h[0] = c /\ FoldLeft(Apply, c, frames) = h[n]
      /\ \A i \in 1 .. n : h[i] = Apply(h[i - 1], frames[i])
  BY <1>2 DEF ApplyRun
<1> DEFINE Now(d) ==
             /\ ClientShape(d)
             /\ DOMAIN d.ents = DOMAIN c.ents /\ DOMAIN d.last = DOMAIN c.last
             /\ e \in DOMAIN c.ents =>
                  \/ d.last[e] = c.last[e]
                  \/ \E j \in 1 .. n : frames[j].id = e /\ d.last[e] = frames[j].rev
             /\ e \in DOMAIN c.last \ DOMAIN c.ents => d.last[e] = c.last[e]
           U == {i \in 0 .. n : Now(h[i])}
<1>4. 0 \in U
  BY <1>1, <1>3
<1>5. ASSUME NEW i \in 1 .. n, i - 1 \in U PROVE i \in U
  <2> DEFINE d == h[i - 1]
             b == h[i]
             fr == frames[i]
  <2>1. i \in 0 .. n /\ Now(d)
    BY <1>1, <1>5
  <2>2. b = Apply(d, fr) /\ fr.kind = "compact" /\ fr.rev \in Nat /\ fr.kind \in FrameKinds
    BY <1>1, <1>3 DEF FrameKinds
  <2> HIDE DEF d, b
  <2>3. \A x : /\ x \in DOMAIN b.ents => x \in DOMAIN d.ents
               /\ x \in DOMAIN d.ents => x \in DOMAIN b.ents
               /\ x \in DOMAIN b.last \ DOMAIN b.ents => x \in DOMAIN d.last
    <3> TAKE x
    <3> QED
      BY <2>1, <2>2, ApplyOne
  <2>4. /\ ClientShape(b)
        /\ e \in DOMAIN b.ents => b.last[e] = d.last[e] \/ (e = fr.id /\ b.last[e] = fr.rev)
        /\ e \in DOMAIN b.last \ DOMAIN b.ents => b.last[e] = d.last[e]
    BY <2>1, <2>2, ApplyOne
  <2>5. DOMAIN b.ents = DOMAIN d.ents
    BY <2>3
  <2>6. DOMAIN b.last = DOMAIN d.last
    <3>1. ASSUME NEW x \in DOMAIN d.last PROVE x \in DOMAIN b.last
      <4>1. DOMAIN d.last \subseteq DOMAIN Apply(d, fr).last
        BY DEF Apply, With
      <4> QED
        BY <2>2, <4>1
    <3> QED
      BY <2>1, <2>3, <2>4, <2>5, <3>1 DEF ClientShape
  <2>7. Now(b)
    BY <2>1, <2>4, <2>5, <2>6
  <2> QED
    BY <2>1, <2>7 DEF b
<1> HIDE DEF U
<1>6. \A i \in 0 .. n : i \in U
  BY <1>1, <1>4, <1>5, UpTo
<1>7. n \in U
  BY <1>1, <1>6
<1> QED
  BY <1>3, <1>7 DEF U, n

FramesTyped(s) ==
    \A i \in 1 .. Len(s) : s[i].rev \in Nat /\ s[i].kind \in FrameKinds

\* What holds of the stream and the client before a frame is read holds after.
LEMMA ReadFrame ==
    ASSUME NEW X, NEW s \in Seq(X), s # <<>>, FramesTyped(s), NEW n, NEW c, ClientShape(c), NEW e
    PROVE  LET d == Apply(c, Head(s))
               t == Tail(s)
           IN  /\ Shown(s, c, e) => Shown(t, d, e)
               /\ Gone(s, n, c, e) => Gone(t, n, d, e)
               /\ \A r \in Nat : Low(s, c, e, r) => Low(t, d, e, r)
               /\ Fresh(s, e) => Fresh(t, e)
<1> DEFINE fr == s[1]
           d == Apply(c, fr)
           t == Tail(s)
<1>1. /\ Head(s) = fr /\ Len(s) \in Nat /\ Len(s) >= 1 /\ Len(t) = Len(s) - 1
      /\ \A i \in 1 .. Len(t) : t[i] = s[i + 1] /\ i + 1 \in 1 .. Len(s)
      /\ \A i \in 2 .. Len(s) : s[i] = t[i - 1] /\ i - 1 \in 1 .. Len(t)
      /\ \A i \in 1 .. Len(s) : i = 1 \/ i \in 2 .. Len(s)
      /\ 1 \in 1 .. Len(s)
  OBVIOUS
<1>2. fr.rev \in Nat /\ fr.kind \in FrameKinds
  BY <1>1 DEF FramesTyped
<1>3. /\ e \in DOMAIN d.ents =>
           \/ e \in DOMAIN c.ents /\ d.last[e] = c.last[e]
           \/ /\ e = fr.id /\ fr.kind # "removed" /\ d.last[e] = fr.rev
              /\ e \in DOMAIN c.ents \/ fr.kind = "full"
      /\ e \in DOMAIN d.last \ DOMAIN d.ents =>
           \/ e \in DOMAIN c.last \ DOMAIN c.ents /\ d.last[e] = c.last[e]
           \/ e = fr.id /\ fr.kind = "removed" /\ d.last[e] = fr.rev
      /\ e \in DOMAIN c.ents /\ ~(e = fr.id /\ fr.kind = "removed") => e \in DOMAIN d.ents
      /\ e = fr.id /\ fr.kind = "full"
           /\ (e \in DOMAIN c.last \ DOMAIN c.ents => c.last[e] <= fr.rev) => e \in DOMAIN d.ents
      /\ e = fr.id /\ fr.kind = "removed"
           /\ (e \in DOMAIN c.ents => c.last[e] <= fr.rev) => e \notin DOMAIN d.ents
  BY <1>2, ApplyOne
<1> HIDE DEF d, t
<1>4. Fresh(s, e) => Fresh(t, e) /\ (e \in DOMAIN c.ents => e \in DOMAIN d.ents)
  BY <1>1, <1>3 DEF Fresh, RemovedAt
<1>5. NeverFull(s, e) => NeverFull(t, e) /\ (e \notin DOMAIN c.ents => e \notin DOMAIN d.ents)
  BY <1>1, <1>3 DEF NeverFull, FullAt
<1>6. ASSUME NEW r \in Nat, Low(s, c, e, r) PROVE Low(t, d, e, r)
  BY <1>1, <1>3, <1>6 DEF Low, RemovedAt
<1>7. ASSUME NEW i \in 1 .. Len(s), FullAt(s, i, e), \A j \in i .. Len(s) : ~RemovedAt(s, j, e),
             \A j \in 1 .. i : RemovedAt(s, j, e) => s[j].rev <= s[i].rev,
             e \in DOMAIN c.last \ DOMAIN c.ents => c.last[e] <= s[i].rev
      PROVE  Shown(t, d, e)
  <2>1. CASE i = 1
    <3>1. e \in DOMAIN d.ents
      BY <1>3, <1>7, <2>1 DEF FullAt
    <3>2. Fresh(t, e)
      <4>1. ASSUME NEW k \in 1 .. Len(t) PROVE ~RemovedAt(t, k, e)
        <5>1. k + 1 \in i .. Len(s) /\ t[k] = s[k + 1]
          BY <1>1, <2>1
        <5> QED
          BY <1>7, <5>1 DEF RemovedAt
      <4> QED
        BY <4>1 DEF Fresh
    <3> QED
      BY <3>1, <3>2 DEF Shown
  <2>2. CASE i # 1
    <3> DEFINE k == i - 1
    <3>1. k \in 1 .. Len(t) /\ t[k] = s[i] /\ 1 \in 1 .. i
      BY <1>1, <2>2
    <3> HIDE DEF k
    <3>2. FullAt(t, k, e)
      BY <1>7, <3>1 DEF FullAt
    <3>3. ASSUME NEW j \in k .. Len(t) PROVE ~RemovedAt(t, j, e)
      <4>1. j + 1 \in i .. Len(s) /\ t[j] = s[j + 1]
        BY <1>1, <2>2, <3>1 DEF k
      <4> QED
        BY <1>7, <4>1 DEF RemovedAt
    <3>4. ASSUME NEW j \in 1 .. k, RemovedAt(t, j, e) PROVE t[j].rev <= t[k].rev
      <4>1. j + 1 \in 1 .. i /\ t[j] = s[j + 1]
        BY <1>1, <2>2, <3>1 DEF k
      <4> QED
        BY <1>7, <3>1, <3>4, <4>1 DEF RemovedAt
    <3>5. e \in DOMAIN d.last \ DOMAIN d.ents => d.last[e] <= t[k].rev
      BY <1>3, <1>7, <3>1 DEF RemovedAt
    <3> QED
      BY <3>1, <3>2, <3>3, <3>4, <3>5 DEF Shown
  <2> QED
    BY <2>1, <2>2
<1>8. ASSUME NEW i \in 1 .. Len(s), RemovedAt(s, i, e), \A j \in i .. Len(s) : ~FullAt(s, j, e),
             \A j \in 1 .. i : s[j].id = e /\ s[j].kind # "removed" => s[j].rev <= s[i].rev,
             \A x \in n : \A j \in 1 .. Len(x.frames) :
                x.frames[j].id = e => x.frames[j].rev <= s[i].rev,
             e \in DOMAIN c.ents => c.last[e] <= s[i].rev
      PROVE  Gone(t, n, d, e)
  <2>1. CASE i = 1
    <3>1. e \notin DOMAIN d.ents
      BY <1>3, <1>8, <2>1 DEF RemovedAt
    <3>2. NeverFull(t, e)
      <4>1. ASSUME NEW k \in 1 .. Len(t) PROVE ~FullAt(t, k, e)
        <5>1. k + 1 \in i .. Len(s) /\ t[k] = s[k + 1]
          BY <1>1, <2>1
        <5> QED
          BY <1>8, <5>1 DEF FullAt
      <4> QED
        BY <4>1 DEF NeverFull
    <3> QED
      BY <3>1, <3>2 DEF Gone
  <2>2. CASE i # 1
    <3> DEFINE k == i - 1
    <3>1. k \in 1 .. Len(t) /\ t[k] = s[i] /\ 1 \in 1 .. i
      BY <1>1, <2>2
    <3> HIDE DEF k
    <3>2. RemovedAt(t, k, e)
      BY <1>8, <3>1 DEF RemovedAt
    <3>3. ASSUME NEW j \in k .. Len(t) PROVE ~FullAt(t, j, e)
      <4>1. j + 1 \in i .. Len(s) /\ t[j] = s[j + 1]
        BY <1>1, <2>2, <3>1 DEF k
      <4> QED
        BY <1>8, <4>1 DEF FullAt
    <3>4. ASSUME NEW j \in 1 .. k, t[j].id = e, t[j].kind # "removed" PROVE t[j].rev <= t[k].rev
      <4>1. j + 1 \in 1 .. i /\ t[j] = s[j + 1]
        BY <1>1, <2>2, <3>1 DEF k
      <4> QED
        BY <1>8, <3>1, <3>4, <4>1
    <3>5. e \in DOMAIN d.ents => d.last[e] <= t[k].rev
      BY <1>3, <1>8, <3>1
    <3>6. \A x \in n : \A j \in 1 .. Len(x.frames) :
                x.frames[j].id = e => x.frames[j].rev <= t[k].rev
      BY <1>8, <3>1
    <3> QED
      BY <3>1, <3>2, <3>3, <3>4, <3>5, <3>6 DEF Gone
  <2> QED
    BY <2>1, <2>2
<1>9. Shown(s, c, e) => Shown(t, d, e)
  <2>1. CASE e \in DOMAIN c.ents /\ Fresh(s, e)
    BY <1>4, <2>1 DEF Shown
  <2>2. CASE ~(e \in DOMAIN c.ents /\ Fresh(s, e))
    BY <1>7, <2>2 DEF Shown
  <2> QED
    BY <2>1, <2>2
<1>10. Gone(s, n, c, e) => Gone(t, n, d, e)
  <2>1. CASE e \notin DOMAIN c.ents /\ NeverFull(s, e)
    BY <1>5, <2>1 DEF Gone
  <2>2. CASE ~(e \notin DOMAIN c.ents /\ NeverFull(s, e))
    BY <1>8, <2>2 DEF Gone
  <2> QED
    BY <2>1, <2>2
<1> QED
  BY <1>1, <1>4, <1>6, <1>9, <1>10 DEF d, t

\* Reading a datagram changes no more than the revisions of shown entities.
LEMMA ReadDatagram ==
    ASSUME NEW C, \A fr \in C : fr.kind = "compact" /\ fr.rev \in Nat, NEW n, NEW dg \in n,
           dg.frames \in Seq(C), NEW c, ClientShape(c), NEW s, NEW e
    PROVE  LET d == FoldLeft(Apply, c, dg.frames) IN
           /\ Shown(s, c, e) => Shown(s, d, e)
           /\ Gone(s, n, c, e) => Gone(s, n \ {dg}, d, e)
           /\ \A r \in Nat : Low(s, c, e, r) => Low(s, d, e, r)
<1> DEFINE d == FoldLeft(Apply, c, dg.frames)
<1>1. /\ DOMAIN d.ents = DOMAIN c.ents /\ DOMAIN d.last = DOMAIN c.last
      /\ e \in DOMAIN c.ents =>
           \/ d.last[e] = c.last[e]
           \/ \E j \in 1 .. Len(dg.frames) : dg.frames[j].id = e /\ d.last[e] = dg.frames[j].rev
      /\ e \in DOMAIN c.last \ DOMAIN c.ents => d.last[e] = c.last[e]
  BY ApplyCompact
<1> HIDE DEF d
<1>2. Shown(s, c, e) => Shown(s, d, e)
  BY <1>1 DEF Shown
<1>3. \A r \in Nat : Low(s, c, e, r) => Low(s, d, e, r)
  BY <1>1 DEF Low
<1>4. Gone(s, n, c, e) => Gone(s, n \ {dg}, d, e)
  <2>1. ASSUME NEW r, \A x \in n : \A j \in 1 .. Len(x.frames) :
                        x.frames[j].id = e => x.frames[j].rev <= r,
               e \in DOMAIN c.ents => c.last[e] <= r
        PROVE  e \in DOMAIN d.ents => d.last[e] <= r
    BY <1>1, <2>1
  <2> QED
    BY <1>1, <2>1 DEF Gone
<1> QED
  BY <1>2, <1>3, <1>4 DEF d

\* The elements of a concatenation.
LEMMA Joined ==
    ASSUME NEW X, NEW s \in Seq(X), NEW x \in Seq(X)
    PROVE  /\ Len(s) \in Nat /\ Len(x) \in Nat /\ s \o x \in Seq(X)
           /\ Len(s \o x) = Len(s) + Len(x)
           /\ \A i \in 1 .. Len(s) : (s \o x)[i] = s[i] /\ i \in 1 .. Len(s \o x)
           /\ \A i \in 1 .. Len(x) : /\ (s \o x)[Len(s) + i] = x[i]
                                     /\ Len(s) + i \in 1 .. Len(s \o x)
           /\ \A i \in 1 .. Len(s \o x) : i \in 1 .. Len(s) \/ i - Len(s) \in 1 .. Len(x)
           /\ \A i \in 1 .. Len(s \o x) : i = Len(s) + (i - Len(s))
  OBVIOUS

\* Frames that do not remove e keep what was to be known of it.
LEMMA AppendKeeps ==
    ASSUME NEW X, NEW s \in Seq(X), NEW x \in Seq(X), NEW c, NEW e, Fresh(x, e)
    PROVE  /\ Shown(s, c, e) => Shown(s \o x, c, e)
           /\ Fresh(s, e) => Fresh(s \o x, e)
<1> DEFINE t == s \o x
           k == Len(s)
<1>1. /\ k \in Nat /\ Len(x) \in Nat /\ Len(t) = k + Len(x)
      /\ \A i \in 1 .. k : t[i] = s[i] /\ i \in 1 .. Len(t)
      /\ \A i \in 1 .. Len(x) : t[k + i] = x[i]
      /\ \A i \in 1 .. Len(t) : i \in 1 .. k \/ i - k \in 1 .. Len(x)
      /\ \A i \in 1 .. Len(t) : i = k + (i - k)
  BY Joined
<1> HIDE DEF t, k
<1>2. \A i \in 1 .. Len(t) : RemovedAt(t, i, e) => i \in 1 .. k /\ RemovedAt(s, i, e)
  <2> SUFFICES ASSUME NEW i \in 1 .. Len(t), RemovedAt(t, i, e)
               PROVE  i \in 1 .. k /\ RemovedAt(s, i, e)
    OBVIOUS
  <2>1. CASE i \in 1 .. k
    BY <1>1, <2>1 DEF RemovedAt
  <2>2. CASE i - k \in 1 .. Len(x)
    <3>1. t[i] = x[i - k]
      BY <1>1, <2>2
    <3> QED
      BY <2>2, <3>1 DEF RemovedAt, Fresh
  <2> QED
    BY <1>1, <2>1, <2>2
<1>3. Fresh(s, e) => Fresh(t, e)
  BY <1>2 DEF Fresh, k
<1>4. ASSUME NEW i \in 1 .. Len(s), FullAt(s, i, e), \A j \in i .. Len(s) : ~RemovedAt(s, j, e),
             \A j \in 1 .. i : RemovedAt(s, j, e) => s[j].rev <= s[i].rev,
             e \in DOMAIN c.last \ DOMAIN c.ents => c.last[e] <= s[i].rev
      PROVE  Shown(t, c, e)
  <2>1. i \in 1 .. Len(t) /\ t[i] = s[i]
    BY <1>1, <1>4 DEF k
  <2>2. ASSUME NEW j \in i .. Len(t) PROVE ~RemovedAt(t, j, e)
    <3>1. j \in 1 .. Len(t) /\ (j \in 1 .. k => j \in i .. Len(s))
      BY <1>1, <2>1 DEF k
    <3> QED
      BY <1>2, <1>4, <3>1
  <2>3. ASSUME NEW j \in 1 .. i, RemovedAt(t, j, e) PROVE t[j].rev <= t[i].rev
    <3>1. j \in 1 .. k /\ t[j] = s[j]
      BY <1>1, <1>4 DEF k
    <3> QED
      BY <1>4, <2>1, <2>3, <3>1 DEF RemovedAt
  <2> QED
    BY <1>4, <2>1, <2>2, <2>3 DEF Shown, FullAt
<1>5. Shown(s, c, e) => Shown(t, c, e)
  <2>1. CASE e \in DOMAIN c.ents /\ Fresh(s, e)
    BY <1>3, <2>1 DEF Shown
  <2>2. CASE ~(e \in DOMAIN c.ents /\ Fresh(s, e))
    BY <1>4, <2>2 DEF Shown
  <2> QED
    BY <2>1, <2>2
<1> QED
  BY <1>3, <1>5 DEF t

\* Removals at a revision that is no greater keep it low.
LEMMA AppendLow ==
    ASSUME NEW X, NEW s \in Seq(X), NEW x \in Seq(X), NEW c, NEW e, NEW r, Low(s, c, e, r),
           \A i \in 1 .. Len(x) : RemovedAt(x, i, e) => x[i].rev <= r
    PROVE  Low(s \o x, c, e, r)
<1> DEFINE t == s \o x
           k == Len(s)
<1>1. /\ k \in Nat /\ Len(x) \in Nat /\ Len(t) = k + Len(x)
      /\ \A i \in 1 .. k : t[i] = s[i] /\ i \in 1 .. Len(t)
      /\ \A i \in 1 .. Len(x) : t[k + i] = x[i]
      /\ \A i \in 1 .. Len(t) : i \in 1 .. k \/ i - k \in 1 .. Len(x)
      /\ \A i \in 1 .. Len(t) : i = k + (i - k)
  BY Joined
<1> HIDE DEF t, k
<1>2. ASSUME NEW i \in 1 .. Len(t), RemovedAt(t, i, e) PROVE t[i].rev <= r
  <2>1. CASE i \in 1 .. k
    BY <1>1, <1>2, <2>1 DEF RemovedAt, Low, k
  <2>2. CASE i - k \in 1 .. Len(x)
    <3>1. t[i] = x[i - k]
      BY <1>1, <2>2
    <3> QED
      BY <1>2, <2>2, <3>1 DEF RemovedAt
  <2> QED
    BY <1>1, <2>1, <2>2
<1>3. Low(t, c, e, r)
  BY <1>2 DEF Low
<1> QED
  BY <1>3 DEF t

\* A full state shows the entity, unless a later removal follows.
LEMMA AppendFull ==
    ASSUME NEW X, NEW s \in Seq(X), NEW x \in Seq(X), NEW c, NEW e, Fresh(x, e),
           NEW i \in 1 .. Len(x), FullAt(x, i, e), Low(s, c, e, x[i].rev)
    PROVE  Shown(s \o x, c, e)
<1> DEFINE t == s \o x
           k == Len(s)
           m == k + i
<1>1. /\ k \in Nat /\ Len(x) \in Nat /\ Len(t) = k + Len(x)
      /\ \A j \in 1 .. k : t[j] = s[j] /\ j \in 1 .. Len(t)
      /\ \A j \in 1 .. Len(x) : t[k + j] = x[j] /\ k + j \in 1 .. Len(t)
      /\ \A j \in 1 .. Len(t) : j \in 1 .. k \/ j - k \in 1 .. Len(x)
      /\ \A j \in 1 .. Len(t) : j = k + (j - k)
  BY Joined
<1>2. m \in 1 .. Len(t) /\ t[m] = x[i]
  BY <1>1
<1> HIDE DEF t, m
<1>3. \A j \in 1 .. Len(t) : RemovedAt(t, j, e) => j \in 1 .. k /\ RemovedAt(s, j, e)
  <2> SUFFICES ASSUME NEW j \in 1 .. Len(t), RemovedAt(t, j, e)
               PROVE  j \in 1 .. k /\ RemovedAt(s, j, e)
    OBVIOUS
  <2>1. CASE j \in 1 .. k
    BY <1>1, <2>1 DEF RemovedAt
  <2>2. CASE j - k \in 1 .. Len(x)
    <3>1. t[j] = x[j - k]
      BY <1>1, <2>2
    <3> QED
      BY <2>2, <3>1 DEF RemovedAt, Fresh
  <2> QED
    BY <1>1, <2>1, <2>2
<1>4. FullAt(t, m, e)
  BY <1>2 DEF FullAt
<1>5. ASSUME NEW j \in m .. Len(t) PROVE ~RemovedAt(t, j, e)
  <2>1. j \in 1 .. Len(t) /\ j \notin 1 .. k
    BY <1>1, <1>2 DEF m
  <2> QED
    BY <1>3, <2>1
<1>6. ASSUME NEW j \in 1 .. m, RemovedAt(t, j, e) PROVE t[j].rev <= t[m].rev
  <2>1. j \in 1 .. Len(t)
    BY <1>1, <1>2
  <2>2. j \in 1 .. k /\ RemovedAt(s, j, e) /\ t[j] = s[j]
    BY <1>1, <1>3, <1>6, <2>1
  <2> QED
    BY <1>2, <2>2 DEF Low
<1>7. e \in DOMAIN c.last \ DOMAIN c.ents => c.last[e] <= t[m].rev
  BY <1>2 DEF Low
<1>8. Shown(t, c, e)
  BY <1>2, <1>4, <1>5, <1>6, <1>7 DEF Shown
<1> QED
  BY <1>8 DEF t

\* What is gone stays gone when nothing more than deltas that cannot arrive
\* before its removal follows.
LEMMA AppendGone ==
    ASSUME NEW X, NEW s \in Seq(X), NEW x \in Seq(X), NEW n, NEW m, NEW c, NEW e,
           Gone(s, n, c, e), NeverFull(x, e),
           \/ Fresh(s, e)
           \/ \A d \in m \ n : \A j \in 1 .. Len(d.frames) : d.frames[j].id # e
    PROVE  Gone(s \o x, m, c, e)
<1> DEFINE t == s \o x
           k == Len(s)
<1>1. /\ k \in Nat /\ Len(x) \in Nat /\ Len(t) = k + Len(x)
      /\ \A i \in 1 .. k : t[i] = s[i] /\ i \in 1 .. Len(t)
      /\ \A i \in 1 .. Len(x) : t[k + i] = x[i]
      /\ \A i \in 1 .. Len(t) : i \in 1 .. k \/ i - k \in 1 .. Len(x)
      /\ \A i \in 1 .. Len(t) : i = k + (i - k)
  BY Joined
<1> HIDE DEF t, k
<1>2. \A i \in 1 .. Len(t) : FullAt(t, i, e) => i \in 1 .. k /\ FullAt(s, i, e)
  <2> SUFFICES ASSUME NEW i \in 1 .. Len(t), FullAt(t, i, e)
               PROVE  i \in 1 .. k /\ FullAt(s, i, e)
    OBVIOUS
  <2>1. CASE i \in 1 .. k
    BY <1>1, <2>1 DEF FullAt
  <2>2. CASE i - k \in 1 .. Len(x)
    <3>1. t[i] = x[i - k]
      BY <1>1, <2>2
    <3> QED
      BY <2>2, <3>1 DEF FullAt, NeverFull
  <2> QED
    BY <1>1, <2>1, <2>2
<1>3. CASE e \notin DOMAIN c.ents /\ NeverFull(s, e)
  <2>1. NeverFull(t, e)
    BY <1>2, <1>3 DEF NeverFull, k
  <2> QED
    BY <1>3, <2>1 DEF Gone, t
<1>4. CASE ~(e \notin DOMAIN c.ents /\ NeverFull(s, e))
  <2>1. PICK i \in 1 .. Len(s) :
          /\ RemovedAt(s, i, e) /\ \A j \in i .. Len(s) : ~FullAt(s, j, e)
          /\ \A j \in 1 .. i : s[j].id = e /\ s[j].kind # "removed" => s[j].rev <= s[i].rev
          /\ \A d \in n : \A j \in 1 .. Len(d.frames) :
                d.frames[j].id = e => d.frames[j].rev <= s[i].rev
          /\ e \in DOMAIN c.ents => c.last[e] <= s[i].rev
    BY <1>4 DEF Gone
  <2>2. \A d \in m \ n : \A j \in 1 .. Len(d.frames) : d.frames[j].id # e
    BY <2>1 DEF Fresh
  <2>3. i \in 1 .. Len(t) /\ t[i] = s[i]
    BY <1>1 DEF k
  <2>4. RemovedAt(t, i, e)
    BY <2>1, <2>3 DEF RemovedAt
  <2>5. ASSUME NEW j \in i .. Len(t) PROVE ~FullAt(t, j, e)
    <3>1. j \in 1 .. Len(t) /\ (j \in 1 .. k => j \in i .. Len(s))
      BY <1>1, <2>3 DEF k
    <3> QED
      BY <1>2, <2>1, <3>1
  <2>6. ASSUME NEW j \in 1 .. i, t[j].id = e, t[j].kind # "removed" PROVE t[j].rev <= t[i].rev
    <3>1. j \in 1 .. k /\ t[j] = s[j]
      BY <1>1 DEF k
    <3> QED
      BY <2>1, <2>3, <2>6, <3>1
  <2>7. ASSUME NEW d \in m, NEW j \in 1 .. Len(d.frames), d.frames[j].id = e
        PROVE  d.frames[j].rev <= t[i].rev
    BY <2>1, <2>2, <2>3, <2>7
  <2>8. e \in DOMAIN c.ents => c.last[e] <= t[i].rev
    BY <2>1, <2>3
  <2>9. Gone(t, m, c, e)
    BY <2>3, <2>4, <2>5, <2>6, <2>7, <2>8 DEF Gone
  <2> QED
    BY <2>9 DEF t
<1> QED
  BY <1>3, <1>4

\* A frame is last of its kind when no full state of the entity follows it.
LEMMA AppendLast ==
    ASSUME NEW X, NEW s \in Seq(X), NEW x \in Seq(X), NEW e, NeverFull(x, e), NEW i \in 1 .. Len(x)
    PROVE  \E p \in 1 .. Len(s \o x) :
              (s \o x)[p] = x[i] /\ \A j \in p .. Len(s \o x) : ~FullAt(s \o x, j, e)
<1> DEFINE t == s \o x
           k == Len(s)
           p == k + i
<1>1. /\ k \in Nat /\ Len(x) \in Nat /\ Len(t) = k + Len(x)
      /\ \A j \in 1 .. Len(x) : t[k + j] = x[j] /\ k + j \in 1 .. Len(t)
      /\ \A j \in 1 .. Len(t) : j \in 1 .. k \/ j - k \in 1 .. Len(x)
      /\ \A j \in 1 .. Len(t) : j = k + (j - k)
  BY Joined
<1>2. p \in 1 .. Len(t) /\ t[p] = x[i]
  BY <1>1
<1> HIDE DEF t
<1>3. ASSUME NEW j \in p .. Len(t) PROVE ~FullAt(t, j, e)
  <2>1. j - k \in 1 .. Len(x) /\ j \in 1 .. Len(t)
    BY <1>1, <1>2
  <2>2. t[j] = x[j - k]
    BY <1>1, <2>1
  <2> QED
    BY <2>1, <2>2 DEF NeverFull, FullAt
<1> QED
  BY <1>2, <1>3 DEF t

-----------------------------------------------------------------------------
(* What the session knows: the invariant, and one lemma for each action. *)

\* Entities a change may name: of those that are registered, the ones the
\* session knows and the ones it was never told to forget.
Reach == {e \in born : e \in live => e \in known \/ Fresh(stream, e)}
Dead  == born \ live

ShownOK ==
    /\ \A e \in known \ astray : Shown(stream, client, e)
    /\ \A e \in Entities \ (known \cup astray) : Gone(stream, net, client, e)
OrderOK ==
    /\ \A e \in DOMAIN client.ents : client.last[e] <= rev[e]
    /\ \A e \in live \cup (spawned \ astray) : Low(stream, client, e, rev[e])
    /\ \A i \in 1 .. Len(despawned) : despawned[i].rev >= rev[despawned[i].id]
NamesOK ==
    /\ \A i \in 1 .. Len(stream) : stream[i].id \in born
    /\ DOMAIN client.last \subseteq born
ConnectingOK ==
    /\ sess # "live" => \A e \in Entities : Fresh(stream, e)
    /\ sess = "new" => known = {}
FlushOrderOK ==
    pass # NoPass =>
        /\ \A e \in DOMAIN pass.spawns :
              /\ pass.spawns[e].kind = "full"
              /\ e \notin astray => Low(stream, client, e, pass.spawns[e].rev)
        /\ \A e \in DOMAIN pass.deltas : flushMask[e] # {}
        /\ \A e \in DOMAIN pass.deltas \cap live :
              ~pass.filter => e \in known \/ Fresh(stream, e)
        /\ \A i \in 1 .. Len(pass.removals) :
              LET r == pass.removals[i] IN r.rev >= rev[r.id] /\ r.id \notin spawned \ astray
        /\ \A e \in DOMAIN pass.removed :
              pass.removed[e] >= rev[e] /\ e \notin spawned \ astray
\* The removals a pass sends are those it takes from the known set in the end,
\* but for the ones that lost or took a place in its list in between.
AstrayOK ==
    /\ astray \subseteq Dead
    /\ pass # NoPass =>
        /\ pass.read <= Len(pass.removals)
        /\ \A e \in Entities \ astray :
              e \in DOMAIN pass.removed <=> \E i \in 1 .. pass.read : pass.removals[i].id = e

KnownInv ==
    /\ ShownOK /\ OrderOK /\ NamesOK /\ ConnectingOK /\ FlushOrderOK /\ AstrayOK
    /\ TrackerOK(tracker, Reach, {}, Dead)

\* The frames on their way, as the history has them.
CompactNow == {fr \in FrameSet : fr.kind = "compact" /\ fr.rev <= rev[fr.id]}

\* What the history says of the frames on their way.
LEMMA OnTheWay ==
    ASSUME RevisionInv
    PROVE  /\ rev \in [Entities -> Nat]
           /\ stream \in Seq(FrameSet) /\ FramesTyped(stream)
           /\ \A i \in 1 .. Len(stream) :
                 stream[i].kind # "removed" => stream[i].rev <= rev[stream[i].id]
           /\ \A d \in net : d.frames \in Seq(CompactNow)
           /\ ClientShape(client)
           /\ pass # NoPass => \A e \in DOMAIN pass.spawns : pass.spawns[e].rev \in Nat
<1>1. PICK H : HistoryOK(H) /\ LanesOK(H) /\ ClientOK(H, client)
  BY DEF RevisionInv
<1> DEFINE G == Good(H, rev, scenario.private)
           C == Compact(H, rev, scenario.private)
<1>2. /\ \A fr \in G : fr \in FrameSet /\ (fr.kind # "removed" => fr.rev <= rev[fr.id])
      /\ C \subseteq CompactNow
  BY DEF Good, Compact, CompactNow
<1>3. /\ stream \in Seq(G) /\ \A d \in net : d.frames \in Seq(C)
      /\ pass # NoPass => \A e \in DOMAIN pass.spawns : pass.spawns[e] \in G
  BY <1>1 DEF LanesOK
<1> HIDE DEF G, C
<1>4. \A X, Y : X \subseteq Y => Seq(X) \subseteq Seq(Y)
  OBVIOUS
<1>5. G \subseteq FrameSet
  BY <1>2
<1>6. stream \in Seq(FrameSet) /\ \A d \in net : d.frames \in Seq(CompactNow)
  BY <1>2, <1>3, <1>4, <1>5
<1>7. \A i \in 1 .. Len(stream) : stream[i] \in G
  BY <1>3
<1>8. /\ FramesTyped(stream)
      /\ \A i \in 1 .. Len(stream) :
                 stream[i].kind # "removed" => stream[i].rev <= rev[stream[i].id]
  BY <1>2, <1>7 DEF FramesTyped, FrameSet
<1>9. ClientShape(client)
  BY <1>1 DEF ClientOK, ClientShape
<1>10. pass # NoPass => \A e \in DOMAIN pass.spawns : pass.spawns[e].rev \in Nat
  BY <1>2, <1>3 DEF FrameSet
<1>11. rev \in [Entities -> Nat]
  BY DEF RevisionInv, ValuesOK
<1> QED
  BY <1>6, <1>8, <1>9, <1>10, <1>11

\* Revisions only grow, and what is low stays so.
LEMMA LowGrows ==
    ASSUME NEW s, FramesTyped(s), NEW c, ClientShape(c), NEW e, NEW r \in Nat, NEW q \in Nat,
           r <= q, Low(s, c, e, r)
    PROVE  Low(s, c, e, q)
<1>1. ASSUME NEW i \in 1 .. Len(s), RemovedAt(s, i, e) PROVE s[i].rev <= q
  <2>1. s[i].rev \in Nat /\ s[i].rev <= r
    BY <1>1 DEF Low, FramesTyped
  <2> QED
    BY <2>1
<1>2. ASSUME e \in DOMAIN c.last \ DOMAIN c.ents PROVE c.last[e] <= q
  <2>1. c.last[e] \in Nat /\ c.last[e] <= r
    BY <1>2 DEF Low, ClientShape
  <2> QED
    BY <2>1
<1> QED
  BY <1>1, <1>2 DEF Low

\* An entity nobody has heard of is low at any revision.
LEMMA LowUnheard ==
    ASSUME NamesOK, NEW e, e \notin born, NEW r
    PROVE  Low(stream, client, e, r)
  BY DEF NamesOK, Low, RemovedAt

\* A step that tells the session nothing.
LEMMA QuietKnown ==
    ASSUME OwnerInv, RevisionInv, KnownInv, RevisionInv',
           UNCHANGED <<stream, net, client, known>>, astray \subseteq astray',
           sess' = sess \/ sess' = "live",
           TrackerOK(tracker', Reach, {}, Dead), FlushOrderOK', AstrayOK',
           \A e \in Entities : rev'[e] >= rev[e],
           born \subseteq born', live' \cap born \subseteq live,
           (live' \cup spawned') \cap born \subseteq live \cup spawned,
           \A i \in 1 .. Len(despawned') : despawned'[i].rev >= rev'[despawned'[i].id]
    PROVE  KnownInv'
<1>1. /\ rev \in [Entities -> Nat] /\ rev' \in [Entities -> Nat]
      /\ FramesTyped(stream) /\ ClientShape(client)
  BY OnTheWay DEF RevisionInv, ValuesOK
<1>2. ShownOK'
  BY DEF KnownInv, ShownOK
<1>3. OrderOK'
  <2>1. ASSUME NEW e \in DOMAIN client.ents PROVE client.last[e] <= rev'[e]
    <3>1. e \in born /\ e \in Entities /\ client.last[e] \in Nat /\ client.last[e] <= rev[e]
      BY <1>1 DEF KnownInv, NamesOK, OrderOK, ClientShape, OwnerInv, BasicOK
    <3>2. rev[e] \in Nat /\ rev'[e] \in Nat /\ rev'[e] >= rev[e]
      BY <1>1, <3>1
    <3> QED
      BY <3>1, <3>2
  <2>2. ASSUME NEW e \in live' \cup (spawned' \ astray') PROVE Low(stream, client, e, rev'[e])
    <3>1. CASE e \notin born
      BY <3>1, LowUnheard DEF KnownInv
    <3>2. CASE e \in born
      <4>1. e \in live \cup (spawned \ astray)
        BY <2>2, <3>2
      <4>2. e \in Entities /\ Low(stream, client, e, rev[e])
        BY <3>2, <4>1 DEF KnownInv, OrderOK, OwnerInv, BasicOK
      <4>3. rev[e] \in Nat /\ rev'[e] \in Nat /\ rev[e] <= rev'[e]
        BY <1>1, <4>2
      <4> QED
        BY <1>1, <4>2, <4>3, LowGrows
    <3> QED
      BY <3>1, <3>2
  <2> QED
    BY <2>1, <2>2 DEF OrderOK
<1>4. NamesOK' /\ ConnectingOK'
  BY DEF KnownInv, NamesOK, ConnectingOK
<1>5. TrackerOK(tracker', Reach', {}, Dead')
  <2>1. Reach \subseteq Reach' /\ Reach \cap Dead \subseteq Dead'
    BY DEF Reach, Dead
  <2>2. TrackerOK(tracker', Reach, {}, Dead')
    BY <2>1, WholeGrow
  <2> QED
    BY <2>1, <2>2, ChangesGrow
<1> QED
  BY <1>2, <1>3, <1>4, <1>5 DEF KnownInv

\* A pass under way goes on as it is, but deletions may have written over some
\* of its removals: those are astray from then on, as is what replaced them.
PassShared ==
    pass' # NoPass =>
        /\ pass # NoPass /\ SamePass
        /\ \A i \in 1 .. Len(pass.removals) :
              \/ pass'.removals[i] = pass.removals[i]
              \/ /\ {pass.removals[i].id, pass'.removals[i].id} \subseteq astray'
                 /\ pass'.removals[i].rev >= rev'[pass'.removals[i].id]

LEMMA SharedWhole ==
    ASSUME RemovalsOK, pass' = pass \/ pass' = NoPass, born \subseteq born',
           live' \cap born \subseteq live
    PROVE  PassShared
<1> SUFFICES ASSUME pass' = pass PROVE PassShared
  BY DEF PassShared
<1> QED
  BY PassStays DEF PassShared

\* What a pass flushed stays in order while nothing is sent.
LEMMA FlushOrderStays ==
    ASSUME OwnerInv, KnownInv, PassShared, astray \subseteq astray',
           UNCHANGED <<stream, client, known, flushMask>>,
           live' \cap born \subseteq live, spawned' \cap born \subseteq spawned,
           \A e \in born \ live : rev'[e] = rev[e]
    PROVE  FlushOrderOK' /\ (astray' \subseteq Dead' => AstrayOK')
<1> SUFFICES ASSUME pass # NoPass, pass' # NoPass
             PROVE  FlushOrderOK' /\ (astray' \subseteq Dead' => AstrayOK')
  BY DEF FlushOrderOK, AstrayOK, PassShared
<1>1. /\ pass'.filter = pass.filter /\ pass'.spawns = pass.spawns /\ pass'.deltas = pass.deltas
      /\ pass'.read = pass.read /\ pass'.removed = pass.removed
      /\ Len(pass'.removals) = Len(pass.removals)
      /\ \A i \in 1 .. Len(pass.removals) :
            \/ pass'.removals[i] = pass.removals[i]
            \/ /\ {pass.removals[i].id, pass'.removals[i].id} \subseteq astray'
               /\ pass'.removals[i].rev >= rev'[pass'.removals[i].id]
  BY DEF PassShared, SamePass
<1>2. /\ DOMAIN pass.deltas \subseteq born /\ DOMAIN pass.removed \subseteq born \ live
      /\ pass.removals \in Seq(Removal) /\ pass.read \in Nat
  BY DEF OwnerInv, PassOK, RemovalsOK
<1>3. \A i \in 1 .. Len(pass.removals) : pass.removals[i].id \in born \ live
  <2>1. \A i \in 1 .. Len(pass.removals) : pass.removals[i] \in Removal
    BY <1>2
  <2> QED
    BY <2>1 DEF Removal
<1>4. FlushOrderOK /\ AstrayOK
  BY DEF KnownInv
<1>5. \A i \in 1 .. Len(pass'.removals) :
         LET r == pass'.removals[i] IN r.rev >= rev'[r.id] /\ r.id \notin spawned' \ astray'
  <2> SUFFICES ASSUME NEW i \in 1 .. Len(pass.removals)
               PROVE  LET r == pass'.removals[i] IN
                      r.rev >= rev'[r.id] /\ r.id \notin spawned' \ astray'
    BY <1>1
  <2>1. CASE pass'.removals[i] = pass.removals[i]
    <3>1. LET r == pass.removals[i] IN r.rev >= rev[r.id] /\ r.id \notin spawned \ astray
      BY <1>4 DEF FlushOrderOK
    <3> QED
      BY <1>3, <2>1, <3>1
  <2> QED
    BY <1>1, <2>1
<1>6. \A e \in DOMAIN pass.removed :
         pass.removed[e] >= rev'[e] /\ e \notin spawned' \ astray'
  BY <1>2, <1>4 DEF FlushOrderOK
<1>7. FlushOrderOK'
  BY <1>1, <1>2, <1>4, <1>5, <1>6 DEF FlushOrderOK
<1>8. ASSUME NEW e \in Entities \ astray'
      PROVE  e \in DOMAIN pass.removed <=> \E i \in 1 .. pass.read : pass'.removals[i].id = e
  <2>1. e \in DOMAIN pass.removed <=> \E i \in 1 .. pass.read : pass.removals[i].id = e
    BY <1>4 DEF AstrayOK
  <2>2. \A i \in 1 .. pass.read : i \in 1 .. Len(pass.removals)
    BY <1>2, <1>4 DEF AstrayOK
  <2>3. \A i \in 1 .. pass.read : pass'.removals[i].id = e <=> pass.removals[i].id = e
    BY <1>1, <2>2
  <2> QED
    BY <2>1, <2>3
<1>9. pass'.read <= Len(pass'.removals)
  BY <1>1, <1>4 DEF AstrayOK
<1> QED
  BY <1>1, <1>7, <1>8, <1>9 DEF AstrayOK

\* A deletion that takes a place in the list of the pass under way.
LEMMA DespawnShares ==
    ASSUME BasicOK, RemovalsOK, NEW e \in live, live' = live \ {e}, born' = born, rev' = rev,
           Despawn([id |-> e, rev |-> removalRevision(e)])
    PROVE  /\ PassShared
           /\ despawned' = Append(despawned, [id |-> e, rev |-> rev[e] + 1])
           /\ astray \subseteq astray' /\ astray' \subseteq astray \cup (born' \ live')
<1> DEFINE r == [id |-> e, rev |-> rev[e] + 1]
           slot == Len(despawned) + 1
<1>1. r.id = e /\ r.rev >= rev[r.id] /\ r.rev = rev[e] + 1
  BY DEF BasicOK
<1>2. /\ despawned' = Append(despawned, r)
      /\ \/ /\ pass # NoPass /\ slot \in DOMAIN pass.removals
            /\ pass' = [pass EXCEPT !.removals[slot] = r]
            /\ astray' = astray \cup {pass.removals[slot].id, e}
         \/ pass' = pass /\ astray' = astray
  BY DEF Despawn, removalRevision
<1> HIDE DEF r
<1>3. CASE pass' = pass /\ astray' = astray
  BY <1>2, <1>3, SharedWhole DEF r
<1>4. CASE /\ pass # NoPass /\ slot \in DOMAIN pass.removals
           /\ pass' = [pass EXCEPT !.removals[slot] = r]
           /\ astray' = astray \cup {pass.removals[slot].id, e}
  <2>1. PassFields \subseteq DOMAIN pass /\ pass.removals \in Seq(Removal)
    BY <1>4 DEF RemovalsOK
  <2>2. pass'.removals = [pass.removals EXCEPT ![slot] = r]
    BY <1>4, <2>1 DEF PassFields
  <2>3. DOMAIN pass.removals = 1 .. Len(pass.removals) /\ pass.removals[slot] \in Removal
    BY <1>4, <2>1
  <2>4. \A i \in 1 .. Len(pass.removals) :
           \/ pass'.removals[i] = pass.removals[i]
           \/ /\ {pass.removals[i].id, pass'.removals[i].id} \subseteq astray'
              /\ pass'.removals[i].rev >= rev'[pass'.removals[i].id]
    <3> SUFFICES ASSUME NEW i \in 1 .. Len(pass.removals)
                 PROVE  \/ pass'.removals[i] = pass.removals[i]
                        \/ /\ {pass.removals[i].id, pass'.removals[i].id} \subseteq astray'
                           /\ pass'.removals[i].rev >= rev'[pass'.removals[i].id]
      OBVIOUS
    <3>1. CASE i = slot
      <4>1. pass'.removals[i] = r
        BY <2>2, <2>3, <3>1
      <4> QED
        BY <1>1, <1>4, <3>1, <4>1
    <3>2. CASE i # slot
      BY <2>2, <2>3, <3>2
    <3> QED
      BY <3>1, <3>2
  <2>5. SamePass
    BY DespawnKeeps
  <2>6. PassShared
    BY <1>4, <2>4, <2>5 DEF PassShared
  <2>7. pass.removals[slot].id \in born' \ live' /\ e \in born' \ live'
    BY <2>3 DEF Removal, BasicOK
  <2> QED
    BY <1>2, <1>4, <2>6, <2>7 DEF r
<1> QED
  BY <1>2, <1>3, <1>4

\* Game code: a deletion is at the last revision of its entity, a creation of an
\* entity nobody has heard of.
LEMMA GameKeepsKnown ==
    ASSUME OwnerInv, RevisionInv, KnownInv, RevisionInv', GameAction
    PROVE  KnownInv'
<1>1. /\ rev \in [Entities -> Nat] /\ OrderOK /\ astray \subseteq born \ live
      /\ TrackerOK(tracker, Reach, {}, Dead) /\ RemovalsOK
      /\ live \subseteq born /\ spawned \subseteq born /\ born \subseteq Entities
      /\ despawned \in Seq(Removal)
  BY OnTheWay DEF KnownInv, OwnerInv, BasicOK, AstrayOK, Dead
<1>2. \A i \in 1 .. Len(despawned) :
         /\ despawned[i].id \in born \ live
         /\ despawned[i].rev >= rev[despawned[i].id]
  <2>1. \A i \in 1 .. Len(despawned) : despawned[i] \in Removal
    BY <1>1
  <2> QED
    BY <1>1, <2>1 DEF Removal, OrderOK
<1>3. ASSUME NEW e \in Entities, NEW f \in Fields, SetField(e, f) PROVE KnownInv'
  <2>1. /\ e \in live /\ rev' = [rev EXCEPT ![e] = rev[e] + 1]
        /\ UNCHANGED <<live, born, spawned, despawned, flushMask, pass, sess, known, tracker, stream, net,
                       client, astray>>
    BY <1>3 DEF SetField, sendVars, histVars
  <2>2. /\ \A x \in Entities : rev'[x] >= rev[x]
        /\ \A x \in Entities : x # e => rev'[x] = rev[x]
    BY <1>1, <2>1
  <2>3. PassShared
    BY <1>1, <2>1, SharedWhole
  <2>4. FlushOrderOK' /\ AstrayOK'
    BY <1>1, <2>1, <2>2, <2>3, FlushOrderStays DEF Dead
  <2>5. \A i \in 1 .. Len(despawned') : despawned'[i].rev >= rev'[despawned'[i].id]
    BY <1>1, <1>2, <2>1, <2>2
  <2> QED
    BY <1>1, <2>1, <2>2, <2>4, <2>5, QuietKnown
<1>4. ASSUME UNCHANGED <<rev, flushMask, sess, known, tracker, stream, net, client>>, PassShared,
             astray \subseteq astray', astray' \subseteq born' \ live',
             born \subseteq born', live' \cap born \subseteq live, spawned' \cap born \subseteq spawned,
             \A i \in 1 .. Len(despawned') : despawned'[i].rev >= rev[despawned'[i].id]
      PROVE  KnownInv'
  <2>1. \A x \in Entities : rev'[x] >= rev[x]
    BY <1>1, <1>4
  <2>2. FlushOrderOK' /\ AstrayOK'
    BY <1>4, FlushOrderStays DEF Dead
  <2>3. (live' \cup spawned') \cap born \subseteq live \cup spawned
    BY <1>4
  <2> QED
    BY <1>1, <1>4, <2>1, <2>2, <2>3, QuietKnown
<1>5. ASSUME NEW e \in Entities, DeleteEntity(e) PROVE KnownInv'
  <2>1. /\ UNCHANGED <<rev, flushMask, sess, known, tracker, stream, net, client>>
        /\ e \in live /\ born' = born /\ live' = live \ {e} /\ spawned' = spawned
        /\ Despawn([id |-> e, rev |-> removalRevision(e)])
    BY <1>5 DEF DeleteEntity, sendVars
  <2>2. /\ PassShared /\ despawned' = Append(despawned, [id |-> e, rev |-> rev[e] + 1])
        /\ astray \subseteq astray' /\ astray' \subseteq astray \cup (born' \ live')
    BY <1>1, <2>1, DespawnShares DEF OwnerInv
  <2>3. ASSUME NEW i \in 1 .. Len(despawned') PROVE despawned'[i].rev >= rev[despawned'[i].id]
    <3>1. /\ Len(despawned') = Len(despawned) + 1 /\ Len(despawned) \in Nat
          /\ \A j \in 1 .. Len(despawned) : despawned'[j] = despawned[j]
          /\ despawned'[Len(despawned) + 1] = [id |-> e, rev |-> rev[e] + 1]
      BY <1>1, <2>2
    <3>2. CASE i = Len(despawned) + 1
      <4>1. rev[e] \in Nat /\ rev[e] + 1 >= rev[e]
        BY <1>1
      <4> QED
        BY <3>1, <3>2, <4>1
    <3>3. CASE i \in 1 .. Len(despawned)
      BY <1>2, <3>1, <3>3
    <3> QED
      BY <3>1, <3>2, <3>3
  <2>4. astray' \subseteq born' \ live'
    BY <1>1, <2>1, <2>2
  <2> QED
    BY <1>4, <2>1, <2>2, <2>3, <2>4
<1>6. ASSUME NEW e \in Entities, NEW o \in Owners, CreateEntity(e, o) PROVE KnownInv'
  <2>1. /\ UNCHANGED <<rev, flushMask, pass, sess, known, tracker, stream, net, client, astray, despawned>>
        /\ e \notin born
        /\ born' = born \cup {e} /\ live' = live \cup {e} /\ spawned' = spawned \cup {e}
    BY <1>6 DEF CreateEntity, sendVars, histVars
  <2>2. PassShared
    BY <1>1, <2>1, SharedWhole
  <2>3. astray' \subseteq born' \ live'
    BY <1>1, <2>1
  <2> QED
    BY <1>2, <1>4, <2>1, <2>2, <2>3
<1>7. CASE \/ \E e \in Entities, o \in Owners : SetOwner(e, o)
           \/ \E e \in Entities, in \in BOOLEAN : SetEntityVisibilityGroup(e, in)
           \/ SetMember
  <2>1. UNCHANGED <<rev, flushMask, pass, sess, known, tracker, stream, net, client, astray, despawned,
                    born, live, spawned>>
    BY <1>7 DEF SetOwner, SetEntityVisibilityGroup, SetMember, sendVars, histVars
  <2>2. PassShared
    BY <1>1, <2>1, SharedWhole
  <2> QED
    BY <1>1, <1>2, <1>4, <2>1, <2>2
<1> QED
  BY <1>3, <1>5, <1>6, <1>7 DEF GameAction

\* Steps of the server that tell this session nothing: also a pass while it is
\* not among the listener's sessions.
LEMMA ServerKeepsKnown ==
    ASSUME OwnerInv, RevisionInv, KnownInv, RevisionInv',
           AddSession \/ DrainMessages \/ BroadcastToOthers \/ Acknowledged \/ Lost \/ UNCHANGED vars
    PROVE  KnownInv'
<1>1. /\ UNCHANGED <<rev, flushMask, known, stream, net, client, astray, despawned, born, live, spawned>>
      /\ pass' = pass \/ pass' = NoPass
      /\ sess' = sess \/ sess' = "live"
      /\ tracker' = tracker \/ DrainMessages
  BY DEF AddSession, DrainMessages, BroadcastToOthers, Acknowledged, Lost, Enqueue, EndPass, vars,
         gameVars, sendVars, histVars
<1>2. rev \in [Entities -> Nat] /\ OrderOK /\ TrackerOK(tracker, Reach, {}, Dead) /\ VerdictsOK
      /\ astray \subseteq Dead /\ RemovalsOK
  BY OnTheWay DEF KnownInv, OwnerInv, AstrayOK
<1>3. TrackerOK(tracker', Reach, {}, Dead)
  BY <1>1, <1>2, DrainMessagesTracker
<1>4. FlushOrderOK' /\ AstrayOK'
  <2>1. PassShared
    BY <1>1, <1>2, SharedWhole
  <2> QED
    BY <1>1, <1>2, <2>1, FlushOrderStays DEF Dead
<1>5. \A e \in Entities : rev'[e] >= rev[e]
  BY <1>1, <1>2
<1>6. \A i \in 1 .. Len(despawned') : despawned'[i].rev >= rev'[despawned'[i].id]
  BY <1>1, <1>2 DEF OrderOK
<1> QED
  BY <1>1, <1>3, <1>4, <1>5, <1>6, QuietKnown

\* What is flushed is low, named and, without a filter, known to the session.
LEMMA FlushKeepsKnown ==
    ASSUME OwnerInv, RevisionInv, KnownInv, RevisionInv', FlushAll
    PROVE  KnownInv'
<1> DEFINE flushed == {e \in live \ spawned : fdirty[e] # {}}
<1>1. /\ UNCHANGED <<live, born, rev, sess, known, tracker, stream, net, client, astray>>
      /\ spawned' = {} /\ despawned' = <<>>
      /\ DOMAIN pass'.spawns = spawned /\ DOMAIN pass'.deltas = flushed
      /\ pass'.removals = despawned /\ pass'.read = 0 /\ DOMAIN pass'.removed = {}
      /\ \A e \in spawned : pass'.spawns[e] = FullUpdate(e)
      /\ pass'.filter = shouldFilterBroadcast
      /\ flushMask' = [e \in Entities |-> IF e \in live \ spawned THEN fdirty[e] ELSE flushMask[e]]
  BY DEF FlushAll, Flush, sendVars, histVars
<1>2. rev \in [Entities -> Nat] /\ OrderOK /\ TrackerOK(tracker, Reach, {}, Dead) /\ ConnectingOK
      /\ live \subseteq Entities /\ despawned \in Seq(Removal) /\ astray \subseteq Dead
  BY OnTheWay DEF KnownInv, OwnerInv, BasicOK, AstrayOK
<1>3. FlushOrderOK'
  <2>1. ASSUME NEW e \in spawned
        PROVE  /\ pass'.spawns[e].kind = "full"
               /\ e \notin astray' => Low(stream, client, e, pass'.spawns[e].rev)
    <3>1. FullUpdate(e).kind = "full" /\ FullUpdate(e).rev = rev[e]
      BY DEF FullUpdate, Frame
    <3> QED
      BY <1>1, <1>2, <3>1 DEF OrderOK
  <2>2. \A e \in flushed : flushMask'[e] # {}
    BY <1>1, <1>2
  <2>3. ASSUME NEW e \in flushed \cap live, ~pass'.filter PROVE e \in known \/ Fresh(stream, e)
    <3>1. sess = "live" => known = live
      BY <1>1, <2>3 DEF shouldFilterBroadcast
    <3> QED
      BY <1>2, <3>1 DEF ConnectingOK
  <2>4. \A i \in 1 .. Len(despawned) : LET r == despawned[i] IN
           r.rev >= rev[r.id] /\ r.id \notin spawned' \ astray'
    BY <1>1, <1>2 DEF OrderOK
  <2> HIDE DEF flushed
  <2> QED
    BY <1>1, <2>1, <2>2, <2>3, <2>4 DEF FlushOrderOK
<1>4. AstrayOK'
  <2>1. Len(despawned) \in Nat /\ 0 <= Len(despawned)
    BY <1>2
  <2> QED
    BY <1>1, <1>2, <2>1 DEF AstrayOK, Dead
<1>5. \A e \in Entities : rev'[e] >= rev[e]
  BY <1>1, <1>2
<1>6. \A i \in 1 .. Len(despawned') : despawned'[i].rev >= rev'[despawned'[i].id]
  BY <1>1
<1>7. (live' \cup spawned') \cap born \subseteq live \cup spawned
  BY <1>1
<1> QED
  BY <1>1, <1>2, <1>3, <1>4, <1>5, <1>6, <1>7, QuietKnown

\* A removal that is turned into a frame; after the last one, nothing is owed
\* any more for what is removed.
LEMMA SerializeKeepsKnown ==
    ASSUME OwnerInv, RevisionInv, KnownInv, RevisionInv', SerializeRemoval
    PROVE  KnownInv'
<1> DEFINE r == pass.removals[pass.read + 1]
<1>1. /\ UNCHANGED <<live, born, rev, sess, known, stream, net, client, astray, spawned, despawned,
                     flushMask>>
      /\ pass # NoPass /\ pass' # NoPass
      /\ pass'.filter = pass.filter /\ pass'.spawns = pass.spawns
      /\ pass'.deltas = pass.deltas /\ pass'.removals = pass.removals
      /\ pass'.read = pass.read + 1 /\ pass.read + 1 \in 1 .. Len(pass.removals)
      /\ DOMAIN pass'.removed = DOMAIN pass.removed \cup {r.id}
      /\ \A x \in DOMAIN pass'.removed :
            pass'.removed[x] = IF x = r.id THEN r.rev ELSE pass.removed[x]
      /\ tracker' = tracker \/ tracker' = clearEntities(tracker, RemovalIDs)
  BY SerializeKeepsPass DEF OwnerInv, gameVars
<1>2. /\ rev \in [Entities -> Nat] /\ OrderOK /\ FlushOrderOK /\ AstrayOK
      /\ TrackerOK(tracker, Reach, {}, Dead) /\ pass.read \in Nat
  BY <1>1, OnTheWay DEF KnownInv, OwnerInv, RemovalsOK
<1>3. r.rev >= rev[r.id] /\ r.id \notin spawned \ astray
  BY <1>1, <1>2 DEF FlushOrderOK
<1>4. FlushOrderOK'
  <2>1. \A e \in DOMAIN pass'.removed :
           pass'.removed[e] >= rev[e] /\ e \notin spawned \ astray
    BY <1>1, <1>2, <1>3 DEF FlushOrderOK
  <2> HIDE DEF r
  <2> QED
    BY <1>1, <1>2, <2>1 DEF FlushOrderOK
<1>5. AstrayOK'
  <2>1. ASSUME NEW e \in Entities \ astray
        PROVE  e \in DOMAIN pass'.removed <=>
                  \E i \in 1 .. pass.read + 1 : pass.removals[i].id = e
    <3>1. e \in DOMAIN pass.removed <=> \E i \in 1 .. pass.read : pass.removals[i].id = e
      BY <1>1, <1>2 DEF AstrayOK
    <3>2. 1 .. pass.read + 1 = (1 .. pass.read) \cup {pass.read + 1}
      BY <1>2
    <3> QED
      BY <1>1, <3>1, <3>2
  <2>2. pass.read + 1 <= Len(pass.removals)
    BY <1>1
  <2> HIDE DEF r
  <2> QED
    BY <1>1, <1>2, <2>1, <2>2 DEF AstrayOK, Dead
<1> HIDE DEF r
<1>6. TrackerOK(tracker', Reach, {}, Dead)
  <2>1. TrackerOK(clearEntities(tracker, RemovalIDs), Reach \ RemovalIDs, {}, Dead)
    BY <1>2, ClearEntitiesKeeps
  <2>2. TrackerOK(clearEntities(tracker, RemovalIDs), Reach, {}, Dead)
    BY <2>1, ChangesGrow
  <2> QED
    BY <1>1, <1>2, <2>2
<1>7. /\ \A e \in Entities : rev'[e] >= rev[e]
      /\ \A i \in 1 .. Len(despawned') : despawned'[i].rev >= rev'[despawned'[i].id]
  BY <1>1, <1>2 DEF OrderOK
<1> QED
  BY <1>1, <1>4, <1>5, <1>6, <1>7, QuietKnown

\* What the client reads.
LEMMA ReadKeepsKnown ==
    ASSUME OwnerInv, RevisionInv, KnownInv, RevisionInv', StreamDeliver
    PROVE  KnownInv'
<1>1. /\ UNCHANGED <<live, born, rev, sess, known, tracker, net, astray, flushMask, pass, spawned, despawned>>
      /\ stream # <<>> /\ client' = Apply(client, Head(stream)) /\ stream' = Tail(stream)
  BY DEF StreamDeliver, gameVars, histVars
<1>2. /\ rev \in [Entities -> Nat] /\ stream \in Seq(FrameSet) /\ FramesTyped(stream) /\ ClientShape(client)
      /\ \A i \in 1 .. Len(stream) : stream[i].kind # "removed" => stream[i].rev <= rev[stream[i].id]
      /\ pass # NoPass => \A e \in DOMAIN pass.spawns : pass.spawns[e].rev \in Nat
  BY OnTheWay
<1>3. \A e : /\ Shown(stream, client, e) => Shown(stream', client', e)
             /\ Gone(stream, net, client, e) => Gone(stream', net, client', e)
             /\ \A r \in Nat : Low(stream, client, e, r) => Low(stream', client', e, r)
             /\ Fresh(stream, e) => Fresh(stream', e)
  BY <1>1, <1>2, ReadFrame
<1>4. ShownOK'
  BY <1>1, <1>3 DEF KnownInv, ShownOK
<1>5. /\ Head(stream) = stream[1] /\ 1 \in 1 .. Len(stream)
      /\ \A i \in 1 .. Len(stream') : stream'[i] = stream[i + 1] /\ i + 1 \in 1 .. Len(stream)
  BY <1>1, <1>2
<1>6. /\ stream[1].rev \in Nat /\ stream[1].kind \in FrameKinds
      /\ stream[1].kind # "removed" => stream[1].rev <= rev[stream[1].id]
  BY <1>2, <1>5 DEF FramesTyped
<1>7. /\ DOMAIN client'.last \subseteq DOMAIN client.last \cup {stream[1].id}
      /\ \A e : e \in DOMAIN client'.ents =>
           \/ e \in DOMAIN client.ents /\ client'.last[e] = client.last[e]
           \/ /\ e = stream[1].id /\ stream[1].kind # "removed" /\ client'.last[e] = stream[1].rev
  BY <1>1, <1>2, <1>5, <1>6, ApplyOne
<1>8. OrderOK'
  <2>1. \A e \in DOMAIN client'.ents : client'.last[e] <= rev[e]
    BY <1>6, <1>7 DEF KnownInv, OrderOK
  <2>2. \A e \in live \cup (spawned \ astray) : rev[e] \in Nat
    BY <1>2 DEF OwnerInv, BasicOK
  <2> QED
    BY <1>1, <1>3, <2>1, <2>2 DEF KnownInv, OrderOK
<1>9. NamesOK'
  BY <1>1, <1>5, <1>7 DEF KnownInv, NamesOK
<1>10. ConnectingOK'
  BY <1>1, <1>3 DEF KnownInv, ConnectingOK
<1>11. FlushOrderOK' /\ AstrayOK'
  BY <1>1, <1>2, <1>3 DEF KnownInv, FlushOrderOK, AstrayOK, Dead
<1>12. TrackerOK(tracker', Reach', {}, Dead')
  <2>1. Reach \subseteq Reach' /\ Dead' = Dead
    BY <1>1, <1>3 DEF Reach, Dead
  <2> QED
    BY <1>1, <2>1, ChangesGrow DEF KnownInv
<1> QED
  BY <1>4, <1>8, <1>9, <1>10, <1>11, <1>12 DEF KnownInv

\* A datagram never shows an entity and never takes one away.
LEMMA ReceiveKeepsKnown ==
    ASSUME OwnerInv, RevisionInv, KnownInv, RevisionInv', DatagramDeliver
    PROVE  KnownInv'
<1>1. PICK d \in net :
        /\ UNCHANGED <<live, born, rev, sess, known, tracker, stream, astray, flushMask, pass, spawned,
                       despawned>>
        /\ client' = FoldLeft(Apply, client, d.frames) /\ net' = net \ {d}
  BY DEF DatagramDeliver, gameVars
<1>2. /\ rev \in [Entities -> Nat] /\ ClientShape(client) /\ d.frames \in Seq(CompactNow)
      /\ pass # NoPass => \A e \in DOMAIN pass.spawns : pass.spawns[e].rev \in Nat
  BY OnTheWay
<1>3. \A fr \in CompactNow : fr.kind = "compact" /\ fr.rev \in Nat /\ fr.rev <= rev[fr.id]
  BY DEF CompactNow, FrameSet
<1>4. \A e : /\ Shown(stream, client, e) => Shown(stream, client', e)
             /\ Gone(stream, net, client, e) => Gone(stream, net', client', e)
             /\ \A r \in Nat : Low(stream, client, e, r) => Low(stream, client', e, r)
  BY <1>1, <1>2, <1>3, ReadDatagram
<1>5. \A e : /\ DOMAIN client'.ents = DOMAIN client.ents /\ DOMAIN client'.last = DOMAIN client.last
             /\ e \in DOMAIN client.ents =>
                  \/ client'.last[e] = client.last[e]
                  \/ \E j \in 1 .. Len(d.frames) : d.frames[j].id = e /\ client'.last[e] = d.frames[j].rev
  BY <1>1, <1>2, <1>3, ApplyCompact
<1>6. \A j \in 1 .. Len(d.frames) : d.frames[j].rev <= rev[d.frames[j].id]
  BY <1>2, <1>3
<1>7. OrderOK'
  <2>1. \A e \in DOMAIN client'.ents : client'.last[e] <= rev[e]
    BY <1>5, <1>6 DEF KnownInv, OrderOK
  <2>2. \A e \in live \cup (spawned \ astray) : rev[e] \in Nat
    BY <1>2 DEF OwnerInv, BasicOK
  <2> QED
    BY <1>1, <1>4, <2>1, <2>2 DEF KnownInv, OrderOK
<1>8. ShownOK' /\ NamesOK' /\ ConnectingOK'
  BY <1>1, <1>4, <1>5 DEF KnownInv, ShownOK, NamesOK, ConnectingOK
<1>9. FlushOrderOK' /\ AstrayOK'
  BY <1>1, <1>2, <1>4 DEF KnownInv, FlushOrderOK, AstrayOK, Dead
<1>10. TrackerOK(tracker', Reach', {}, Dead')
  <2>1. Reach' = Reach /\ Dead' = Dead
    BY <1>1 DEF Reach, Dead
  <2> QED
    BY <1>1, <2>1 DEF KnownInv
<1> QED
  BY <1>7, <1>8, <1>9, <1>10 DEF KnownInv

\* The frames of a list, wherever they are in it.
LEMMA JoinedSet ==
    ASSUME NEW X, NEW s \in Seq(X), NEW x \in Seq(X)
    PROVE  ToSet(s \o x) = ToSet(s) \cup ToSet(x) /\ s \o x \in Seq(X)
<1>1. /\ s \o x \in Seq(X)
      /\ \A i \in 1 .. Len(s) : (s \o x)[i] = s[i] /\ i \in 1 .. Len(s \o x)
      /\ \A i \in 1 .. Len(x) : /\ (s \o x)[Len(s) + i] = x[i]
                                /\ Len(s) + i \in 1 .. Len(s \o x)
      /\ \A i \in 1 .. Len(s \o x) : i \in 1 .. Len(s) \/ i - Len(s) \in 1 .. Len(x)
      /\ \A i \in 1 .. Len(s \o x) : i = Len(s) + (i - Len(s))
  BY Joined
<1>2. /\ DOMAIN s = 1 .. Len(s) /\ DOMAIN x = 1 .. Len(x) /\ DOMAIN (s \o x) = 1 .. Len(s \o x)
  BY <1>1
<1> DEFINE t == s \o x
<1> HIDE DEF t
<1>3. ASSUME NEW i \in 1 .. Len(t) PROVE t[i] \in ToSet(s) \cup ToSet(x)
  <2>1. CASE i \in 1 .. Len(s)
    BY <1>1, <1>2, <2>1 DEF ToSet, t
  <2>2. CASE i - Len(s) \in 1 .. Len(x)
    <3>1. t[i] = x[i - Len(s)]
      BY <1>1, <2>2 DEF t
    <3> QED
      BY <1>2, <2>2, <3>1 DEF ToSet
  <2> QED
    BY <1>1, <2>1, <2>2 DEF t
<1>4. ToSet(t) \subseteq ToSet(s) \cup ToSet(x)
  BY <1>2, <1>3 DEF ToSet, t
<1>5. \A i \in 1 .. Len(s) : s[i] \in ToSet(t)
  BY <1>1, <1>2 DEF ToSet, t
<1>6. \A i \in 1 .. Len(x) : x[i] \in ToSet(t)
  <2>1. ASSUME NEW i \in 1 .. Len(x) PROVE x[i] \in ToSet(t)
    <3>1. t[Len(s) + i] = x[i] /\ Len(s) + i \in DOMAIN t
      BY <1>1, <1>2 DEF t
    <3> QED
      BY <3>1 DEF ToSet
  <2> QED
    BY <2>1
<1>7. ToSet(s) \cup ToSet(x) \subseteq ToSet(t)
  BY <1>2, <1>5, <1>6 DEF ToSet
<1> QED
  BY <1>1, <1>4, <1>7 DEF t

\* A list and its frames: nothing of e is removed, e is never stated in full.
LEMMA SetFacts ==
    ASSUME NEW X, NEW s \in Seq(X)
    PROVE  /\ ToSet(s) \subseteq X
           /\ \A fr : fr \in ToSet(s) <=> \E i \in 1 .. Len(s) : s[i] = fr
           /\ \A e : Fresh(s, e) <=> \A fr \in ToSet(s) : ~(fr.id = e /\ fr.kind = "removed")
           /\ \A e : NeverFull(s, e) <=> \A fr \in ToSet(s) : ~(fr.id = e /\ fr.kind = "full")
<1>1. DOMAIN s = 1 .. Len(s) /\ \A i \in 1 .. Len(s) : s[i] \in X
  OBVIOUS
<1>2. \A fr : fr \in ToSet(s) <=> \E i \in 1 .. Len(s) : s[i] = fr
  BY <1>1 DEF ToSet
<1> QED
  BY <1>1, <1>2 DEF Fresh, NeverFull, RemovedAt, FullAt

\* The list of the frames F[e] has exactly those.
LEMMA ListHas ==
    ASSUME NEW S, S \subseteq Entities, NEW F, NEW s,
           s = [i \in 1 .. Len(SetToSeq(S)) |-> F[SetToSeq(S)[i]]]
    PROVE  s \in Seq(ToSet(s)) /\ \A fr : fr \in ToSet(s) <=> \E e \in S : fr = F[e]
<1> DEFINE ids == SetToSeq(S)
<1>1. ids \in Seq(S) /\ \A e \in S : \E i \in 1 .. Len(ids) : ids[i] = e
  BY FramesOver
<1> HIDE DEF ids
<1>2. s = [i \in 1 .. Len(ids) |-> F[ids[i]]]
  BY DEF ids
<1>3. /\ DOMAIN s = 1 .. Len(ids) /\ Len(ids) \in Nat
      /\ \A i \in 1 .. Len(ids) : s[i] = F[ids[i]] /\ ids[i] \in S
  BY <1>1, <1>2
<1>4. s \in Seq(ToSet(s))
  <2>1. \A i \in 1 .. Len(ids) : s[i] \in ToSet(s)
    BY <1>3 DEF ToSet
  <2>2. s \in [1 .. Len(ids) -> ToSet(s)]
    BY <1>2, <1>3, <2>1
  <2> QED
    BY <1>3, <2>2
<1>5. ASSUME NEW fr \in ToSet(s) PROVE \E e \in S : fr = F[e]
  <2>1. PICK i \in DOMAIN s : fr = s[i]
    BY DEF ToSet
  <2>2. fr = F[ids[i]] /\ ids[i] \in S
    BY <1>3, <2>1
  <2> QED
    BY <2>2
<1>6. ASSUME NEW e \in S PROVE F[e] \in ToSet(s)
  <2>1. PICK i \in 1 .. Len(ids) : ids[i] = e
    BY <1>1
  <2> QED
    BY <1>3, <2>1 DEF ToSet
<1> QED
  BY <1>4, <1>5, <1>6

\* Only changes of live entities are sent, and none of those is a whole state.
LEMMA DeltasOnly ==
    ASSUME NEW N, NEW fr \in FramesOf(Sent(Changes(N, {}, Dead)))
    PROVE  fr.kind \in {"delta", "compact"} /\ fr.id \in N \cap live
<1>1. PICK ch \in Changes(N, {}, Dead) : HasFrame(ch) /\ fr = eventualFrameForChange(ch)
  BY DEF FramesOf, Sent
<1>2. ch.id \in live \cap N /\ ~ch.full
  BY <1>1 DEF HasFrame, Changes, Dead
<1>3. fr = DeltaOf(IF Fits(ch) THEN "compact" ELSE "delta", ch.id, SentMask(ch))
  BY <1>1, <1>2 DEF eventualFrameForChange
<1> QED
  BY <1>2, <1>3 DEF DeltaOf, Frame

\* What is sent of the eventual state are changes of live entities.
LEMMA SentFacts ==
    ASSUME NEW N, NEW sent, SendOK(sent, N, {}, Dead)
    PROVE  /\ sent.frames \in Seq(FramesOf(Sent(Changes(N, {}, Dead))))
           /\ \A fr \in ToSet(sent.frames) : fr.kind \in {"delta", "compact"} /\ fr.id \in N \cap live
           /\ \A d \in sent.packets : \A j \in 1 .. Len(d.frames) : d.frames[j].id \in N \cap live
<1> DEFINE B == FramesOf(Sent(Changes(N, {}, Dead)))
           C == FramesOf(Packable(Changes(N, {}, Dead)))
<1>1. sent.frames \in Seq(B) /\ \A d \in sent.packets : d.frames \in Seq(C)
  BY DEF SendOK
<1>2. C \subseteq B
  BY DEF FramesOf, Packable, Sent
<1>3. \A fr \in B : fr.kind \in {"delta", "compact"} /\ fr.id \in N \cap live
  BY DeltasOnly
<1> HIDE DEF B, C
<1>4. \A fr \in ToSet(sent.frames) : fr \in B
  BY <1>1 DEF ToSet
<1>5. \A d \in sent.packets : \A j \in 1 .. Len(d.frames) : d.frames[j] \in B
  BY <1>1, <1>2
<1> QED
  BY <1>1, <1>3, <1>4, <1>5 DEF B

\* The frames x make the stream tell of e that the session knows it now: it did
\* and is told nothing else, or it gets the full state.
Told(x, e) ==
    Fresh(x, e) /\ \/ e \in known
                   \/ \E i \in 1 .. Len(x) : FullAt(x, i, e) /\ Low(stream, client, e, x[i].rev)

\* The session does not know e from now on: it did not and is told nothing else,
\* also not by the datagrams of P, or the last word of the stream t removes e.
Untold(t, x, P, e) ==
    \/ \E p \in 1 .. Len(t) : /\ RemovedAt(t, p, e) /\ t[p].rev >= rev[e]
                              /\ \A j \in p .. Len(t) : ~FullAt(t, j, e)
    \/ /\ e \notin known \cup astray /\ NeverFull(x, e)
       /\ \/ Fresh(stream, e)
          \/ \A d \in P : \A j \in 1 .. Len(d.frames) : d.frames[j].id # e

\* A removal at a revision that nothing on its way exceeds.
LEMMA RemovedLast ==
    ASSUME NEW H, NEW rv \in [Entities -> Nat], NEW Q, NEW s \in Seq(Good(H, rv, Q)),
           NEW n, \A d \in n : d.frames \in Seq(Compact(H, rv, Q)),
           NEW c, ClientShape(c), NEW e \in Entities, e \in DOMAIN c.ents => c.last[e] <= rv[e],
           NEW p \in 1 .. Len(s), RemovedAt(s, p, e), s[p].rev >= rv[e],
           \A j \in p .. Len(s) : ~FullAt(s, j, e)
    PROVE  Gone(s, n, c, e)
<1>1. \A i \in 1 .. Len(s) : /\ s[i].rev \in Nat
                             /\ s[i].kind # "removed" => s[i].rev <= rv[s[i].id]
  <2>1. \A i \in 1 .. Len(s) : s[i] \in Good(H, rv, Q)
    OBVIOUS
  <2> QED
    BY <2>1 DEF Good, FrameSet
<1>2. rv[e] \in Nat /\ s[p].rev \in Nat /\ Len(s) \in Nat
  BY <1>1
<1>3. ASSUME NEW m \in Nat, m <= rv[e] PROVE m <= s[p].rev
  BY <1>2, <1>3
<1>4. ASSUME NEW j \in 1 .. p, s[j].id = e, s[j].kind # "removed"
      PROVE  s[j].rev <= s[p].rev
  <2>1. j \in 1 .. Len(s)
    BY <1>2
  <2>2. s[j].rev \in Nat /\ s[j].rev <= rv[e]
    BY <1>1, <1>4, <2>1 DEF FramesTyped
  <2> QED
    BY <1>3, <2>2
<1>5. ASSUME NEW d \in n, NEW j \in 1 .. Len(d.frames), d.frames[j].id = e
      PROVE  d.frames[j].rev <= s[p].rev
  <2>1. d.frames[j] \in Compact(H, rv, Q)
    BY <1>1
  <2>2. d.frames[j].rev \in Nat /\ d.frames[j].rev <= rv[e]
    BY <1>5, <2>1 DEF Compact, Good, FrameSet
  <2> QED
    BY <1>3, <2>2
<1>6. ASSUME e \in DOMAIN c.ents PROVE c.last[e] <= s[p].rev
  <2>1. c.last[e] \in Nat /\ c.last[e] <= rv[e]
    BY <1>1, <1>6 DEF ClientShape
  <2> QED
    BY <1>3, <2>1
<1> QED
  BY <1>4, <1>5, <1>6 DEF Gone

\* What is put on the way keeps both sides in agreement when it tells the session
\* of what it knows from then on, and removes the rest.
LEMMA SendKeepsKnown ==
    ASSUME OwnerInv, RevisionInv, KnownInv, RevisionInv', ConnectingOK', FlushOrderOK', AstrayOK',
           UNCHANGED <<live, born, rev, client, spawned, despawned>>, astray \subseteq astray',
           NEW A, NEW x \in Seq(A), stream' = stream \o x, NEW P, net' = net \cup P,
           known' \subseteq Entities,
           \A fr \in ToSet(x) : fr.id \in born,
           \A fr \in ToSet(x) :
              fr.kind = "removed" /\ fr.id \in live \cup (spawned \ astray') => fr.rev <= rev[fr.id],
           \A e \in known' \ astray' : Told(x, e),
           \A e \in Entities \ (known' \cup astray') : Untold(stream', x, P, e),
           NEW N, TrackerOK(tracker', N, {}, Dead), N \subseteq born,
           \A e \in N \cap live : Fresh(x, e) /\ (e \in known' \/ Fresh(stream, e))
    PROVE  KnownInv'
<1>1. rev \in [Entities -> Nat] /\ stream \in Seq(FrameSet)
  BY OnTheWay
<1> DEFINE X == FrameSet \cup A
<1>2. stream \in Seq(X) /\ x \in Seq(X)
  BY <1>1
<1> HIDE DEF X
<1>3. ToSet(stream') = ToSet(stream) \cup ToSet(x) /\ stream' \in Seq(X)
  BY <1>2, JoinedSet
<1>4. OrderOK'
  <2>1. ASSUME NEW e \in live \cup (spawned \ astray') PROVE Low(stream', client, e, rev[e])
    <3>1. Low(stream, client, e, rev[e])
      BY DEF KnownInv, OrderOK
    <3>2. ASSUME NEW i \in 1 .. Len(x), RemovedAt(x, i, e) PROVE x[i].rev <= rev[e]
      <4>1. x[i] \in ToSet(x)
        BY <1>2, SetFacts
      <4> QED
        BY <3>2, <4>1 DEF RemovedAt
    <3> QED
      BY <1>2, <3>1, <3>2, AppendLow
  <2> QED
    BY <2>1 DEF KnownInv, OrderOK
<1>5. NamesOK'
  <2>1. \A i \in 1 .. Len(stream) : stream[i].id \in born
    BY DEF KnownInv, NamesOK
  <2>2. \A fr \in ToSet(stream) : fr.id \in born
    BY <1>2, <2>1, SetFacts
  <2>3. \A i \in 1 .. Len(stream') : stream'[i] \in ToSet(stream')
    BY <1>3, SetFacts
  <2> QED
    BY <1>3, <2>2, <2>3 DEF KnownInv, NamesOK
<1>6. ASSUME NEW e \in known' \ astray' PROVE Shown(stream', client, e)
  <2>1. Told(x, e)
    OBVIOUS
  <2>2. CASE e \in known
    <3>1. Shown(stream, client, e) /\ Fresh(x, e)
      BY <2>1, <2>2 DEF KnownInv, ShownOK, Told
    <3> QED
      BY <1>2, <3>1, AppendKeeps
  <2>3. CASE e \notin known
    <3>1. PICK i \in 1 .. Len(x) : FullAt(x, i, e) /\ Low(stream, client, e, x[i].rev)
      BY <2>1, <2>3 DEF Told
    <3>2. Fresh(x, e)
      BY <2>1 DEF Told
    <3> QED
      BY <1>2, <3>1, <3>2, AppendFull
  <2> QED
    BY <2>2, <2>3
<1>7. ASSUME NEW e \in Entities \ (known' \cup astray') PROVE Gone(stream', net', client, e)
  <2>1. Untold(stream', x, P, e)
    OBVIOUS
  <2>2. CASE \E p \in 1 .. Len(stream') :
               /\ RemovedAt(stream', p, e) /\ stream'[p].rev >= rev[e]
               /\ \A j \in p .. Len(stream') : ~FullAt(stream', j, e)
    <3>1. PICK H : LanesOK(H)' /\ rev' = rev
      BY DEF RevisionInv
    <3> DEFINE Q == scenario'.private
    <3>2. /\ stream' \in Seq(Good(H, rev, Q)) /\ \A d \in net' : d.frames \in Seq(Compact(H, rev, Q))
      BY <3>1 DEF LanesOK, Good, Compact
    <3>3. ClientShape(client) /\ (e \in DOMAIN client.ents => client.last[e] <= rev[e])
      BY OnTheWay DEF KnownInv, OrderOK
    <3> HIDE DEF Q
    <3> QED
      BY <1>1, <2>2, <3>2, <3>3, RemovedLast
  <2>3. CASE /\ e \notin known \cup astray /\ NeverFull(x, e)
             /\ \/ Fresh(stream, e)
                \/ \A d \in P : \A j \in 1 .. Len(d.frames) : d.frames[j].id # e
    <3>1. Gone(stream, net, client, e)
      BY <2>3 DEF KnownInv, ShownOK
    <3>2. \/ Fresh(stream, e)
          \/ \A d \in net' \ net : \A j \in 1 .. Len(d.frames) : d.frames[j].id # e
      BY <2>3
    <3> QED
      BY <1>2, <2>3, <3>1, <3>2, AppendGone
  <2> QED
    BY <2>1, <2>2, <2>3 DEF Untold
<1>8. ShownOK'
  BY <1>6, <1>7 DEF ShownOK
<1>9. TrackerOK(tracker', Reach', {}, Dead')
  <2>1. \A e \in N \cap live : e \in known' \/ Fresh(stream', e)
    BY <1>2, AppendKeeps
  <2>2. N \subseteq Reach' /\ Dead' = Dead
    BY <2>1 DEF Reach, Dead
  <2> QED
    BY <2>2, ChangesGrow
<1> QED
  BY <1>4, <1>5, <1>8, <1>9 DEF KnownInv

\* Full states are of the entity and at its revision.
LEMMA FullKind ==
    ASSUME NEW e
    PROVE  /\ FullUpdate(e).kind = "full" /\ FullUpdate(e).id = e /\ FullUpdate(e).rev = rev[e]
           /\ PublicFullUpdate(e).kind = "full" /\ PublicFullUpdate(e).id = e
           /\ PublicFullUpdate(e).rev = rev[e]
           /\ fullUpdateForSession(e).kind = "full" /\ fullUpdateForSession(e).id = e
           /\ fullUpdateForSession(e).rev = rev[e]
<1>1. /\ FullUpdate(e).kind = "full" /\ FullUpdate(e).id = e /\ FullUpdate(e).rev = rev[e]
      /\ PublicFullUpdate(e).kind = "full" /\ PublicFullUpdate(e).id = e
      /\ PublicFullUpdate(e).rev = rev[e]
  BY DEF FullUpdate, PublicFullUpdate, Frame
<1> QED
  BY <1>1 DEF fullUpdateForSession

\* The snapshot makes the session know what it selects, each entity as it is now.
LEMMA SnapshotKeepsKnown ==
    ASSUME OwnerInv, RevisionInv, KnownInv, RevisionInv', SendSnapshot
    PROVE  KnownInv'
<1> DEFINE S == {e \in live : Allows(e)}
           F == [e \in S |-> fullUpdateForSession(e)]
           x == Frames(S, fullUpdateForSession)
           A == {F[e] : e \in S}
<1>1. /\ UNCHANGED <<live, born, rev, client, spawned, despawned, pass, flushMask, tracker, net, astray>>
      /\ sess = "new" /\ sess' = "snapshot" /\ known' = S /\ stream' = stream \o x
  BY DEF SendSnapshot, gameVars
<1>2. /\ rev \in [Entities -> Nat] /\ stream \in Seq(FrameSet)
  BY OnTheWay
<1>3. S \subseteq live /\ live \subseteq born /\ born \subseteq Entities
  BY DEF OwnerInv, BasicOK
<1>4. ToSet(x) = A /\ x \in Seq(A)
  <2>1. S \subseteq Entities
    BY <1>3
  <2> HIDE DEF S
  <2>2. x = [i \in 1 .. Len(SetToSeq(S)) |-> F[SetToSeq(S)[i]]]
    BY <2>1, FramesOver DEF Frames
  <2> HIDE DEF F, x
  <2>3. x \in Seq(ToSet(x)) /\ \A fr : fr \in ToSet(x) <=> \E e \in S : fr = F[e]
    BY <2>1, <2>2, ListHas
  <2>4. ToSet(x) = A
    BY <2>3
  <2> HIDE DEF A
  <2> QED
    BY <2>3, <2>4
<1>5. \A e \in S : F[e].kind = "full" /\ F[e].id = e /\ F[e].rev = rev[e]
  BY FullKind
<1>6. \A fr \in A : fr.kind = "full" /\ fr.id \in S /\ fr.rev = rev[fr.id]
  BY <1>5
<1> HIDE DEF S, F, x
<1>7. /\ \A e : Fresh(x, e)
      /\ \A e : e \notin S => NeverFull(x, e)
  BY <1>4, <1>6, SetFacts
<1> DEFINE X == FrameSet \cup A
<1>8. stream \in Seq(X) /\ x \in Seq(X)
  BY <1>2, <1>4
<1> HIDE DEF X
<1>9. known = {} /\ \A e \in Entities : Fresh(stream, e)
  BY <1>1 DEF KnownInv, ConnectingOK
<1>10. \A e \in Entities : Fresh(stream', e)
  BY <1>1, <1>7, <1>8, <1>9, AppendKeeps
<1>11. ConnectingOK'
  BY <1>1, <1>10 DEF ConnectingOK
<1>12. FlushOrderOK'
  <2> SUFFICES ASSUME pass # NoPass PROVE FlushOrderOK'
    BY <1>1 DEF FlushOrderOK
  <2>1. \A e \in DOMAIN pass.spawns \ astray : Low(stream, client, e, pass.spawns[e].rev)
    BY DEF KnownInv, FlushOrderOK
  <2>2. \A e \in DOMAIN pass.spawns \ astray : Low(stream', client, e, pass.spawns[e].rev)
    <3> SUFFICES ASSUME NEW e \in DOMAIN pass.spawns \ astray
                 PROVE  Low(stream', client, e, pass.spawns[e].rev)
      OBVIOUS
    <3> DEFINE r == pass.spawns[e].rev
    <3>1. \A i \in 1 .. Len(x) : ~RemovedAt(x, i, e)
      BY <1>7 DEF Fresh
    <3>2. Low(stream, client, e, r)
      BY <2>1
    <3> HIDE DEF r
    <3>3. Low(stream \o x, client, e, r)
      BY <1>8, <3>1, <3>2, AppendLow
    <3> QED
      BY <1>1, <3>3 DEF r
  <2>3. DOMAIN pass.deltas \subseteq Entities
    BY DEF OwnerInv, BasicOK, PassOK
  <2> QED
    BY <1>1, <1>10, <2>2, <2>3 DEF KnownInv, FlushOrderOK
<1>13. ASSUME NEW e \in S PROVE Told(x, e)
  <2>1. F[e] \in A /\ F[e].kind = "full" /\ F[e].id = e /\ F[e].rev = rev[e]
    BY <1>5 DEF A
  <2>2. F[e] \in ToSet(x) /\ DOMAIN x = 1 .. Len(x)
    <3> HIDE DEF A
    <3> QED
      BY <1>4, <2>1
  <2>3. PICK i \in 1 .. Len(x) : x[i] = F[e]
    BY <2>2 DEF ToSet
  <2>4. Low(stream, client, e, rev[e])
    BY <1>3 DEF KnownInv, OrderOK
  <2> QED
    BY <1>7, <2>1, <2>4, <2>3 DEF Told, FullAt
<1>14. ASSUME NEW e \in Entities \ (S \cup astray) PROVE Untold(stream', x, {}, e)
  BY <1>7, <1>9 DEF Untold
<1>15. \A fr \in ToSet(x) : fr.id \in born /\ fr.kind # "removed"
  BY <1>3, <1>4, <1>6
<1>16. TrackerOK(tracker', Reach, {}, Dead) /\ Reach \subseteq born
  BY <1>1 DEF KnownInv, Reach
<1>17. \A e \in Reach \cap live : Fresh(x, e) /\ Fresh(stream, e)
  BY <1>3, <1>7, <1>9
<1>18. known' \subseteq Entities /\ net' = net \cup {}
  BY <1>1, <1>3
<1>19. /\ \A e \in known' \ astray' : Told(x, e)
       /\ \A e \in Entities \ (known' \cup astray') : Untold(stream', x, {}, e)
  BY <1>1, <1>13, <1>14
<1>20. AstrayOK'
  BY <1>1 DEF KnownInv, AstrayOK, Dead
<1> QED
  BY <1>1, <1>4, <1>11, <1>12, <1>15, <1>16, <1>17, <1>18, <1>19, <1>20, SendKeepsKnown

\* What a pass leaves: only what was sent of it matters from then on.
LEMMA PassOver ==
    ASSUME EndPass, sess = "live"
    PROVE  /\ UNCHANGED <<live, born, rev, client, spawned, despawned>>
           /\ ConnectingOK' /\ FlushOrderOK' /\ (astray' \subseteq Dead => AstrayOK')
  BY DEF EndPass, ConnectingOK, FlushOrderOK, AstrayOK, Dead

\* The frames of a blind pass: the full states of what was registered, then the
\* removals, each at its revision.
LEMMA BlindFramesAre ==
    ASSUME OwnerInv, RevisionInv, KnownInv, pass # NoPass
    PROVE  \E a, b :
              /\ BlindFrames = a \o b /\ a \in Seq(ToSet(a)) /\ b \in Seq(ToSet(b))
              /\ \A fr : fr \in ToSet(a) <=> \E e \in DOMAIN pass.spawns : fr = pass.spawns[e]
              /\ \A fr : fr \in ToSet(b) <=>
                    \E e \in DOMAIN pass.removed : fr = Removed(e, pass.removed[e])
<1> DEFINE T == DOMAIN pass.spawns
           gone == DOMAIN pass.removed
           F == [e \in T |-> pass.spawns[e]]
           D == [e \in gone |-> Removed(e, pass.removed[e])]
           x == Frames(T, LAMBDA e : pass.spawns[e])
           y == Removals(gone)
<1>1. T \subseteq Entities /\ gone \subseteq Entities
  BY DEF OwnerInv, BasicOK, PassOK, RemovalsOK
<1>2. x \in Seq(ToSet(x)) /\ \A fr : fr \in ToSet(x) <=> \E e \in T : fr = F[e]
  <2> HIDE DEF T
  <2>1. x = [i \in 1 .. Len(SetToSeq(T)) |-> F[SetToSeq(T)[i]]]
    BY <1>1, FramesOver DEF Frames
  <2> HIDE DEF F, x
  <2> QED
    BY <1>1, <2>1, ListHas
<1>3. y \in Seq(ToSet(y)) /\ \A fr : fr \in ToSet(y) <=> \E e \in gone : fr = D[e]
  <2> HIDE DEF gone
  <2>1. y = [i \in 1 .. Len(SetToSeq(gone)) |-> D[SetToSeq(gone)[i]]]
    BY <1>1, FramesOver DEF Removals, Frames
  <2> HIDE DEF D, y
  <2> QED
    BY <1>1, <2>1, ListHas
<1>4. BlindFrames = x \o y
  BY DEF BlindFrames
<1>5. /\ \A e \in T : F[e] = pass.spawns[e]
      /\ \A e \in gone : D[e] = Removed(e, pass.removed[e])
  OBVIOUS
<1> HIDE DEF x, y, F, D
<1>6. /\ x \in Seq(ToSet(x)) /\ \A fr : fr \in ToSet(x) <=> \E e \in T : fr = pass.spawns[e]
      /\ y \in Seq(ToSet(y))
      /\ \A fr : fr \in ToSet(y) <=> \E e \in gone : fr = Removed(e, pass.removed[e])
  BY <1>2, <1>3, <1>5
<1> QED
  BY <1>4, <1>6

\* What a pass tells: the whole states a of what the session gets to know, the
\* removals b of what it is to forget, and changes f of what it knows.
ToldLists(told, gone, a, b, f) ==
    /\ \E G : a \in Seq(G) /\ b \in Seq(G) /\ f \in Seq(G)
    /\ told \subseteq born /\ gone \subseteq born /\ known' \subseteq born
    /\ \A e \in Entities \ astray' : e \in known' <=> e \in (known \cup told) \ gone
    /\ stream' = stream \o ((a \o b) \o f)
    /\ \A fr \in ToSet(a) :
          /\ fr.kind = "full" /\ fr.id \in told
          /\ fr.id \notin gone \cup astray' => Low(stream, client, fr.id, fr.rev)
    /\ \A e \in told : \E fr \in ToSet(a) : fr.id = e
    /\ \A fr \in ToSet(b) :
          /\ fr.kind = "removed" /\ fr.id \in gone
          /\ fr.id \in live \cup (spawned \ astray') => fr.rev <= rev[fr.id]
    /\ \A e \in gone \ astray' : \E fr \in ToSet(b) : fr.id = e /\ fr.rev >= rev[e]
    /\ \A fr \in ToSet(f) : fr.kind # "removed" /\ fr.id \in born
                            /\ (fr.kind = "full" => fr.id \in known')

\* The changes it leaves to be sent, and those the datagrams of P carry.
ToldChanges(N, gone, P) ==
    /\ net' = net \cup P /\ TrackerOK(tracker', N, {}, Dead) /\ N \subseteq born
    /\ \A e \in N \cap live : e \notin gone /\ (e \in known' \/ Fresh(stream, e))
    /\ \A d \in P : \A j \in 1 .. Len(d.frames) : d.frames[j].id \in N \cap live

\* After such frames both sides agree again.
LEMMA TellKeepsKnown ==
    ASSUME OwnerInv, RevisionInv, KnownInv, RevisionInv', ConnectingOK', FlushOrderOK', AstrayOK',
           UNCHANGED <<live, born, rev, client, spawned, despawned>>, astray \subseteq astray',
           NEW told, NEW gone, NEW a, NEW b, NEW f, ToldLists(told, gone, a, b, f),
           NEW N, NEW P, ToldChanges(N, gone, P)
    PROVE  KnownInv'
<1>1. PICK G : a \in Seq(G) /\ b \in Seq(G) /\ f \in Seq(G)
  BY DEF ToldLists
<1>2. /\ told \subseteq born /\ gone \subseteq born /\ known' \subseteq born
      /\ \A e \in Entities \ astray' : e \in known' <=> e \in (known \cup told) \ gone
      /\ stream' = stream \o ((a \o b) \o f)
      /\ \A fr \in ToSet(a) :
            /\ fr.kind = "full" /\ fr.id \in told
            /\ fr.id \notin gone \cup astray' => Low(stream, client, fr.id, fr.rev)
      /\ \A e \in told : \E fr \in ToSet(a) : fr.id = e
  BY DEF ToldLists
<1>3. /\ \A fr \in ToSet(b) :
            /\ fr.kind = "removed" /\ fr.id \in gone
            /\ fr.id \in live \cup (spawned \ astray') => fr.rev <= rev[fr.id]
      /\ \A e \in gone \ astray' : \E fr \in ToSet(b) : fr.id = e /\ fr.rev >= rev[e]
      /\ \A fr \in ToSet(f) : fr.kind # "removed" /\ fr.id \in born
                              /\ (fr.kind = "full" => fr.id \in known')
  BY DEF ToldLists
<1>4. /\ net' = net \cup P /\ TrackerOK(tracker', N, {}, Dead) /\ N \subseteq born
      /\ \A e \in N \cap live : e \notin gone /\ (e \in known' \/ Fresh(stream, e))
      /\ \A d \in P : \A j \in 1 .. Len(d.frames) : d.frames[j].id \in N \cap live
  BY DEF ToldChanges
<1> DEFINE y == b \o f
           x == (a \o b) \o f
           s == stream \o a
           X == FrameSet \cup G
<1>5. rev \in [Entities -> Nat] /\ stream \in Seq(FrameSet)
  BY OnTheWay
<1>6. born \subseteq Entities /\ known \subseteq born
  BY DEF OwnerInv, BasicOK
<1>7. /\ ToSet(a \o b) = ToSet(a) \cup ToSet(b) /\ a \o b \in Seq(G)
      /\ ToSet(y) = ToSet(b) \cup ToSet(f) /\ y \in Seq(G)
  BY <1>1, JoinedSet
<1>8. ToSet(x) = (ToSet(a) \cup ToSet(b)) \cup ToSet(f) /\ x \in Seq(G)
  <2> DEFINE ab == a \o b
  <2>1. ToSet(ab) = ToSet(a) \cup ToSet(b) /\ ab \in Seq(G) /\ x = ab \o f
    BY <1>7
  <2> HIDE DEF ab, x
  <2> QED
    BY <1>1, <2>1, JoinedSet
<1>9. stream \in Seq(X) /\ a \in Seq(X) /\ b \in Seq(X) /\ f \in Seq(X)
  BY <1>1, <1>5
<1>10. x = a \o y
  BY <1>1, ConcatAssociative
<1>11. s \in Seq(X) /\ y \in Seq(X) /\ stream' = s \o y
  <2>1. y \in Seq(X)
    BY <1>9
  <2>2. stream \o (a \o y) = (stream \o a) \o y
    <3> HIDE DEF X, y
    <3>1. stream \in Seq(X) /\ a \in Seq(X)
      BY <1>9
    <3> QED
      BY <2>1, <3>1, ConcatAssociative
  <2>3. s \in Seq(X)
    BY <1>9
  <2>4. stream' = stream \o x
    BY <1>2
  <2> QED
    BY <1>10, <2>1, <2>2, <2>3, <2>4
<1>12. /\ \A e : Fresh(x, e) <=> \A fr \in ToSet(x) : ~(fr.id = e /\ fr.kind = "removed")
       /\ \A e : NeverFull(x, e) <=> \A fr \in ToSet(x) : ~(fr.id = e /\ fr.kind = "full")
       /\ \A fr : fr \in ToSet(x) <=> \E i \in 1 .. Len(x) : x[i] = fr
  <2> HIDE DEF x
  <2> QED
    BY <1>8, SetFacts
<1>13. /\ \A e : NeverFull(y, e) <=> \A fr \in ToSet(y) : ~(fr.id = e /\ fr.kind = "full")
       /\ \A fr : fr \in ToSet(y) <=> \E i \in 1 .. Len(y) : y[i] = fr
  <2> HIDE DEF y
  <2> QED
    BY <1>7, SetFacts
<1> HIDE DEF x, y, s, X
<1>14. \A e : e \notin gone => Fresh(x, e)
  <2>1. \A fr \in ToSet(x) : fr.kind = "removed" => fr.id \in gone
    BY <1>8, <1>2, <1>3
  <2> QED
    BY <1>12, <2>1
<1>15. ASSUME NEW e \in known' \ astray' PROVE Told(x, e)
  <2>1. Fresh(x, e) /\ e \notin gone
    BY <1>14, <1>2, <1>6
  <2>2. CASE e \in known
    BY <2>1, <2>2 DEF Told
  <2>3. CASE e \in told
    <3>1. PICK fr \in ToSet(a) : fr.id = e
      BY <1>2, <2>3
    <3>2. PICK i \in 1 .. Len(x) : x[i] = fr
      BY <1>8, <1>12
    <3>3. FullAt(x, i, e) /\ Low(stream, client, e, x[i].rev)
      BY <1>2, <2>1, <3>1, <3>2 DEF FullAt
    <3> QED
      BY <2>1, <3>3 DEF Told
  <2>4. e \in known \cup told /\ e \notin gone
    BY <1>2, <1>6
  <2> QED
    BY <2>2, <2>3, <2>4
<1>16. ASSUME NEW e \in Entities \ (known' \cup astray') PROVE Untold(stream', x, P, e)
  <2>1. CASE e \in gone
    <3>1. PICK fr \in ToSet(b) : fr.id = e /\ fr.rev >= rev[e]
      BY <1>3, <2>1
    <3>2. fr.kind = "removed"
      BY <1>3
    <3>3. PICK i \in 1 .. Len(y) : y[i] = fr
      BY <1>7, <1>13
    <3>4. NeverFull(y, e)
      <4>1. \A g \in ToSet(y) : g.kind = "full" => g.id \in known'
        BY <1>7, <1>3
      <4> QED
        BY <1>13, <4>1
    <3>5. \E p \in 1 .. Len(stream') :
             stream'[p] = y[i] /\ \A j \in p .. Len(stream') : ~FullAt(stream', j, e)
      <4>1. \E p \in 1 .. Len(s \o y) :
               (s \o y)[p] = y[i] /\ \A j \in p .. Len(s \o y) : ~FullAt(s \o y, j, e)
        BY <1>11, <3>3, <3>4, AppendLast, Zenon
      <4> QED
        BY <1>11, <4>1
    <3> QED
      BY <3>1, <3>2, <3>3, <3>5 DEF Untold, RemovedAt
  <2>2. CASE e \notin gone
    <3>1. e \notin known \cup astray /\ e \notin told /\ e \notin known'
      BY <1>2, <2>2
    <3>2. NeverFull(x, e)
      <4>1. \A g \in ToSet(x) : g.kind = "full" => g.id \in told \cup known'
        BY <1>8, <1>2, <1>3
      <4> QED
        BY <1>12, <3>1, <4>1
    <3>3. \/ Fresh(stream, e)
          \/ \A d \in P : \A j \in 1 .. Len(d.frames) : d.frames[j].id # e
      BY <1>4, <3>1
    <3> QED
      BY <3>1, <3>2, <3>3 DEF Untold
  <2> QED
    BY <2>1, <2>2
<1>17. \A e \in N \cap live : Fresh(x, e) /\ (e \in known' \/ Fresh(stream, e))
  BY <1>14, <1>4
<1>18. /\ \A fr \in ToSet(x) : fr.id \in born
       /\ \A fr \in ToSet(x) :
             fr.kind = "removed" /\ fr.id \in live \cup (spawned \ astray') => fr.rev <= rev[fr.id]
  <2>1. \A fr \in ToSet(a) : fr.id \in born /\ fr.kind # "removed"
    BY <1>2
  <2>2. \A fr \in ToSet(b) : fr.id \in born
    BY <1>2, <1>3
  <2> QED
    BY <1>8, <1>3, <2>1, <2>2
<1>19. stream' = stream \o x /\ known' \subseteq Entities
  BY <1>6, <1>2 DEF x
<1> QED
  BY <1>8, <1>4, <1>15, <1>16, <1>17, <1>18, <1>19, SendKeepsKnown

\* A blind pass: what is registered was sent in full, or its changes wait behind it.
LEMMA BlindKeepsKnown ==
    ASSUME OwnerInv, RevisionInv, KnownInv, RevisionInv', BroadcastBlind
    PROVE  KnownInv'
<1> DEFINE T == DOMAIN pass.spawns
           S == DOMAIN pass.deltas
           gone == DOMAIN pass.removed
<1>1. /\ pass # NoPass /\ ~pass.filter /\ sess = "live" /\ EndPass /\ astray' = astray
      /\ pass.read = Len(pass.removals)
  BY DEF BroadcastBlind, Sending
<1>2. /\ UNCHANGED <<live, born, rev, client, spawned, despawned, sess>>
      /\ ConnectingOK' /\ FlushOrderOK' /\ AstrayOK'
  BY <1>1, PassOver DEF EndPass, KnownInv, AstrayOK
<1>3. /\ T \subseteq born /\ S \subseteq born /\ gone \subseteq born \ live /\ born \subseteq Entities
      /\ known \subseteq born
  BY <1>1 DEF OwnerInv, PassOK, RemovalsOK, BasicOK
<1>4. /\ \A e \in T : /\ pass.spawns[e].kind = "full" /\ pass.spawns[e].id = e
                      /\ e \notin astray => Low(stream, client, e, pass.spawns[e].rev)
      /\ \A e \in S : flushMask[e] # {}
      /\ \A e \in S \cap live : e \in known \/ Fresh(stream, e)
      /\ \A e \in gone : pass.removed[e] >= rev[e] /\ e \notin spawned \ astray
  BY <1>1 DEF KnownInv, FlushOrderOK, OwnerInv, PassOK
<1>5. TrackerOK(tracker, Reach, {}, Dead)
  BY DEF KnownInv
<1>6. CASE Idle
  <2>1. UNCHANGED <<known, tracker, stream, net>>
    BY <1>6 DEF BroadcastBlind, sendVars
  <2>2. rev \in [Entities -> Nat]
    BY OnTheWay
  <2>3. \A e \in Entities : rev'[e] >= rev[e]
    BY <1>2, <2>2
  <2>4. \A i \in 1 .. Len(despawned') : despawned'[i].rev >= rev'[despawned'[i].id]
    BY <1>2 DEF KnownInv, OrderOK
  <2>5. TrackerOK(tracker', Reach, {}, Dead)
    BY <1>5, <2>1
  <2>6. /\ born \subseteq born' /\ live' \cap born \subseteq live
        /\ (live' \cup spawned') \cap born \subseteq live \cup spawned
    BY <1>2
  <2> QED
    BY <1>1, <1>2, <2>1, <2>3, <2>4, <2>5, <2>6, QuietKnown
<1>7. CASE ~Idle
  <2> DEFINE N == Reach \cup S
  <2>1. S \cap {} = {} /\ Partial(S, Dead)
    BY <1>3, <1>4 DEF Partial, Dead
  <2>2. PICK sent : SendOK(sent, N, {}, Dead) /\ Send(BlindFrames, sent)
    BY <1>5, <1>7, <2>1, BlindSendsOf
  <2>3. /\ known' = (known \cup T) \ RemovalIDs /\ RemovalIDs \subseteq born \ live
        /\ \A e \in Entities \ astray' : e \in RemovalIDs <=> e \in gone
    <3>1. known' = (known \cup T) \ RemovalIDs
      BY <1>7, Zenon DEF BroadcastBlind, applyBlindBroadcastKnown
    <3>2. pass.removals \in Seq(Removal)
      BY <1>1 DEF OwnerInv, RemovalsOK
    <3>3. \A e : e \in RemovalIDs <=> \E i \in 1 .. Len(pass.removals) : pass.removals[i].id = e
      BY <3>2 DEF RemovalIDs, ToSet
    <3>4. \A i \in 1 .. Len(pass.removals) : pass.removals[i] \in Removal
      BY <3>2
    <3>5. RemovalIDs \subseteq born \ live
      BY <3>3, <3>4 DEF Removal
    <3>6. \A e \in Entities \ astray :
             e \in gone <=> \E i \in 1 .. Len(pass.removals) : pass.removals[i].id = e
      BY <1>1 DEF KnownInv, AstrayOK
    <3> QED
      BY <1>1, <3>1, <3>3, <3>5, <3>6
  <2>4. PICK a, b :
          /\ BlindFrames = a \o b /\ a \in Seq(ToSet(a)) /\ b \in Seq(ToSet(b))
          /\ \A fr : fr \in ToSet(a) <=> \E e \in T : fr = pass.spawns[e]
          /\ \A fr : fr \in ToSet(b) <=> \E e \in gone : fr = Removed(e, pass.removed[e])
    BY <1>1, BlindFramesAre
  <2> DEFINE f == sent.frames
             P == sent.packets
             B == FramesOf(Sent(Changes(N, {}, Dead)))
             G == (ToSet(a) \cup ToSet(b)) \cup B
  <2>5. /\ f \in Seq(B)
        /\ \A fr \in ToSet(f) : fr.kind \in {"delta", "compact"} /\ fr.id \in N \cap live
        /\ \A d \in P : \A j \in 1 .. Len(d.frames) : d.frames[j].id \in N \cap live
    <3> HIDE DEF N
    <3> QED
      BY <2>2, SentFacts
  <2>6. stream' = stream \o ((a \o b) \o f) /\ net' = net \cup P /\ tracker' = sent.tracker
    BY <2>2, <2>4 DEF Send
  <2>7. TrackerOK(tracker', N, {}, Dead) /\ N \subseteq born
    BY <1>3, <2>2, <2>6 DEF SendOK, Reach
  <2>8. a \in Seq(G) /\ b \in Seq(G) /\ f \in Seq(G)
    <3> HIDE DEF B
    <3> QED
      BY <2>4, <2>5
  <2>9. \A e \in N \cap live : e \notin gone /\ (e \in known' \/ Fresh(stream, e))
    BY <1>3, <1>4, <2>3 DEF Reach
  <2>10. \A fr \in ToSet(a) :
            /\ fr.kind = "full" /\ fr.id \in T
            /\ fr.id \notin gone \cup astray' => Low(stream, client, fr.id, fr.rev)
    BY <1>1, <1>4, <2>4
  <2>11. \A e \in T : \E fr \in ToSet(a) : fr.id = e
    BY <1>4, <2>4
  <2>12. \A e \in gone : LET fr == Removed(e, pass.removed[e]) IN
            /\ fr.kind = "removed" /\ fr.id = e /\ fr.rev = pass.removed[e]
    BY DEF Removed
  <2>13. \A fr \in ToSet(b) :
            /\ fr.kind = "removed" /\ fr.id \in gone
            /\ fr.id \in live \cup (spawned \ astray') => fr.rev <= rev[fr.id]
    BY <1>1, <1>3, <1>4, <2>4, <2>12
  <2>14. \A e \in gone \ astray' : \E fr \in ToSet(b) : fr.id = e /\ fr.rev >= rev[e]
    <3> SUFFICES ASSUME NEW e \in gone PROVE \E fr \in ToSet(b) : fr.id = e /\ fr.rev >= rev[e]
      OBVIOUS
    <3> QED
      BY <1>4, <2>4, <2>12
  <2>15. \A fr \in ToSet(f) : fr.kind # "removed" /\ fr.id \in born
                              /\ (fr.kind = "full" => fr.id \in known')
    BY <2>5, <2>7
  <2>16. gone \subseteq born /\ astray \subseteq astray'
    BY <1>1, <1>3
  <2>17. ToldLists(T, gone, a, b, f)
    <3>1. \E Q : a \in Seq(Q) /\ b \in Seq(Q) /\ f \in Seq(Q)
      BY <2>8
    <3>2. /\ known' \subseteq born
          /\ \A e \in Entities \ astray' : e \in known' <=> e \in (known \cup T) \ gone
      BY <1>3, <2>3
    <3> HIDE DEF f, T, gone
    <3> QED
      BY <1>3, <2>6, <2>10, <2>11, <2>13, <2>14, <2>15, <2>16, <3>1, <3>2 DEF ToldLists
  <2>18. ToldChanges(N, gone, P)
    <3> HIDE DEF N, gone, P
    <3> QED
      BY <2>5, <2>6, <2>7, <2>9 DEF ToldChanges
  <2> HIDE DEF N, f, P, T, gone
  <2> QED
    BY <1>2, <2>16, <2>17, <2>18, TellKeepsKnown
<1> QED
  BY <1>6, <1>7

\* The full state a session gets of what it is to know, and where it comes from.
LEMMA WrappedKind ==
    ASSUME OwnerInv, KnownInv, pass # NoPass, NEW e \in live
    PROVE  /\ wrappedFullForSession(e).kind = "full" /\ wrappedFullForSession(e).id = e
           /\ Low(stream, client, e, wrappedFullForSession(e).rev)
           /\ GrantFrame(e).kind = "full" /\ GrantFrame(e).id = e
<1>1. e \in DOMAIN pass.spawns => /\ pass.spawns[e].kind = "full" /\ pass.spawns[e].id = e
                                  /\ Low(stream, client, e, pass.spawns[e].rev)
  BY DEF KnownInv, FlushOrderOK, OwnerInv, PassOK, AstrayOK, Dead
<1>2. Low(stream, client, e, rev[e])
  BY DEF KnownInv, OrderOK
<1>3. /\ FullUpdate(e).kind = "full" /\ FullUpdate(e).id = e
      /\ fullUpdateForSession(e).kind = "full" /\ fullUpdateForSession(e).id = e
      /\ fullUpdateForSession(e).rev = rev[e]
  BY FullKind
<1>4. GrantFrame(e).kind = "full" /\ GrantFrame(e).id = e
  BY <1>1, <1>3 DEF GrantFrame
<1>5. CASE (Scoped => Mine(e)) /\ e \in DOMAIN pass.spawns
  <2>1. wrappedFullForSession(e) = pass.spawns[e]
    BY <1>5 DEF wrappedFullForSession
  <2> QED
    BY <1>1, <1>4, <1>5, <2>1
<1>6. CASE ~((Scoped => Mine(e)) /\ e \in DOMAIN pass.spawns)
  <2>1. wrappedFullForSession(e) = fullUpdateForSession(e)
    BY <1>6 DEF wrappedFullForSession
  <2> QED
    BY <1>2, <1>3, <1>4, <2>1
<1> QED
  BY <1>5, <1>6

\* Leaving sight: the removal has the revision of what there is to remove.
LEMMA ExitKind ==
    ASSUME OwnerInv, RevisionInv, KnownInv, pass # NoPass, NEW e \in born
    PROVE  /\ ExitFrame(e).kind = "removed" /\ ExitFrame(e).id = e
           /\ e \in live \cup (spawned \ astray) => ExitFrame(e).rev <= rev[e]
           /\ e \in live \cup DOMAIN pass.removed => ExitFrame(e).rev >= rev[e]
<1>1. rev[e] \in Nat
  BY OnTheWay DEF OwnerInv, BasicOK
<1>2. e \in DOMAIN pass.removed => /\ pass.removed[e] >= rev[e] /\ e \notin spawned \ astray /\ e \notin live
  BY DEF KnownInv, FlushOrderOK, OwnerInv, RemovalsOK
<1>3. CASE e \in DOMAIN pass.removed
  <2>1. ExitFrame(e) = Removed(e, pass.removed[e])
    BY <1>3 DEF ExitFrame
  <2> QED
    BY <1>2, <1>3, <2>1 DEF Removed
<1>4. CASE e \notin DOMAIN pass.removed /\ e \in live
  <2>1. ExitFrame(e) = Removed(e, rev[e])
    BY <1>4 DEF ExitFrame
  <2>2. rev[e] <= rev[e] /\ rev[e] >= rev[e]
    BY <1>1
  <2>3. ExitFrame(e).kind = "removed" /\ ExitFrame(e).id = e /\ ExitFrame(e).rev = rev[e]
    BY <2>1 DEF Removed
  <2> QED
    BY <2>2, <2>3
<1>5. CASE e \notin DOMAIN pass.removed /\ e \notin live
  <2>1. ExitFrame(e) = Removed(e, 0)
    BY <1>5 DEF ExitFrame
  <2>2. ExitFrame(e).kind = "removed" /\ ExitFrame(e).id = e /\ ExitFrame(e).rev = 0
    BY <2>1 DEF Removed
  <2> QED
    BY <1>1, <1>5, <2>2
<1> QED
  BY <1>3, <1>4, <1>5

\* The frames of a filtered pass: the full states of what the session gets to
\* see, the removals of what it no longer sees, and full states of what stays.
LEMMA FilteredFramesAre ==
    ASSUME OwnerInv, KnownInv, pass # NoPass
    PROVE  LET df == computeBroadcastDiff
               S1 == df.entered \cup (df.stayed \cap DOMAIN pass.spawns)
           IN
           \E a, b, c :
              /\ FilteredFrames = (a \o b) \o c
              /\ a \in Seq(ToSet(a)) /\ b \in Seq(ToSet(b)) /\ c \in Seq(ToSet(c))
              /\ \A fr : fr \in ToSet(a) <=> \E e \in S1 : fr = wrappedFullForSession(e)
              /\ \A fr : fr \in ToSet(b) <=> \E e \in df.exited : fr = ExitFrame(e)
              /\ \A fr \in ToSet(c) : fr.kind = "full" /\ fr.id \in df.stayed
<1> DEFINE df == computeBroadcastDiff
           S1 == df.entered \cup (df.stayed \cap DOMAIN pass.spawns)
           S2 == df.exited
           S3 == Refreshed(refresh, df.stayed)
           a == Frames(S1, wrappedFullForSession)
           b == Frames(S2, ExitFrame)
           c == RefreshFrames(refresh, S3)
           fa == [e \in S1 |-> wrappedFullForSession(e)]
           fb == [e \in S2 |-> ExitFrame(e)]
           Q == {fr \in {PublicFullUpdate(e) : e \in S3} \cup {GrantFrame(e) : e \in S3} :
                   fr.kind = "full" /\ fr.id \in df.stayed}
<1>1. /\ S1 \subseteq Entities /\ S2 \subseteq Entities /\ S3 \subseteq df.stayed \cap live
      /\ S3 \subseteq Entities
  BY DiffFacts DEF OwnerInv
<1>2. FilteredFrames = (a \o b) \o c
  BY DEF FilteredFrames
<1> HIDE DEF S1, S2, S3, df
<1>3. a \in Seq(ToSet(a)) /\ \A fr : fr \in ToSet(a) <=> \E e \in S1 : fr = wrappedFullForSession(e)
  <2>1. a = [i \in 1 .. Len(SetToSeq(S1)) |-> fa[SetToSeq(S1)[i]]]
    BY <1>1, FramesOver DEF Frames
  <2>2. \A e \in S1 : fa[e] = wrappedFullForSession(e)
    OBVIOUS
  <2> HIDE DEF a, fa
  <2>3. a \in Seq(ToSet(a)) /\ \A fr : fr \in ToSet(a) <=> \E e \in S1 : fr = fa[e]
    BY <1>1, <2>1, ListHas
  <2> QED
    BY <2>2, <2>3
<1>4. b \in Seq(ToSet(b)) /\ \A fr : fr \in ToSet(b) <=> \E e \in S2 : fr = ExitFrame(e)
  <2>1. b = [i \in 1 .. Len(SetToSeq(S2)) |-> fb[SetToSeq(S2)[i]]]
    BY <1>1, FramesOver DEF Frames
  <2>2. \A e \in S2 : fb[e] = ExitFrame(e)
    OBVIOUS
  <2> HIDE DEF b, fb
  <2>3. b \in Seq(ToSet(b)) /\ \A fr : fr \in ToSet(b) <=> \E e \in S2 : fr = fb[e]
    BY <1>1, <2>1, ListHas
  <2> QED
    BY <2>2, <2>3
<1>5. \A e \in S3 : PublicFullUpdate(e) \in Q /\ GrantFrame(e) \in Q
  <2> SUFFICES ASSUME NEW e \in S3 PROVE PublicFullUpdate(e) \in Q /\ GrantFrame(e) \in Q
    OBVIOUS
  <2>1. /\ PublicFullUpdate(e).kind = "full" /\ PublicFullUpdate(e).id = e
        /\ GrantFrame(e).kind = "full" /\ GrantFrame(e).id = e
    BY <1>1, FullKind, WrappedKind
  <2> QED
    BY <1>1, <2>1
<1>6. \A fr \in Q : fr.kind = "full" /\ fr.id \in df.stayed
  OBVIOUS
<1>7. c \in Seq(Q)
  <2> HIDE DEF Q
  <2> QED
    BY <1>1, <1>5, RefreshFramesIn
<1>8. c \in Seq(ToSet(c)) /\ ToSet(c) \subseteq Q
  <2> HIDE DEF c, Q
  <2>1. DOMAIN c = 1 .. Len(c) /\ Len(c) \in Nat /\ \A i \in 1 .. Len(c) : c[i] \in Q
    BY <1>7
  <2>2. \A i \in 1 .. Len(c) : c[i] \in ToSet(c)
    BY <2>1 DEF ToSet
  <2>3. c = [i \in 1 .. Len(c) |-> c[i]]
    BY <1>7, <2>1
  <2>4. c \in [1 .. Len(c) -> ToSet(c)]
    BY <2>2, <2>3
  <2> QED
    BY <2>1, <2>4 DEF ToSet
<1> HIDE DEF a, b, c, Q
<1>9. \A fr \in ToSet(c) : fr.kind = "full" /\ fr.id \in df.stayed
  BY <1>6, <1>8
<1>10. \E x, y, z :
              /\ FilteredFrames = (x \o y) \o z
              /\ x \in Seq(ToSet(x)) /\ y \in Seq(ToSet(y)) /\ z \in Seq(ToSet(z))
              /\ \A fr : fr \in ToSet(x) <=> \E e \in S1 : fr = wrappedFullForSession(e)
              /\ \A fr : fr \in ToSet(y) <=> \E e \in S2 : fr = ExitFrame(e)
              /\ \A fr \in ToSet(z) : fr.kind = "full" /\ fr.id \in df.stayed
  BY <1>2, <1>3, <1>4, <1>8, <1>9
<1> QED
  BY <1>10 DEF S1, S2, df

\* A filtered pass: what leaves sight is removed at its revision, or not at all.
LEMMA FilteredKeepsKnown ==
    ASSUME OwnerInv, RevisionInv, KnownInv, RevisionInv', BroadcastFiltered
    PROVE  KnownInv'
<1> DEFINE df == computeBroadcastDiff
           T == df.entered \cup (df.stayed \cap DOMAIN pass.spawns)
           gone == df.exited
           M == Reach \ Restarted
           N == M \cup df.stayed
<1>1. /\ pass # NoPass /\ sess = "live" /\ EndPass /\ known' = df.known
      /\ astray' = astray \cup (df.exited \ (live \cup DOMAIN pass.removed))
  BY DEF BroadcastFiltered, Sending
<1>2. /\ UNCHANGED <<live, born, rev, client, spawned, despawned, sess>>
      /\ ConnectingOK' /\ FlushOrderOK' /\ AstrayOK'
  <2>1. astray' \subseteq Dead
    BY <1>1, DiffFacts DEF KnownInv, AstrayOK, Dead, OwnerInv
  <2> QED
    BY <1>1, <2>1, PassOver DEF EndPass
<1>3. /\ df.entered \subseteq live \ known /\ df.stayed \subseteq live \cap known
      /\ df.known = df.entered \cup df.stayed /\ df.exited = known \ df.known
      /\ live \subseteq born /\ born \subseteq Entities /\ known \subseteq born
      /\ df.exited \subseteq Restarted
  BY DiffFacts DEF OwnerInv, BasicOK, Restarted
<1>4. known' = (known \cup T) \ gone /\ known' \subseteq born
  BY <1>1, <1>3
<1>5. Partial(DOMAIN pass.deltas, Dead)
  BY <1>1 DEF KnownInv, FlushOrderOK, Partial, Dead, OwnerInv, PassOK
<1>6. TrackerOK(tracker, Reach, {}, Dead)
  BY DEF KnownInv
<1>7. PICK sent : SendOK(sent, N, {}, Dead) /\ Send(FilteredFrames, sent)
  <2>1. M \cap {} \subseteq {} /\ \A e \in {} : Scoped /\ ~Mine(e)
    OBVIOUS
  <2> QED
    BY <1>5, <1>6, <2>1, FilteredSendsOf
<1>8. PICK a, b, c :
              /\ FilteredFrames = (a \o b) \o c
              /\ a \in Seq(ToSet(a)) /\ b \in Seq(ToSet(b)) /\ c \in Seq(ToSet(c))
              /\ \A fr : fr \in ToSet(a) <=> \E e \in T : fr = wrappedFullForSession(e)
              /\ \A fr : fr \in ToSet(b) <=> \E e \in gone : fr = ExitFrame(e)
              /\ \A fr \in ToSet(c) : fr.kind = "full" /\ fr.id \in df.stayed
  BY <1>1, FilteredFramesAre
<1> DEFINE s == sent.frames
           P == sent.packets
           f == c \o s
           B == FramesOf(Sent(Changes(N, {}, Dead)))
           C == ToSet(c) \cup B
           G == (ToSet(a) \cup ToSet(b)) \cup C
<1>9. /\ s \in Seq(B)
      /\ \A fr \in ToSet(s) : fr.kind \in {"delta", "compact"} /\ fr.id \in N \cap live
      /\ \A d \in P : \A j \in 1 .. Len(d.frames) : d.frames[j].id \in N \cap live
  <2> HIDE DEF N
  <2> QED
    BY <1>7, SentFacts
<1>10. /\ stream' = stream \o (((a \o b) \o c) \o s)
       /\ net' = net \cup P /\ tracker' = sent.tracker
  BY <1>7, <1>8 DEF Send
<1>11. c \in Seq(C) /\ s \in Seq(C)
  <2> HIDE DEF B
  <2> QED
    BY <1>8, <1>9
<1>12. ToSet(f) = ToSet(c) \cup ToSet(s) /\ f \in Seq(C)
  <2> HIDE DEF C, s
  <2> QED
    BY <1>11, JoinedSet
<1>13. a \in Seq(G) /\ b \in Seq(G) /\ f \in Seq(G) /\ c \in Seq(G) /\ s \in Seq(G)
  <2> HIDE DEF f, C
  <2> QED
    BY <1>8, <1>11, <1>12
<1>14. stream' = stream \o ((a \o b) \o f)
  <2> DEFINE ab == a \o b
  <2>1. ab \in Seq(G)
    BY <1>13
  <2>2. (ab \o c) \o s = ab \o (c \o s)
    <3> HIDE DEF ab, G, s
    <3> QED
      BY <1>13, <2>1, ConcatAssociative
  <2> QED
    BY <1>10, <2>2
<1>15. TrackerOK(tracker', N, {}, Dead) /\ N \subseteq born
  BY <1>3, <1>7, <1>10 DEF SendOK, Reach
<1>16. \A e \in N \cap live : e \notin gone /\ (e \in known' \/ Fresh(stream, e))
  BY <1>1, <1>3 DEF Reach
<1>17. T \subseteq live /\ T \subseteq born /\ gone \subseteq born
  BY <1>3
<1>18. \A fr \in ToSet(a) :
          /\ fr.kind = "full" /\ fr.id \in T
          /\ fr.id \notin gone \cup astray' => Low(stream, client, fr.id, fr.rev)
  <2> HIDE DEF T, gone
  <2>1. SUFFICES ASSUME NEW e \in T
                 PROVE  LET fr == wrappedFullForSession(e) IN
                        fr.kind = "full" /\ fr.id = e /\ Low(stream, client, e, fr.rev)
    BY <1>8
  <2> QED
    BY <1>1, <1>17, WrappedKind
<1>19. \A e \in T : \E fr \in ToSet(a) : fr.id = e
  <2> HIDE DEF T
  <2> SUFFICES ASSUME NEW e \in T PROVE \E fr \in ToSet(a) : fr.id = e
    OBVIOUS
  <2>1. wrappedFullForSession(e).id = e
    BY <1>1, <1>17, WrappedKind
  <2> QED
    BY <1>8, <2>1
<1>20. \A e \in gone : LET fr == ExitFrame(e) IN
          /\ fr.kind = "removed" /\ fr.id = e
          /\ e \in live \cup (spawned \ astray') => fr.rev <= rev[e]
          /\ e \in live \cup DOMAIN pass.removed => fr.rev >= rev[e]
  <2> HIDE DEF gone
  <2> SUFFICES ASSUME NEW e \in gone
               PROVE  LET fr == ExitFrame(e) IN
                      /\ fr.kind = "removed" /\ fr.id = e
                      /\ e \in live \cup (spawned \ astray') => fr.rev <= rev[e]
                      /\ e \in live \cup DOMAIN pass.removed => fr.rev >= rev[e]
    OBVIOUS
  <2>1. astray \subseteq astray'
    BY <1>1
  <2> QED
    BY <1>1, <1>17, <2>1, ExitKind
<1>21. \A fr \in ToSet(b) : /\ fr.kind = "removed" /\ fr.id \in gone
                            /\ fr.id \in live \cup (spawned \ astray') => fr.rev <= rev[fr.id]
  <2> HIDE DEF gone
  <2> QED
    BY <1>8, <1>20
<1>22. \A e \in gone \ astray' : \E fr \in ToSet(b) : fr.id = e /\ fr.rev >= rev[e]
  <2> SUFFICES ASSUME NEW e \in gone, e \in live \cup DOMAIN pass.removed
               PROVE  \E fr \in ToSet(b) : fr.id = e /\ fr.rev >= rev[e]
    BY <1>1
  <2> HIDE DEF gone
  <2>1. ExitFrame(e) \in ToSet(b) /\ ExitFrame(e).id = e /\ ExitFrame(e).rev >= rev[e]
    BY <1>8, <1>20
  <2> QED
    BY <2>1
<1>23. \A fr \in ToSet(f) : fr.kind # "removed" /\ fr.id \in born
                            /\ (fr.kind = "full" => fr.id \in known')
  <2>1. \A fr \in ToSet(c) : fr.kind = "full" /\ fr.id \in known' /\ fr.id \in born
    BY <1>1, <1>3, <1>8
  <2>2. \A fr \in ToSet(s) : fr.kind \notin {"full", "removed"} /\ fr.id \in born
    BY <1>9, <1>15
  <2> HIDE DEF f, s
  <2> QED
    BY <1>12, <2>1, <2>2
<1>24. ToldLists(T, gone, a, b, f)
  <2>1. \E Q : a \in Seq(Q) /\ b \in Seq(Q) /\ f \in Seq(Q)
    BY <1>13
  <2> HIDE DEF f, T, gone
  <2> QED
    BY <1>4, <1>14, <1>17, <1>18, <1>19, <1>21, <1>22, <1>23, <2>1 DEF ToldLists
<1>25. ToldChanges(N, gone, P)
  <2> HIDE DEF N, gone, P
  <2> QED
    BY <1>9, <1>10, <1>15, <1>16 DEF ToldChanges
<1>26. astray \subseteq astray'
  BY <1>1
<1> HIDE DEF N, f, P, T, gone, df
<1> QED
  BY <1>2, <1>24, <1>25, <1>26, TellKeepsKnown

\* A session starts with what its client shows.
LEMMA InitKnown == Init => KnownInv
<1> SUFFICES ASSUME Init PROVE KnownInv
  OBVIOUS
<1>1. /\ stream = <<>> /\ net = {} /\ pass = NoPass /\ astray = {} /\ spawned = {}
      /\ despawned = <<>> /\ rev = [e \in Entities |-> 0] /\ live = born
      /\ sess = IF scenario.joined THEN "live" ELSE "new"
      /\ known = IF scenario.joined THEN live ELSE {}
      /\ client = [ents |-> [e \in known |-> val[e]], last |-> [e \in known |-> 0]]
      /\ tracker = newEventualStateTracker
  BY DEF Init
<1>2. live \subseteq born /\ born \subseteq Entities /\ known \subseteq born
  BY InitOwnerInv DEF OwnerInv, BasicOK
<1>3. /\ DOMAIN client.ents = known /\ DOMAIN client.last = known
      /\ \A e \in known : client.last[e] = 0
  BY <1>1
<1>4. \A e : Fresh(stream, e) /\ NeverFull(stream, e) /\ \A r : Low(stream, client, e, r)
  BY <1>1, <1>3 DEF Fresh, NeverFull, Low
<1>5. ShownOK
  BY <1>3, <1>4 DEF ShownOK, Shown, Gone
<1>6. OrderOK
  <2>1. \A e \in DOMAIN client.ents : client.last[e] <= rev[e]
    BY <1>1, <1>2, <1>3
  <2>2. 1 .. Len(despawned) = {}
    BY <1>1
  <2> QED
    BY <1>4, <2>1, <2>2 DEF OrderOK
<1>7. NamesOK
  BY <1>1, <1>2, <1>3 DEF NamesOK
<1>8. ConnectingOK
  BY <1>1, <1>4 DEF ConnectingOK
<1>9. FlushOrderOK /\ AstrayOK
  BY <1>1 DEF FlushOrderOK, AstrayOK
<1>10. TrackerOK(tracker, Reach, {}, Dead)
  BY <1>1, NewTracker
<1> QED
  BY <1>5, <1>6, <1>7, <1>8, <1>9, <1>10 DEF KnownInv

\* Every step keeps both sides in agreement.
LEMMA NextKnown ==
    ASSUME OwnerInv, RevisionInv, KnownInv, RevisionInv', [Next]_vars
    PROVE  KnownInv'
<1>1. CASE GameAction
  BY <1>1, GameKeepsKnown
<1>2. CASE SendSnapshot
  BY <1>2, SnapshotKeepsKnown
<1>3. CASE AddSession \/ DrainMessages \/ BroadcastToOthers \/ Acknowledged \/ Lost \/ UNCHANGED vars
  BY <1>3, ServerKeepsKnown
<1>4. CASE FlushAll
  BY <1>4, FlushKeepsKnown
<1>5. CASE SerializeRemoval
  BY <1>5, SerializeKeepsKnown
<1>6. CASE BroadcastBlind
  BY <1>6, BlindKeepsKnown
<1>7. CASE BroadcastFiltered
  BY <1>7, FilteredKeepsKnown
<1>8. CASE StreamDeliver
  BY <1>8, ReadKeepsKnown
<1>9. CASE DatagramDeliver
  BY <1>9, ReceiveKeepsKnown
<1> QED
  BY <1>1, <1>2, <1>3, <1>4, <1>5, <1>6, <1>7, <1>8, <1>9 DEF Next, GameAction

\* When nothing is on the stream, what it will show is what is shown.
LEMMA KnownWhenRead ==
    ASSUME OwnerInv, RevisionInv, KnownInv, stream = <<>>
    PROVE  /\ known \ astray \subseteq DOMAIN client.ents
           /\ DOMAIN client.ents \ known \subseteq astray
           /\ live \cap astray = {}
<1>1. 1 .. Len(stream) = {}
  OBVIOUS
<1>2. ASSUME NEW e \in known \ astray PROVE e \in DOMAIN client.ents
  BY <1>1 DEF KnownInv, ShownOK, Shown
<1>3. ASSUME NEW e \in DOMAIN client.ents, e \notin known \cup astray PROVE FALSE
  <2>1. e \in Entities
    BY <1>3, OnTheWay DEF KnownInv, NamesOK, OwnerInv, BasicOK, ClientShape
  <2>2. Gone(stream, net, client, e)
    BY <1>3, <2>1 DEF KnownInv, ShownOK
  <2> QED
    BY <1>1, <1>3, <2>2 DEF Gone
<1>4. live \cap astray = {}
  BY DEF KnownInv, AstrayOK, Dead
<1> QED
  BY <1>2, <1>3, <1>4

\* At every moment and for each entity that is not astray, what is on the stream
\* ends in what the server takes the session to know: for a known one the last word
\* is a full state that no removal before it outdates, for another the last word is
\* a removal that no datagram on its way, and nothing the client has seen, outdates;
\* changes are only owed for entities whose removal is not on the stream, whatever
\* game code does between the flush of a pass and its sends.
THEOREM KnownInvariant == Spec => [](OwnerInv /\ RevisionInv /\ KnownInv)
<1>1. Init => OwnerInv /\ RevisionInv /\ KnownInv
  BY InitOwnerInv, InitRevisionInv, InitKnown
<1>2. OwnerInv /\ RevisionInv /\ KnownInv /\ [Next]_vars => (OwnerInv /\ RevisionInv /\ KnownInv)'
  <2> SUFFICES ASSUME OwnerInv, RevisionInv, KnownInv, [Next]_vars
               PROVE  OwnerInv' /\ RevisionInv' /\ KnownInv'
    OBVIOUS
  <2>1. OwnerInv' /\ RevisionInv'
    BY NextOwnerInv, StutterOwnerInv, NextRevisionInv, StutterRevisionInv
  <2> QED
    BY <2>1, NextKnown
<1> QED
  BY <1>1, <1>2, PTL DEF Spec

\* When the stream has been read the client shows exactly what broadcastKnown
\* holds, whatever arrived in datagrams in between and for any number of entities,
\* except deleted entities whose removal carried no revision or lost, or took, a
\* place in the list of a pass under way (FlushAll shares it with later deletions;
\* revisions of removals in runBroadcastTickFiltered; EntityManager.isStale).
THEOREM ClientMatchesKnown == Spec => []KnownMatchesClient
<1>1. OwnerInv /\ RevisionInv /\ KnownInv => KnownMatchesClient
  BY KnownWhenRead DEF KnownMatchesClient
<1> QED
  BY <1>1, KnownInvariant, PTL

=============================================================================
