---------------------------- MODULE SnapshotProofs ----------------------------
(***************************************************************************)
(* What Snapshot promises for every set of entities, types and schemas,    *)
(* and any number of saves, of failures and of restarts at any step.       *)
(***************************************************************************)
EXTENDS Snapshot, Integers, FiniteSetTheorems, TLAPS

Phases == {"setup", "loading", "ready", "failed"}
Steps == {"idle", "collect", "head", "tail", "rename", "remove", "done", "error"}
Opened == {"head", "tail", "rename"}        \* the steps of a save that has emptied its file
Entries == 0 .. 4                           \* a directory entry: None or an inode

Entity == [type : Type, val : Nat]
World(f) == DOMAIN f \subseteq IDs /\ f \in [DOMAIN f -> Entity]
SaveOK(v) == World(v.called) /\ World(v.recs) /\ World(v.last)

GameOK ==
    /\ phase \in Phases /\ counter \in 0 .. MaxID
    /\ World(objs) /\ World(todo) /\ restored \subseteq IDs
    /\ phase \in {"setup", "ready"} => restored = {}

SavesOK ==
    /\ started \in Nat /\ reported \in Nat
    /\ DOMAIN saves \subseteq 1 .. started /\ saves = [m \in DOMAIN saves |-> saves[m]]
    /\ \A m \in DOMAIN saves :
          /\ saves[m] = [fp |-> saves[m].fp, called |-> saves[m].called, recs |-> saves[m].recs,
                         last |-> saves[m].last]
          /\ SaveOK(saves[m])

DiskOK ==
    /\ saver \in [Savers -> [pc : Steps, n : Nat, left : SUBSET IDs, fd : Entries]]
    /\ file \in [Inodes -> [head : Nat, tail : Nat]]
    /\ path \in Entries /\ tmp \in Entries /\ overlapped \in BOOLEAN

\* Every variable keeps its type.
TypeOK == GameOK /\ SavesOK /\ DiskOK

-----------------------------------------------------------------------------
(* Saves.                                                                   *)

\* What a save has collected so far lies between the states at its call and
\* now, or at the deletion of the entity.
CollectInv(r) ==
    LET v == saves[r.n]
    IN  /\ r.left \subseteq DOMAIN v.called /\ \A i \in r.left : v.called[i].type \in Persistent
        /\ DOMAIN v.last \subseteq DOMAIN v.called
        /\ DOMAIN v.recs = {i \in DOMAIN v.called \ r.left : v.called[i].type \in Persistent \cap Recorded}
        /\ \A i \in DOMAIN v.called :
              /\ i \in DOMAIN v.last \/ i \in DOMAIN objs
              /\ Held(r.n, i).type = v.called[i].type /\ v.called[i].val <= Held(r.n, i).val
        /\ \A i \in DOMAIN v.recs :
              /\ v.recs[i].type = v.called[i].type
              /\ v.called[i].val <= v.recs[i].val /\ v.recs[i].val <= Held(r.n, i).val

\* A save that has collected everything.
Complete(v) ==
    /\ DOMAIN v.last = DOMAIN v.called
    /\ DOMAIN v.recs = {i \in DOMAIN v.called : v.called[i].type \in Persistent \cap Recorded}
    /\ \A i \in DOMAIN v.recs :
          /\ v.recs[i].type = v.called[i].type
          /\ v.called[i].val <= v.recs[i].val /\ v.recs[i].val <= v.last[i].val

\* The parts of the files that a save cannot have written yet.
UnwrittenInv(r) ==
    /\ r.pc \in {"collect", "head"} => \A ino \in Inodes : r.n \notin {file[ino].head, file[ino].tail}
    /\ r.pc = "tail" => \A ino \in Inodes : file[ino].tail # r.n

SaverInv(s) ==
    LET r == saver[s]
    IN  IF r.pc = "idle" THEN r = Idle
        ELSE /\ phase = "ready" /\ r.n \in DOMAIN saves
             /\ r.pc = "collect" => CollectInv(r)
             /\ r.pc \in Opened => Complete(saves[r.n]) /\ r.fd \in Inodes
             /\ UnwrittenInv(r)

Distinct == \A s, o \in Savers : InProgress(s) /\ InProgress(o) /\ saver[s].n = saver[o].n => s = o

\* Every part of a file is from a save that has collected everything, also when
\* two saves have written to it; path.tmp counts while a save may rename it.
Sound(ino) ==
    \A m \in {file[ino].head, file[ino].tail} : m # None => m \in DOMAIN saves /\ Complete(saves[m])

FileInv ==
    /\ \A ino \in Inodes : file[ino].head <= started /\ file[ino].tail <= started
    /\ path # None => Sound(path)
    /\ tmp # None /\ (\E s \in Savers : saver[s].pc \in Opened) => Sound(tmp)

\* A load of a whole file in progress: what is restored so far and what is left.
LoadingInv ==
    phase = "loading" =>
        LET recs == saves[file[path].head].recs
        IN  /\ path # None
            /\ ~Torn(path) =>
                  /\ DOMAIN todo \subseteq DOMAIN recs /\ \A i \in DOMAIN todo : todo[i] = recs[i]
                  /\ restored = {i \in DOMAIN recs \ DOMAIN todo : recs[i].type \in Restorable}

DiskInv == (\A s \in Savers : SaverInv(s)) /\ Distinct /\ FileInv /\ LoadingInv

-----------------------------------------------------------------------------
(* One save at a time.                                                      *)

\* A save alone owns path.tmp from the moment it opens it, and writes nothing
\* that is under path.
OwnerInv(r) ==
    /\ r.pc \in Opened => tmp = r.fd
    /\ r.pc = "tail" => file[r.fd].head = r.n
    /\ r.pc = "rename" => file[r.fd].head = r.n /\ file[r.fd].tail = r.n
    /\ r.pc # "remove"
    /\ r.pc = "done" => path # None /\ file[path].head = r.n
    /\ r.pc \in Opened \cup {"collect"} => reported < r.n

AloneInv ==
    ~overlapped =>
        /\ \A s, o \in Savers : InProgress(s) /\ InProgress(o) => s = o
        /\ tmp # None => tmp # path
        /\ reported <= started
        /\ \A s \in Savers : OwnerInv(saver[s])
        /\ SnapshotIntact

Inv == TypeOK /\ DiskInv /\ AloneInv

-----------------------------------------------------------------------------
(* Steps that write nothing to disk.                                        *)

\* A function with one value more.
LEMMA WithOne ==
    ASSUME NEW f, NEW i \in IDs, NEW v \in Entity, World(f)
    PROVE  /\ World(With(f, i, v)) /\ DOMAIN With(f, i, v) = DOMAIN f \cup {i}
           /\ With(f, i, v)[i] = v /\ \A j \in DOMAIN f : j # i => With(f, i, v)[j] = f[j]
BY DEF With, World

\* The records of the saves that are not collecting stay.
OthersStay ==
    /\ DOMAIN saves' = DOMAIN saves
    /\ \A m \in DOMAIN saves :
          (\A s \in Savers : saver[s].pc = "collect" => saver[s].n # m) => saves'[m] = saves[m]

\* What a save in progress needs of the entities when they change.
Carries(s) ==
    saver[s].pc = "collect" =>
        LET n == saver[s].n
        IN  /\ saves'[n].called = saves[n].called /\ saves'[n].recs = saves[n].recs
            /\ DOMAIN saves'[n].last \subseteq DOMAIN saves[n].called
            /\ \A i \in DOMAIN saves[n].called :
                  /\ i \in DOMAIN saves'[n].last \/ i \in DOMAIN objs'
                  /\ Held(n, i)'.type = Held(n, i).type /\ Held(n, i).val <= Held(n, i)'.val
                  /\ Held(n, i)'.val \in Nat

\* An entity that a save was called with, as the save sees it.
LEMMA HeldType ==
    ASSUME TypeOK, NEW n \in DOMAIN saves, NEW i, i \in DOMAIN saves[n].last \/ i \in DOMAIN objs
    PROVE  Held(n, i) \in Entity /\ Held(n, i).val \in Nat
BY DEF TypeOK, SavesOK, SaveOK, GameOK, World, Held, Entity

LEMMA CollectKeeps ==
    ASSUME TypeOK, NEW s \in Savers, saver[s].pc = "collect", saver[s].n \in DOMAIN saves,
           CollectInv(saver[s]), Carries(s), saver' = saver
    PROVE  CollectInv(saver[s])'
<1> DEFINE r == saver[s]
           n == r.n
           v == saves[n]
<1>1. /\ r.left \subseteq DOMAIN v.called /\ \A i \in r.left : v.called[i].type \in Persistent
      /\ DOMAIN v.recs = {i \in DOMAIN v.called \ r.left : v.called[i].type \in Persistent \cap Recorded}
      /\ \A i \in DOMAIN v.called :
            /\ i \in DOMAIN v.last \/ i \in DOMAIN objs
            /\ Held(n, i).type = v.called[i].type /\ v.called[i].val <= Held(n, i).val
      /\ \A i \in DOMAIN v.recs :
            /\ v.recs[i].type = v.called[i].type
            /\ v.called[i].val <= v.recs[i].val /\ v.recs[i].val <= Held(n, i).val
  BY DEF CollectInv
<1>2. SaveOK(v)
  BY DEF TypeOK, SavesOK
<1>3. \A i \in DOMAIN v.called : v.called[i].val \in Nat /\ Held(n, i).val \in Nat
  BY <1>1, <1>2, HeldType DEF SaveOK, World, Entity
<1>4. \A i \in DOMAIN v.recs : i \in DOMAIN v.called /\ v.recs[i].val \in Nat
  BY <1>1, <1>2 DEF SaveOK, World, Entity
<1>5. /\ v'.called = v.called /\ v'.recs = v.recs /\ DOMAIN v'.last \subseteq DOMAIN v.called /\ n' = n /\ r' = r
      /\ \A i \in DOMAIN v.called :
            /\ i \in DOMAIN v'.last \/ i \in DOMAIN objs'
            /\ Held(n, i)'.type = Held(n, i).type /\ Held(n, i).val <= Held(n, i)'.val
            /\ Held(n, i)'.val \in Nat
  BY DEF Carries
<1>6. \A i \in DOMAIN v.called : /\ Held(n, i)'.type = v.called[i].type
                                 /\ v.called[i].val <= Held(n, i)'.val
  BY <1>1, <1>3, <1>5
<1>7. \A i \in DOMAIN v.recs : v.recs[i].val <= Held(n, i)'.val
  BY <1>1, <1>3, <1>4, <1>5
<1> HIDE DEF r, n, v
<1>8. \A i : Held(r.n, i)' = Held(n, i)'
  BY <1>5 DEF n
<1> QED
  BY <1>1, <1>5, <1>6, <1>7, <1>8 DEF CollectInv, r, v, n

\* Nothing of a file that counts is from a save that is still collecting.
LEMMA SoundStays ==
    ASSUME Inv, OthersStay, NEW ino \in Inodes, Sound(ino), file'[ino] = file[ino]
    PROVE  Sound(ino)'
<1> SUFFICES ASSUME NEW m \in {file[ino].head, file[ino].tail}, m # None
             PROVE  m \in DOMAIN saves' /\ Complete(saves'[m])
  BY DEF Sound, Complete
<1>1. m \in DOMAIN saves /\ Complete(saves[m])
  BY DEF Sound
<1>2. \A s \in Savers : saver[s].pc = "collect" => saver[s].n # m
  BY DEF Inv, DiskInv, SaverInv, UnwrittenInv
<1> QED
  BY <1>1, <1>2 DEF OthersStay

LEMMA DiskKeeps ==
    ASSUME Inv, UNCHANGED <<saver, disk, started, reported, overlapped>>, OthersStay,
           GameOK', SavesOK', LoadingInv', phase = "ready" => phase' = "ready",
           \A s \in Savers : Carries(s)
    PROVE  Inv'
<1>1. file' = file /\ path' = path /\ tmp' = tmp
  BY DEF disk
<1>2. TypeOK'
  BY <1>1 DEF Inv, TypeOK, DiskOK
<1>3. ASSUME NEW s \in Savers PROVE SaverInv(s)'
  <2>1. SaverInv(s) /\ saver[s]' = saver[s]
    BY DEF Inv, DiskInv
  <2>2. CASE saver[s].pc = "idle"
    BY <2>1, <2>2 DEF SaverInv
  <2>3. CASE saver[s].pc # "idle"
    <3>1. /\ phase = "ready" /\ saver[s].n \in DOMAIN saves
          /\ saver[s].pc = "collect" => CollectInv(saver[s])
          /\ saver[s].pc \in Opened => Complete(saves[saver[s].n]) /\ saver[s].fd \in Inodes
          /\ UnwrittenInv(saver[s])
      BY <2>1, <2>3 DEF SaverInv
    <3>2. saver[s].pc = "collect" => CollectInv(saver[s])'
      BY <3>1, CollectKeeps DEF Inv
    <3>3. UnwrittenInv(saver[s])'
      BY <1>1, <2>1, <3>1 DEF UnwrittenInv
    <3>4. saver[s].pc \in Opened => saves'[saver[s].n] = saves[saver[s].n]
      <4>1. saver[s].pc \in Opened => \A o \in Savers : saver[o].pc = "collect" => saver[o].n # saver[s].n
        BY DEF Inv, DiskInv, Distinct, InProgress, Opened
      <4> QED
        BY <3>1, <4>1 DEF OthersStay
    <3>5. saver[s].pc \in Opened => Complete(saves[saver[s].n])' /\ saver'[s].fd \in Inodes
      BY <2>1, <3>1, <3>4 DEF Complete
    <3> QED
      BY <2>1, <2>3, <3>1, <3>2, <3>3, <3>5 DEF SaverInv, OthersStay
  <2> QED
    BY <2>2, <2>3
<1>4. Distinct'
  BY <1>1 DEF Inv, DiskInv, Distinct, InProgress
<1>5. FileInv'
  <2>1. (path # None => path \in Inodes) /\ (tmp # None => tmp \in Inodes)
    BY DEF Inv, TypeOK, DiskOK, Entries, Inodes, None
  <2>2. (path # None => Sound(path)) /\ (tmp # None /\ (\E s \in Savers : saver[s].pc \in Opened) => Sound(tmp))
    BY DEF Inv, DiskInv, FileInv
  <2>3. path' # None => Sound(path)'
    BY <1>1, <2>1, <2>2, SoundStays
  <2>4. tmp' # None /\ (\E s \in Savers : saver'[s].pc \in Opened) => Sound(tmp)'
    BY <1>1, <2>1, <2>2, SoundStays
  <2> QED
    BY <1>1, <2>3, <2>4 DEF Inv, DiskInv, FileInv
<1>6. AloneInv'
  BY <1>1 DEF Inv, AloneInv, OwnerInv, InProgress, SnapshotIntact, Torn
<1> QED
  BY <1>2, <1>3, <1>4, <1>5, <1>6 DEF Inv, DiskInv

\* Before the server is ready nothing is saved.
LEMMA NotReady ==
    ASSUME Inv, phase # "ready", NEW s \in Savers
    PROVE  saver[s] = Idle /\ saver[s].pc = "idle" /\ ~InProgress(s)
BY DEF Inv, DiskInv, SaverInv, Idle, InProgress

\* Steps that change no record of a save.
LEMMA SavesAside ==
    ASSUME Inv, saver' = saver, saves' = saves, started' = started, reported' = reported,
           \A i \in DOMAIN objs : i \in DOMAIN objs' /\ objs'[i].type = objs[i].type /\ objs[i].val <= objs'[i].val,
           World(objs')
    PROVE  SavesOK' /\ OthersStay /\ \A s \in Savers : Carries(s)
<1>1. SavesOK' /\ OthersStay
  BY DEF Inv, TypeOK, SavesOK, OthersStay
<1>2. ASSUME NEW s \in Savers, saver[s].pc = "collect" PROVE Carries(s)
  <2> DEFINE n == saver[s].n
  <2>1. CollectInv(saver[s]) /\ n \in DOMAIN saves
    BY <1>2 DEF Inv, DiskInv, SaverInv
  <2>2. /\ DOMAIN saves[n].last \subseteq DOMAIN saves[n].called
        /\ \A i \in DOMAIN saves[n].called : i \in DOMAIN saves[n].last \/ i \in DOMAIN objs
    BY <2>1 DEF CollectInv
  <2>3. \A i \in DOMAIN objs' : objs'[i].val \in Nat
    BY DEF World, Entity
  <2>4. \A i \in DOMAIN saves[n].last : saves[n].last[i].val \in Nat
    BY <2>1 DEF Inv, TypeOK, SavesOK, SaveOK, World, Entity
  <2>5. \A i : Held(n, i)' = IF i \in DOMAIN saves[n].last THEN saves[n].last[i] ELSE objs'[i]
    BY DEF Held
  <2> HIDE DEF n
  <2>6. \A i \in DOMAIN saves[n].called : /\ Held(n, i)'.type = Held(n, i).type
                                          /\ Held(n, i).val <= Held(n, i)'.val /\ Held(n, i)'.val \in Nat
    BY <2>2, <2>3, <2>4, <2>5 DEF Held
  <2> QED
    BY <2>2, <2>6 DEF Carries, n
<1> QED
  BY <1>1, <1>2 DEF Carries

\* A load that only the rest of the program goes on beside.
LEMMA LoadAside ==
    ASSUME Inv, UNCHANGED <<phase, todo, restored, path, file>>, phase = "loading" => saves' = saves
    PROVE  LoadingInv'
BY DEF Inv, DiskInv, LoadingInv, Torn

LEMMA CreateEntityKeeps ==
    ASSUME Inv, NEW t \in Type, CreateEntity(t)
    PROVE  Inv'
<1> DEFINE c == counter + 1
           e == [type |-> t, val |-> 0]
<1>1. /\ counter < MaxID /\ counter' = c
      /\ objs' = IF c \in DOMAIN objs THEN objs ELSE With(objs, c, e)
      /\ UNCHANGED <<phase, loading, saver, disk, started, saves, reported, overlapped>>
  BY DEF CreateEntity, history
<1>2. counter \in 0 .. MaxID /\ MaxID \in Nat /\ World(objs)
  BY SnapshotAssumption DEF Inv, TypeOK, GameOK
<1>3. c \in IDs /\ c \in 0 .. MaxID /\ e \in Entity
  BY <1>1, <1>2 DEF IDs, Entity
<1>4. \A i \in DOMAIN objs : objs[i].val \in Nat
  BY <1>2 DEF World, Entity
<1> HIDE DEF c, e
<1>5. World(objs') /\ \A i \in DOMAIN objs : i \in DOMAIN objs' /\ objs'[i] = objs[i]
  <2>1. CASE c \in DOMAIN objs
    BY <1>1, <1>2, <2>1
  <2>2. CASE c \notin DOMAIN objs
    <3>1. /\ World(With(objs, c, e)) /\ DOMAIN With(objs, c, e) = DOMAIN objs \cup {c}
          /\ \A j \in DOMAIN objs : j # c => With(objs, c, e)[j] = objs[j]
      BY <1>2, <1>3, WithOne
    <3>2. objs' = With(objs, c, e)
      BY <1>1, <2>2
    <3> QED
      BY <2>2, <3>1, <3>2
  <2> QED
    BY <2>1, <2>2
<1>6. UNCHANGED <<todo, restored, path, file>>
  BY <1>1 DEF loading, disk
<1>7. GameOK'
  BY <1>1, <1>3, <1>5, <1>6 DEF Inv, TypeOK, GameOK
<1>8. SavesOK' /\ OthersStay /\ \A s \in Savers : Carries(s)
  BY <1>1, <1>4, <1>5, SavesAside
<1>9. LoadingInv'
  BY <1>1, <1>6, LoadAside
<1> QED
  BY <1>1, <1>7, <1>8, <1>9, DiskKeeps

\* What a collecting save holds keeps its last state.
LEMMA DeleteEntityKeeps ==
    ASSUME Inv, NEW i \in IDs, DeleteEntity(i)
    PROVE  Inv'
<1> DEFINE upd(n) == [saves[n] EXCEPT !.last = With(@, i, objs[i])]
<1>1. /\ Running /\ i \in DOMAIN objs /\ objs' = [x \in DOMAIN objs \ {i} |-> objs[x]]
      /\ saves' = [n \in DOMAIN saves |-> IF Holds(n, i) THEN upd(n) ELSE saves[n]]
      /\ UNCHANGED <<phase, counter, loading, saver, disk, started, reported, overlapped>>
  BY DEF DeleteEntity, Restrict
<1>2. World(objs) /\ objs[i] \in Entity /\ objs[i].val \in Nat
  BY <1>1 DEF Inv, TypeOK, GameOK, World, Entity
<1>3. World(objs') /\ DOMAIN objs' = DOMAIN objs \ {i} /\ \A x \in DOMAIN objs' : objs'[x] = objs[x]
  BY <1>1, <1>2 DEF World
<1>4. UNCHANGED <<todo, restored, path, file>>
  BY <1>1 DEF loading, disk
<1>5. GameOK'
  BY <1>1, <1>3, <1>4 DEF Inv, TypeOK, GameOK
<1>6. \A n \in DOMAIN saves :
        /\ saves[n] = [fp |-> saves[n].fp, called |-> saves[n].called, recs |-> saves[n].recs,
                       last |-> saves[n].last]
        /\ SaveOK(saves[n])
  BY DEF Inv, TypeOK, SavesOK
<1>7. ASSUME NEW n \in DOMAIN saves
      PROVE  /\ upd(n) = [fp |-> saves[n].fp, called |-> saves[n].called, recs |-> saves[n].recs,
                          last |-> With(saves[n].last, i, objs[i])]
             /\ SaveOK(upd(n))
  <2>1. World(With(saves[n].last, i, objs[i]))
    BY <1>2, <1>6, WithOne DEF SaveOK
  <2>2. upd(n) = [fp |-> saves[n].fp, called |-> saves[n].called, recs |-> saves[n].recs,
                  last |-> With(saves[n].last, i, objs[i])]
    BY <1>6
  <2> QED
    BY <1>6, <2>1, <2>2 DEF SaveOK
<1> HIDE DEF upd
<1>8. DOMAIN saves' = DOMAIN saves /\ \A n \in DOMAIN saves : saves'[n] = IF Holds(n, i) THEN upd(n) ELSE saves[n]
  BY <1>1
<1>9. SavesOK'
  <2>1. ASSUME NEW m \in DOMAIN saves'
        PROVE  /\ saves'[m] = [fp |-> saves'[m].fp, called |-> saves'[m].called, recs |-> saves'[m].recs,
                               last |-> saves'[m].last]
               /\ SaveOK(saves'[m])
    BY <1>6, <1>7, <1>8
  <2>2. saves' = [m \in DOMAIN saves' |-> saves'[m]]
    BY <1>1
  <2> QED
    BY <1>1, <1>8, <2>1, <2>2 DEF Inv, TypeOK, SavesOK
<1>10. OthersStay
  BY <1>8 DEF OthersStay, Holds
<1>11. ASSUME NEW s \in Savers, saver[s].pc = "collect" PROVE Carries(s)
  <2> DEFINE n == saver[s].n
             v == saves[n]
  <2>1. CollectInv(saver[s]) /\ n \in DOMAIN saves
    BY <1>11 DEF Inv, DiskInv, SaverInv
  <2>2. /\ DOMAIN v.last \subseteq DOMAIN v.called
        /\ \A x \in DOMAIN v.called : x \in DOMAIN v.last \/ x \in DOMAIN objs
    BY <2>1 DEF CollectInv
  <2>3. Holds(n, i) <=> i \in DOMAIN v.called /\ i \notin DOMAIN v.last
    BY <1>11 DEF Holds
  <2>4. \A x \in DOMAIN v.called : Held(n, x).val \in Nat
    BY <2>1, <2>2, HeldType DEF Inv
  <2>5. /\ World(v.last) /\ World(With(v.last, i, objs[i])) /\ DOMAIN With(v.last, i, objs[i]) = DOMAIN v.last \cup {i}
        /\ With(v.last, i, objs[i])[i] = objs[i]
        /\ \A x \in DOMAIN v.last : x # i => With(v.last, i, objs[i])[x] = v.last[x]
    <3>1. World(v.last)
      BY <1>6, <2>1 DEF SaveOK
    <3> HIDE DEF v
    <3> QED
      BY <1>2, <3>1, WithOne
  <2>6. saves'[n].called = v.called /\ saves'[n].recs = v.recs
        /\ saves'[n].last = IF Holds(n, i) THEN With(v.last, i, objs[i]) ELSE v.last
    BY <1>7, <1>8, <2>1
  <2> HIDE DEF n, v
  <2>7. \A x : Held(n, x)' = IF x \in DOMAIN saves'[n].last THEN saves'[n].last[x] ELSE objs'[x]
    BY <1>1 DEF Held, n
  <2>8. \A x : Held(n, x) = IF x \in DOMAIN v.last THEN v.last[x] ELSE objs[x]
    BY DEF Held, v
  <2>9. ASSUME NEW x \in DOMAIN v.called
        PROVE  (x \in DOMAIN saves'[n].last \/ x \in DOMAIN objs') /\ Held(n, x)' = Held(n, x)
    <3>1. CASE Holds(n, i)
      BY <1>3, <2>2, <2>3, <2>5, <2>6, <2>7, <2>8, <3>1
    <3>2. CASE ~Holds(n, i)
      BY <1>3, <2>2, <2>3, <2>6, <2>7, <2>8, <3>2
    <3> QED
      BY <3>1, <3>2
  <2>10. DOMAIN saves'[n].last \subseteq DOMAIN v.called
    BY <2>2, <2>3, <2>5, <2>6
  <2> QED
    BY <2>4, <2>6, <2>9, <2>10 DEF Carries, n, v
<1>12. LoadingInv'
  <2>1. phase = "loading" => saves' = saves
    <3>1. phase = "loading" => \A n \in DOMAIN saves : ~Holds(n, i)
      BY NotReady DEF Holds
    <3> QED
      BY <1>1, <3>1 DEF Inv, TypeOK, SavesOK
  <2> QED
    BY <1>1, <1>4, <2>1, LoadAside
<1>13. \A s \in Savers : Carries(s)
  BY <1>11 DEF Carries
<1> QED
  BY <1>1, <1>5, <1>9, <1>10, <1>12, <1>13, DiskKeeps

LEMMA SetValueKeeps ==
    ASSUME Inv, NEW i \in IDs, SetValue(i)
    PROVE  Inv'
<1>1. /\ i \in DOMAIN objs /\ objs' = [objs EXCEPT ![i].val = @ + 1]
      /\ UNCHANGED <<phase, counter, loading, saver, disk, started, saves, reported, overlapped>>
  BY DEF SetValue, history
<1>2. World(objs)
  BY DEF Inv, TypeOK, GameOK
<1>3. \A x \in DOMAIN objs : objs[x] \in Entity /\ objs[x].val \in Nat
  BY <1>2 DEF World, Entity
<1>4. /\ DOMAIN objs' = DOMAIN objs /\ objs' = [x \in DOMAIN objs |-> objs'[x]]
      /\ \A x \in DOMAIN objs : /\ objs'[x] \in Entity /\ objs'[x].type = objs[x].type
                                /\ objs[x].val <= objs'[x].val
  <2>1. DOMAIN objs' = DOMAIN objs /\ objs' = [x \in DOMAIN objs |-> objs'[x]]
    BY <1>1, <1>2 DEF World
  <2>2. objs'[i] = [objs[i] EXCEPT !.val = @ + 1]
    BY <1>1, <1>2
  <2>3. objs'[i] \in Entity /\ objs'[i].type = objs[i].type /\ objs'[i].val = objs[i].val + 1
    BY <1>1, <1>2, <1>3, <2>2 DEF Entity
  <2>4. \A x \in DOMAIN objs : x # i => objs'[x] = objs[x]
    BY <1>1
  <2> QED
    BY <1>3, <2>1, <2>3, <2>4
<1>5. World(objs')
  BY <1>2, <1>4 DEF World
<1>6. UNCHANGED <<todo, restored, path, file>>
  BY <1>1 DEF loading, disk
<1>7. GameOK'
  BY <1>1, <1>5, <1>6 DEF Inv, TypeOK, GameOK
<1>8. SavesOK' /\ OthersStay /\ \A s \in Savers : Carries(s)
  BY <1>1, <1>4, <1>5, SavesAside
<1>9. LoadingInv'
  BY <1>1, <1>6, LoadAside
<1> QED
  BY <1>1, <1>7, <1>8, <1>9, DiskKeeps

\* A step that changes none of the variables of the invariant.
LEMMA StutterKeeps ==
    ASSUME Inv, UNCHANGED <<phase, entities, todo, restored, saver, disk, started, saves, reported, overlapped>>
    PROVE  Inv'
<1>1. objs' = objs /\ counter' = counter /\ file' = file /\ path' = path
  BY DEF entities, disk
<1>2. GameOK' /\ World(objs)
  BY <1>1 DEF Inv, TypeOK, GameOK
<1>3. LoadingInv'
  BY <1>1, LoadAside
<1>4. \A i \in DOMAIN objs : objs[i].val \in Nat
  BY <1>2 DEF World, Entity
<1>5. SavesOK' /\ OthersStay /\ \A s \in Savers : Carries(s)
  BY <1>1, <1>2, <1>4, SavesAside
<1> QED
  BY <1>2, <1>3, <1>5, DiskKeeps

-----------------------------------------------------------------------------
(* Loading.                                                                 *)

\* A step before the server is ready that changes nothing of the saves.
LEMMA LoadStep ==
    ASSUME Inv, phase # "ready", UNCHANGED <<saver, disk, started, saves, reported, overlapped>>,
           GameOK', LoadingInv'
    PROVE  Inv'
<1>1. \A s \in Savers : Carries(s)
  BY NotReady DEF Carries
<1>2. SavesOK' /\ OthersStay
  BY DEF Inv, TypeOK, SavesOK, OthersStay
<1> QED
  BY <1>1, <1>2, DiskKeeps

\* What a file reads as is made of records of the saves it is from.
LEMMA ReadsWorlds ==
    ASSUME Inv, path # None, NEW f \in Reads(path)
    PROVE  World(f) /\ (~Torn(path) => f = saves[file[path].head].recs)
<1> DEFINE head == Records(file[path].head)
           tail == Records(file[path].tail)
<1>1. Sound(path)
  BY DEF Inv, DiskInv, FileInv
<1>2. World(NoEntities)
  BY DEF World, NoEntities
<1>3. World(head) /\ World(tail)
  BY <1>1, <1>2 DEF Sound, Inv, TypeOK, SavesOK, SaveOK, Records
<1>4. CASE ~Torn(path)
  BY <1>3, <1>4 DEF Reads, Records, Torn
<1>5. CASE Torn(path)
  <2>1. f \in UNION {{Mixed(head, Restrict(tail, t), h) : h \in SUBSET DOMAIN head} : t \in SUBSET DOMAIN tail}
    BY <1>5 DEF Reads
  <2> HIDE DEF head, tail
  <2>2. PICK t \in SUBSET DOMAIN tail, h \in SUBSET DOMAIN head : f = Mixed(head, Restrict(tail, t), h)
    BY <2>1
  <2>3. World(Restrict(tail, t))
    BY <1>3 DEF World, Restrict
  <2> QED
    BY <1>3, <1>5, <2>2, <2>3 DEF World, Mixed
<1> QED
  BY <1>4, <1>5

LEMMA LoadKeeps ==
    ASSUME Inv, Load
    PROVE  Inv'
<1>1. /\ phase = "setup" /\ phase' \in LoadSnapshotIfExists(LoadOutcomes(path))
      /\ todo' \in IF phase' = "loading" THEN Reads(path) ELSE {NoEntities}
      /\ UNCHANGED <<objs, counter, restored, saver, disk, file, path>>
      /\ UNCHANGED <<started, saves, reported, overlapped>>
  BY DEF Load, entities, history, disk
<1>2. phase' \in {"ready", "failed", "loading"} /\ (phase' = "loading" => path # None)
  BY <1>1 DEF LoadSnapshotIfExists, LoadOutcomes
<1>3. restored = {} /\ World(NoEntities)
  BY <1>1 DEF Inv, TypeOK, GameOK, World, NoEntities
<1>4. World(todo') /\ (phase' = "loading" /\ ~Torn(path) => todo' = saves[file[path].head].recs)
  BY <1>1, <1>2, <1>3, ReadsWorlds
<1>5. GameOK'
  BY <1>1, <1>2, <1>3, <1>4 DEF Inv, TypeOK, GameOK, Phases
<1>6. LoadingInv'
  <2> SUFFICES ASSUME phase' = "loading" PROVE LoadingInv'
    BY DEF LoadingInv
  <2> DEFINE recs == saves[file[path].head].recs
  <2>1. recs' = recs /\ path' = path /\ Torn(path)' = Torn(path) /\ restored' = {}
    BY <1>1, <1>3 DEF Torn
  <2>2. ~Torn(path) => todo' = recs
    BY <1>4
  <2> HIDE DEF recs
  <2>3. ~Torn(path) => restored' = {i \in DOMAIN recs \ DOMAIN todo' : recs[i].type \in Restorable}
    BY <2>1, <2>2
  <2> QED
    BY <1>2, <2>1, <2>2, <2>3 DEF LoadingInv, recs
<1> QED
  BY <1>1, <1>5, <1>6, LoadStep

LEMMA RestoreEntityKeeps ==
    ASSUME Inv, NEW i \in IDs, RestoreEntity(i)
    PROVE  Inv'
<1> DEFINE recs == saves[file[path].head].recs
<1>1. /\ phase = "loading" /\ i \in DOMAIN todo /\ todo' = [j \in DOMAIN todo \ {i} |-> todo[j]]
      /\ UNCHANGED <<counter, saver, disk, file, path, started, saves, reported, overlapped>>
  BY DEF RestoreEntity, history, disk, Restrict
<1>2. World(objs) /\ World(todo) /\ restored \subseteq IDs /\ todo[i] \in Entity
  BY <1>1 DEF Inv, TypeOK, GameOK, World
<1>3. World(todo') /\ DOMAIN todo' = DOMAIN todo \ {i} /\ \A j \in DOMAIN todo' : todo'[j] = todo[j]
  BY <1>1, <1>2 DEF World
<1>4. /\ path # None
      /\ ~Torn(path) =>
            /\ DOMAIN todo \subseteq DOMAIN recs /\ \A j \in DOMAIN todo : todo[j] = recs[j]
            /\ restored = {j \in DOMAIN recs \ DOMAIN todo : recs[j].type \in Restorable}
  BY <1>1 DEF Inv, DiskInv, LoadingInv
<1>5. recs' = recs /\ path' = path /\ Torn(path)' = Torn(path)
  BY <1>1 DEF Torn
<1> HIDE DEF recs
<1>6. CASE todo[i].type \notin Restorable
  <2>1. UNCHANGED <<phase, objs, restored>>
    BY <1>6 DEF RestoreEntity
  <2>2. GameOK'
    BY <1>1, <1>3, <2>1 DEF Inv, TypeOK, GameOK
  <2>3. ~Torn(path) => restored' = {j \in DOMAIN recs \ DOMAIN todo' : recs[j].type \in Restorable}
    BY <1>1, <1>3, <1>4, <1>6, <2>1
  <2>4. LoadingInv'
    BY <1>3, <1>4, <1>5, <2>1, <2>3 DEF LoadingInv, recs
  <2> QED
    BY <1>1, <2>2, <2>4, LoadStep
<1>7. CASE todo[i].type \in Restorable /\ i \in DOMAIN objs
  <2>1. phase' = "failed" /\ UNCHANGED <<objs, restored>>
    BY <1>7 DEF RestoreEntity
  <2>2. GameOK' /\ LoadingInv'
    BY <1>1, <1>3, <2>1 DEF Inv, TypeOK, GameOK, LoadingInv, Phases
  <2> QED
    BY <1>1, <2>2, LoadStep
<1>8. CASE todo[i].type \in Restorable /\ i \notin DOMAIN objs
  <2>1. objs' = With(objs, i, todo[i]) /\ restored' = restored \cup {i} /\ phase' = phase
    BY <1>8 DEF RestoreEntity
  <2>2. World(objs')
    BY <1>2, <2>1, WithOne
  <2>3. GameOK'
    BY <1>1, <1>2, <1>3, <2>1, <2>2 DEF Inv, TypeOK, GameOK
  <2>4. ~Torn(path) => restored' = {j \in DOMAIN recs \ DOMAIN todo' : recs[j].type \in Restorable}
    BY <1>1, <1>3, <1>4, <1>8, <2>1
  <2>5. LoadingInv'
    BY <1>3, <1>4, <1>5, <2>1, <2>4 DEF LoadingInv, recs
  <2> QED
    BY <1>1, <2>3, <2>5, LoadStep
<1> QED
  BY <1>6, <1>7, <1>8

\* A non-empty bounded set of numbers has a greatest element.
LEMMA Greatest ==
    ASSUME NEW n \in Nat, NEW S \in SUBSET (0 .. n), S # {}
    PROVE  \E x \in S : \A y \in S : y <= x
<1> DEFINE T == {y \in 0 .. n : \E x \in S : y <= x}
           g == [y \in T |-> y + 1]
<1>1. IsFiniteSet(T) /\ Cardinality(T) = Cardinality(T)
  <2>1. IsFiniteSet(0 .. n)
    BY FS_Interval
  <2> QED
    BY <2>1, FS_Subset
<1>2. 0 \in T
  <2>1. PICK x \in S : x \in 0 .. n
    OBVIOUS
  <2>2. 0 \in 0 .. n /\ 0 <= x
    BY <2>1
  <2> QED
    BY <2>2
<1>3. \E y \in T : y + 1 \notin T
  <2> SUFFICES ASSUME \A y \in T : y + 1 \in T PROVE FALSE
    OBVIOUS
  <2>1. \A y \in T : y \in Nat
    OBVIOUS
  <2> HIDE DEF T
  <2>2. g \in Injection(T, T)
    BY <2>1 DEF Injection, IsInjective
  <2>3. g \in Surjection(T, T)
    BY <1>1, <2>2, FS_Injection
  <2>4. PICK y \in T : g[y] = 0
    BY <1>2, <2>3 DEF Surjection
  <2> QED
    BY <2>1, <2>4
<1>4. PICK y \in T : y + 1 \notin T
  BY <1>3
<1>5. PICK x \in S : y <= x
  BY <1>4
<1>6. \A z \in S : z <= y
  BY <1>4
<1> QED
  BY <1>5, <1>6

\* The counter after a load is past every restored ID.
LEMMA CounterAfterLoad ==
    ASSUME Inv, phase = "loading"
    PROVE  NewCounter \in 0 .. MaxID /\ \A i \in restored : i <= NewCounter
<1>1. counter \in 0 .. MaxID /\ MaxID \in Nat /\ restored \in SUBSET (0 .. MaxID)
  BY SnapshotAssumption DEF Inv, TypeOK, GameOK, IDs
<1>2. CASE restored = {}
  BY <1>1, <1>2 DEF NewCounter
<1>3. CASE restored # {}
  <2>1. \E x \in restored : \A y \in restored : y <= x
    BY <1>1, <1>3, Greatest
  <2>2. \E x \in restored : \A y \in restored : x >= y
    BY <1>1, <2>1
  <2>3. NewCounter \in restored /\ \A y \in restored : NewCounter >= y
    BY <1>3, <2>2 DEF NewCounter, Max
  <2> QED
    BY <1>1, <2>3
<1> QED
  BY <1>2, <1>3

LEMMA LoadEndsKeeps ==
    ASSUME Inv, LoadEnds
    PROVE  Inv'
<1>1. /\ phase = "loading" /\ phase' = "ready" /\ counter' = NewCounter /\ restored' = {}
      /\ UNCHANGED <<objs, todo, saver, disk, started, saves, reported, overlapped>>
  BY DEF LoadEnds, history
<1>2. NewCounter \in 0 .. MaxID
  BY <1>1, CounterAfterLoad
<1>3. GameOK' /\ LoadingInv'
  BY <1>1, <1>2 DEF Inv, TypeOK, GameOK, LoadingInv, Phases
<1> QED
  BY <1>1, <1>3, LoadStep

-----------------------------------------------------------------------------
(* Saving.                                                                  *)

\* A file stays sound while the saves it is from stay as they are.
LEMMA SoundFrom ==
    ASSUME NEW x \in Inodes, Sound(x), file' = file,
           \A m \in {file[x].head, file[x].tail} : m # None => m \in DOMAIN saves' /\ saves'[m] = saves[m]
    PROVE  Sound(x)'
<1> SUFFICES ASSUME NEW m \in {file[x].head, file[x].tail}, m # None
             PROVE  m \in DOMAIN saves' /\ Complete(saves'[m])
  BY DEF Sound, Complete
<1> QED
  BY DEF Sound

\* The save that a step does not concern.
LEMMA OtherSaver ==
    ASSUME NEW o \in Savers, SaverInv(o), saver'[o] = saver[o], phase' = phase, objs' = objs,
           InProgress(o) => saver[o].n \in DOMAIN saves' /\ saves'[saver[o].n] = saves[saver[o].n],
           UnwrittenInv(saver[o])'
    PROVE  SaverInv(o)'
<1>1. CASE saver[o].pc = "idle"
  BY <1>1 DEF SaverInv
<1>2. CASE saver[o].pc # "idle"
  <2>1. /\ phase = "ready" /\ saver[o].n \in DOMAIN saves
        /\ saver[o].pc = "collect" => CollectInv(saver[o])
        /\ saver[o].pc \in Opened => Complete(saves[saver[o].n]) /\ saver[o].fd \in Inodes
    BY <1>2 DEF SaverInv
  <2>2. saver[o].n \in DOMAIN saves' /\ saves'[saver[o].n] = saves[saver[o].n]
    BY <1>2 DEF InProgress
  <2>3. saver[o].pc = "collect" => CollectInv(saver[o])'
    BY <2>1, <2>2 DEF CollectInv, Held
  <2>4. saver[o].pc \in Opened => Complete(saves[saver[o].n])' /\ saver[o].fd \in Inodes
    BY <2>1, <2>2 DEF Complete
  <2> QED
    BY <1>2, <2>1, <2>2, <2>3, <2>4 DEF SaverInv
<1> QED
  BY <1>1, <1>2

\* A save changes nothing of the game.
LEMMA GameAside ==
    ASSUME Inv, phase = "ready", UNCHANGED <<phase, objs, counter, todo, restored>>
    PROVE  GameOK' /\ LoadingInv'
BY DEF Inv, TypeOK, GameOK, LoadingInv

LEMMA TypesOf ==
    ASSUME Inv
    PROVE  /\ saver \in [Savers -> [pc : Steps, n : Nat, left : SUBSET IDs, fd : Entries]]
           /\ file \in [Inodes -> [head : Nat, tail : Nat]]
           /\ path \in Entries /\ tmp \in Entries /\ overlapped \in BOOLEAN
           /\ started \in Nat /\ reported \in Nat /\ DOMAIN saves \subseteq 1 .. started
BY DEF Inv, TypeOK, DiskOK, SavesOK

LEMMA StartSaveKeeps ==
    ASSUME Inv, NEW s \in Savers, StartSave(s), UNCHANGED <<phase, entities, todo, restored, disk, reported>>
    PROVE  Inv'
<1> DEFINE n == started + 1
           r == [pc |-> "collect", n |-> n, left |-> Saved, fd |-> None]
           v == [fp |-> fp, called |-> objs, recs |-> NoEntities, last |-> NoEntities]
<1>1. /\ phase = "ready" /\ ~InProgress(s) /\ saver' = [saver EXCEPT ![s] = r]
      /\ saves' = [m \in DOMAIN saves \cup {n} |-> IF m = n THEN v ELSE saves[m]]
      /\ started' = n /\ overlapped' = (overlapped \/ \E o \in Savers \ {s} : InProgress(o))
  BY DEF StartSave, Number, With
<1>2. UNCHANGED <<phase, objs, counter, todo, restored, file, path, tmp, reported>>
  BY DEF entities, disk
<1>3. /\ saver \in [Savers -> [pc : Steps, n : Nat, left : SUBSET IDs, fd : Entries]]
      /\ file \in [Inodes -> [head : Nat, tail : Nat]]
      /\ path \in Entries /\ tmp \in Entries /\ overlapped \in BOOLEAN
      /\ started \in Nat /\ reported \in Nat /\ DOMAIN saves \subseteq 1 .. started
  BY TypesOf
<1>4. GameOK' /\ LoadingInv'
  BY <1>1, <1>2, GameAside
<1>5. Saved \subseteq DOMAIN objs /\ Saved \subseteq IDs /\ World(objs)
  BY DEF Saved, Inv, TypeOK, GameOK, World
<1>6. SaveOK(v) /\ v.called = objs /\ DOMAIN v.recs = {} /\ DOMAIN v.last = {}
  BY <1>5 DEF SaveOK, World, NoEntities
<1>7. n \notin DOMAIN saves /\ n \in Nat /\ n > started /\ n # None
  BY <1>3 DEF None
<1>8. DOMAIN saves' = DOMAIN saves \cup {n} /\ saves'[n] = v /\ \A m \in DOMAIN saves : saves'[m] = saves[m]
  BY <1>1, <1>7
<1>9. SavesOK'
  <2>1. DOMAIN saves' \subseteq 1 .. started' /\ started' \in Nat /\ saves' = [m \in DOMAIN saves' |-> saves'[m]]
    BY <1>1, <1>3, <1>7, <1>8
  <2>2. v = [fp |-> v.fp, called |-> v.called, recs |-> v.recs, last |-> v.last]
    OBVIOUS
  <2> HIDE DEF v, n
  <2>3. ASSUME NEW m \in DOMAIN saves'
        PROVE  /\ saves'[m] = [fp |-> saves'[m].fp, called |-> saves'[m].called, recs |-> saves'[m].recs,
                               last |-> saves'[m].last]
               /\ SaveOK(saves'[m])
    <3>1. CASE m = n
      BY <1>6, <1>8, <2>2, <3>1
    <3>2. CASE m # n
      BY <1>8, <3>2 DEF Inv, TypeOK, SavesOK
    <3> QED
      BY <3>1, <3>2
  <2> QED
    BY <1>2, <1>3, <2>1, <2>3 DEF SavesOK
<1>10. r \in [pc : Steps, n : Nat, left : SUBSET IDs, fd : Entries]
  BY <1>5, <1>7 DEF Steps, Entries, None
<1> HIDE DEF n, v
<1>11. DiskOK'
  <2>1. saver' \in [Savers -> [pc : Steps, n : Nat, left : SUBSET IDs, fd : Entries]]
    BY <1>1, <1>3, <1>10
  <2>2. overlapped' \in BOOLEAN
    BY <1>1
  <2> QED
    BY <1>2, <1>3, <2>1, <2>2 DEF DiskOK
<1>12. saver'[s] = r /\ r.pc = "collect" /\ r.n = n /\ r.left = Saved /\ \A o \in Savers : o # s => saver'[o] = saver[o]
  BY <1>1, <1>3
<1> HIDE DEF r
<1>13. \A ino \in Inodes : file[ino].head # n /\ file[ino].tail # n /\ file[ino].head <= n /\ file[ino].tail <= n
  <2>1. \A ino \in Inodes : file[ino].head \in Nat /\ file[ino].tail \in Nat
    BY <1>3
  <2>2. \A ino \in Inodes : file[ino].head <= started /\ file[ino].tail <= started
    BY DEF Inv, DiskInv, FileInv
  <2> QED
    BY <1>3, <1>7, <2>1, <2>2
<1>14. SaverInv(s)'
  <2>1. CollectInv(saver[s])'
    <3>1. \A i \in DOMAIN objs : objs[i].val \in Nat
      BY <1>5 DEF World, Entity
    <3>2. saver'[s].left = Saved /\ saver'[s].n = n /\ saves'[n] = v /\ objs' = objs
      BY <1>2, <1>8, <1>12
    <3>3. \A i : Held(saver[s].n, i)' = objs[i]
      BY <1>6, <3>2 DEF Held
    <3>4. {i \in DOMAIN objs \ Saved : objs[i].type \in Persistent \cap Recorded} = {}
      BY DEF Saved
    <3>5. \A i \in Saved : i \in DOMAIN objs /\ objs[i].type \in Persistent
      BY DEF Saved
    <3> QED
      BY <1>6, <3>1, <3>2, <3>3, <3>4, <3>5 DEF CollectInv
  <2>2. UnwrittenInv(saver[s])'
    BY <1>2, <1>12, <1>13 DEF UnwrittenInv
  <2> QED
    BY <1>1, <1>2, <1>8, <1>12, <2>1, <2>2 DEF SaverInv, Opened
<1>15. ASSUME NEW o \in Savers, o # s PROVE SaverInv(o)'
  <2>1. SaverInv(o) /\ saver'[o] = saver[o]
    BY <1>12, <1>15 DEF Inv, DiskInv
  <2>2. InProgress(o) => saver[o].n \in DOMAIN saves /\ UnwrittenInv(saver[o])
    BY <2>1 DEF SaverInv, InProgress
  <2>3. UnwrittenInv(saver[o])'
    BY <1>2, <2>1, <2>2 DEF UnwrittenInv, InProgress
  <2> QED
    BY <1>2, <1>8, <2>1, <2>2, <2>3, OtherSaver
<1>16. Distinct'
  <2>1. \A o \in Savers : o # s /\ saver[o].pc # "idle" => saver[o].n # n
    BY <1>7 DEF Inv, DiskInv, SaverInv
  <2> QED
    BY <1>12, <2>1 DEF Inv, DiskInv, Distinct, InProgress
<1>17. FileInv'
  <2>1. \A ino \in Inodes : file'[ino].head <= started' /\ file'[ino].tail <= started'
    BY <1>1, <1>2, <1>13 DEF n
  <2>2. /\ path # None => path \in Inodes /\ Sound(path)
        /\ tmp # None => tmp \in Inodes
        /\ tmp # None /\ (\E o \in Savers : saver[o].pc \in Opened) => Sound(tmp)
    BY <1>3 DEF Inv, DiskInv, FileInv, Entries, Inodes, None
  <2>3. ASSUME NEW ino \in Inodes, Sound(ino) PROVE Sound(ino)'
    BY <1>2, <1>8, <2>3 DEF Sound, Complete
  <2>4. \A o \in Savers : saver'[o].pc \in Opened => saver[o].pc \in Opened
    BY <1>12 DEF Opened
  <2> QED
    BY <1>2, <2>1, <2>2, <2>3, <2>4 DEF FileInv
<1>18. AloneInv'
  <2> SUFFICES ASSUME ~overlapped' PROVE AloneInv'
    BY DEF AloneInv
  <2>1. ~overlapped /\ \A o \in Savers : o # s => saver[o].pc = "idle"
    BY <1>1 DEF InProgress
  <2>2. /\ tmp # None => tmp # path
        /\ reported <= started /\ SnapshotIntact
        /\ \A o \in Savers : OwnerInv(saver[o])
    BY <2>1 DEF Inv, AloneInv
  <2>3. \A o \in Savers : o # s => saver'[o].pc = "idle"
    BY <1>12, <2>1
  <2>4. \A o \in Savers : OwnerInv(saver[o])'
    <3>1. reported' < n
      BY <1>2, <1>3, <1>7, <2>2
    <3> QED
      BY <1>12, <2>3, <3>1 DEF OwnerInv, Opened
  <2>5. SnapshotIntact'
    BY <1>2, <2>1, <2>2 DEF SnapshotIntact, Torn
  <2>6. reported' <= started'
    BY <1>1, <1>2, <1>3, <2>2 DEF n
  <2>7. \A o, q \in Savers : InProgress(o)' /\ InProgress(q)' => o = q
    BY <2>3 DEF InProgress
  <2> QED
    BY <1>2, <2>2, <2>4, <2>5, <2>6, <2>7 DEF AloneInv
<1> QED
  BY <1>4, <1>9, <1>11, <1>14, <1>15, <1>16, <1>17, <1>18 DEF Inv, TypeOK, DiskInv

\* The record of one save changes.
LEMMA OneSaveChanges ==
    ASSUME Inv, NEW n \in DOMAIN saves, NEW w, SaveOK(w),
           w = [fp |-> w.fp, called |-> w.called, recs |-> w.recs, last |-> w.last],
           saves' = [saves EXCEPT ![n] = w], started' = started, reported' = reported
    PROVE  /\ SavesOK' /\ DOMAIN saves' = DOMAIN saves /\ saves'[n] = w
           /\ \A m \in DOMAIN saves : m # n => saves'[m] = saves[m]
<1>1. /\ started \in Nat /\ reported \in Nat /\ DOMAIN saves \subseteq 1 .. started
      /\ saves = [m \in DOMAIN saves |-> saves[m]]
      /\ \A m \in DOMAIN saves :
            /\ saves[m] = [fp |-> saves[m].fp, called |-> saves[m].called, recs |-> saves[m].recs,
                           last |-> saves[m].last]
            /\ SaveOK(saves[m])
  BY DEF Inv, TypeOK, SavesOK
<1>2. /\ DOMAIN saves' = DOMAIN saves /\ saves'[n] = w
      /\ \A m \in DOMAIN saves : m # n => saves'[m] = saves[m]
  BY <1>1
<1>3. saves' = [m \in DOMAIN saves' |-> saves'[m]]
  OBVIOUS
<1>4. ASSUME NEW m \in DOMAIN saves'
      PROVE  /\ saves'[m] = [fp |-> saves'[m].fp, called |-> saves'[m].called, recs |-> saves'[m].recs,
                             last |-> saves'[m].last]
             /\ SaveOK(saves'[m])
  <2>1. CASE m = n
    BY <1>2, <2>1
  <2>2. CASE m # n
    BY <1>1, <1>2, <2>2
  <2> QED
    BY <2>1, <2>2
<1> QED
  BY <1>1, <1>2, <1>3, <1>4 DEF SavesOK

\* Nothing is written, and no save that was not in a file before is in one now.
LEMMA FilesStay ==
    ASSUME Inv, OthersStay, UNCHANGED <<file, path, started>>, tmp' \in {tmp, None},
           (\E o \in Savers : saver'[o].pc \in Opened) => \E o \in Savers : saver[o].pc \in Opened
    PROVE  FileInv'
<1>1. (path # None => path \in Inodes) /\ (tmp # None => tmp \in Inodes)
  BY TypesOf DEF Entries, Inodes, None
<1>2. (path # None => Sound(path)) /\ (tmp # None /\ (\E o \in Savers : saver[o].pc \in Opened) => Sound(tmp))
  BY DEF Inv, DiskInv, FileInv
<1>3. path' # None => Sound(path)'
  BY <1>1, <1>2, SoundStays
<1>4. tmp' # None /\ (\E o \in Savers : saver'[o].pc \in Opened) => Sound(tmp)'
  BY <1>1, <1>2, SoundStays
<1> QED
  BY <1>3, <1>4 DEF Inv, DiskInv, FileInv

LEMMA CollectStep ==
    ASSUME Inv, NEW s \in Savers, NEW i \in IDs, Collect(s, i)
    PROVE  Inv'
<1> DEFINE r == saver[s]
           n == r.n
           v == saves[n]
           e == Held(n, i)
           R == IF e.type \in Recorded THEN With(v.recs, i, e) ELSE v.recs
           w == [v EXCEPT !.recs = R]
<1>1. /\ r.pc = "collect" /\ i \in r.left /\ saver' = [saver EXCEPT ![s].left = @ \ {i}]
      /\ saves' = IF e.type \in Recorded THEN [saves EXCEPT ![n].recs = With(@, i, e)] ELSE saves
      /\ UNCHANGED <<process, started, disk, reported, overlapped>>
  BY DEF Collect
<1>2. UNCHANGED <<phase, objs, counter, todo, restored, file, path, tmp, started, reported, overlapped>>
  BY <1>1 DEF process, entities, loading, disk
<1>3. /\ saver \in [Savers -> [pc : Steps, n : Nat, left : SUBSET IDs, fd : Entries]]
      /\ file \in [Inodes -> [head : Nat, tail : Nat]]
      /\ path \in Entries /\ tmp \in Entries /\ overlapped \in BOOLEAN
      /\ started \in Nat /\ reported \in Nat /\ DOMAIN saves \subseteq 1 .. started
  BY TypesOf
<1>4. phase = "ready" /\ n \in DOMAIN saves /\ CollectInv(r) /\ UnwrittenInv(r)
  BY <1>1 DEF Inv, DiskInv, SaverInv
<1>5. /\ v = [fp |-> v.fp, called |-> v.called, recs |-> v.recs, last |-> v.last] /\ SaveOK(v)
      /\ saves = [m \in DOMAIN saves |-> saves[m]]
  BY <1>4 DEF Inv, TypeOK, SavesOK
<1>6. /\ w.called = v.called /\ w.recs = R /\ w.last = v.last
      /\ w = [fp |-> w.fp, called |-> w.called, recs |-> w.recs, last |-> w.last]
  <2> HIDE DEF v, R
  <2> QED
    BY <1>5
<1>7. saves' = [saves EXCEPT ![n] = w]
  <2>1. CASE e.type \in Recorded
    BY <1>1, <1>4, <2>1
  <2>2. CASE e.type \notin Recorded
    <3>1. R = v.recs /\ saves' = saves
      BY <1>1, <2>2
    <3>2. w = v
      <4> HIDE DEF v, R
      <4> QED
        BY <1>5, <3>1
    <3> HIDE DEF w
    <3> QED
      BY <1>4, <1>5, <3>1, <3>2
  <2> QED
    BY <2>1, <2>2
<1>8. /\ r.left \subseteq DOMAIN v.called /\ \A x \in r.left : v.called[x].type \in Persistent
      /\ DOMAIN v.last \subseteq DOMAIN v.called
      /\ DOMAIN v.recs = {x \in DOMAIN v.called \ r.left : v.called[x].type \in Persistent \cap Recorded}
      /\ \A x \in DOMAIN v.called :
            /\ x \in DOMAIN v.last \/ x \in DOMAIN objs
            /\ Held(n, x).type = v.called[x].type /\ v.called[x].val <= Held(n, x).val
      /\ \A x \in DOMAIN v.recs :
            /\ v.recs[x].type = v.called[x].type
            /\ v.called[x].val <= v.recs[x].val /\ v.recs[x].val <= Held(n, x).val
  BY <1>4 DEF CollectInv
<1>9. e \in Entity /\ e.val \in Nat /\ i \in DOMAIN v.called
  BY <1>1, <1>4, <1>8, HeldType DEF Inv
<1>10. /\ World(With(v.recs, i, e)) /\ DOMAIN With(v.recs, i, e) = DOMAIN v.recs \cup {i}
       /\ With(v.recs, i, e)[i] = e /\ \A x \in DOMAIN v.recs : x # i => With(v.recs, i, e)[x] = v.recs[x]
  <2>1. World(v.recs)
    BY <1>5 DEF SaveOK
  <2> HIDE DEF v, e
  <2> QED
    BY <1>9, <2>1, WithOne
<1>11. SaveOK(w)
  <2>1. World(R)
    BY <1>5, <1>10 DEF SaveOK
  <2> HIDE DEF w
  <2> QED
    BY <1>5, <1>6, <2>1 DEF SaveOK
<1> HIDE DEF w
<1>12. /\ SavesOK' /\ DOMAIN saves' = DOMAIN saves /\ saves'[n] = w
       /\ \A m \in DOMAIN saves : m # n => saves'[m] = saves[m]
  BY <1>2, <1>4, <1>6, <1>7, <1>11, OneSaveChanges
<1>13. /\ saver'[s] = [r EXCEPT !.left = @ \ {i}] /\ \A o \in Savers : o # s => saver'[o] = saver[o]
       /\ saver' \in [Savers -> [pc : Steps, n : Nat, left : SUBSET IDs, fd : Entries]]
  BY <1>1, <1>3
<1>14. saver'[s].pc = "collect" /\ saver'[s].n = n /\ saver'[s].left = r.left \ {i}
  BY <1>1, <1>3, <1>13
<1>15. DiskOK'
  BY <1>2, <1>3, <1>13 DEF DiskOK
<1>16. GameOK' /\ LoadingInv'
  BY <1>2, <1>4, GameAside
\* What the save sees of its entities is as before.
<1>17. \A x : Held(saver[s].n, x)' = Held(n, x)
  <2>1. saves'[saver'[s].n].last = v.last /\ objs' = objs
    BY <1>2, <1>6, <1>12, <1>14
  <2> QED
    BY <2>1 DEF Held
<1> HIDE DEF v, R, e
<1>18. SaverInv(s)'
  <2>1. CollectInv(saver[s])'
    <3>1. saves'[saver'[s].n] = w
      BY <1>12, <1>14
    <3>2. DOMAIN R = {x \in DOMAIN v.called \ (r.left \ {i}) : v.called[x].type \in Persistent \cap Recorded}
      <4>1. e.type = v.called[i].type /\ v.called[i].type \in Persistent
        BY <1>1, <1>8, <1>9 DEF e
      <4>2. CASE e.type \in Recorded
        BY <1>8, <1>9, <1>10, <4>1, <4>2 DEF R
      <4>3. CASE e.type \notin Recorded
        BY <1>8, <4>1, <4>3 DEF R
      <4> QED
        BY <4>2, <4>3
    <3>3. \A x \in DOMAIN R : /\ R[x].type = v.called[x].type
                              /\ v.called[x].val <= R[x].val /\ R[x].val <= Held(n, x).val
      <4>1. e.type = v.called[i].type /\ v.called[i].val <= e.val /\ e.val <= e.val /\ e = Held(n, i)
        BY <1>8, <1>9 DEF e
      <4>2. CASE e.type \in Recorded
        BY <1>8, <1>10, <4>1, <4>2 DEF R
      <4>3. CASE e.type \notin Recorded
        BY <1>8, <4>3 DEF R
      <4> QED
        BY <4>2, <4>3
    <3>4. r.left \ {i} \subseteq DOMAIN v.called /\ \A x \in r.left \ {i} : v.called[x].type \in Persistent
      BY <1>8
    <3> HIDE DEF r, n
    <3> QED
      BY <1>2, <1>6, <1>8, <1>14, <1>17, <3>1, <3>2, <3>3, <3>4 DEF CollectInv
  <2>2. UnwrittenInv(saver[s])'
    BY <1>1, <1>2, <1>4, <1>14 DEF UnwrittenInv
  <2> HIDE DEF r, n
  <2> QED
    BY <1>2, <1>4, <1>12, <1>14, <2>1, <2>2 DEF SaverInv, Opened
<1> HIDE DEF r, n
<1>19. ASSUME NEW o \in Savers, o # s PROVE SaverInv(o)'
  <2>1. SaverInv(o) /\ saver'[o] = saver[o]
    BY <1>13, <1>19 DEF Inv, DiskInv
  <2>2. InProgress(o) => saver[o].n \in DOMAIN saves /\ UnwrittenInv(saver[o])
    BY <2>1 DEF SaverInv, InProgress
  <2>3. InProgress(o) => saver[o].n # n
    BY <1>1, <1>19 DEF Inv, DiskInv, Distinct, InProgress, n, r
  <2>4. UnwrittenInv(saver[o])'
    BY <1>2, <2>1, <2>2 DEF UnwrittenInv, InProgress
  <2> QED
    BY <1>2, <1>12, <2>1, <2>2, <2>3, <2>4, OtherSaver
<1>20. \A o \in Savers : saver'[o].pc = saver[o].pc /\ saver'[o].n = saver[o].n /\ saver'[o].fd = saver[o].fd
  BY <1>1, <1>3, <1>13, <1>14 DEF r, n
<1>21. Distinct'
  BY <1>20 DEF Inv, DiskInv, Distinct, InProgress
<1>22. FileInv'
  <2>1. OthersStay
    BY <1>1, <1>12 DEF OthersStay, r, n
  <2> QED
    BY <1>2, <1>20, <2>1, FilesStay
<1>23. AloneInv'
  BY <1>2, <1>20 DEF Inv, AloneInv, OwnerInv, InProgress, SnapshotIntact, Torn
<1> QED
  BY <1>12, <1>15, <1>16, <1>18, <1>19, <1>21, <1>22, <1>23 DEF Inv, TypeOK, DiskInv

\* There is an inode for a new temporary file.
LEMMA FreshInode ==
    ASSUME Inv, tmp = None
    PROVE  LET fresh == CHOOSE i \in Inodes : i \notin {path, tmp} \cup {saver[o].fd : o \in Savers}
           IN  fresh \in Inodes /\ fresh # path
<1> DEFINE taken == {path, tmp} \cup {saver[o].fd : o \in Savers}
           f == saver["auto"].fd
           g == saver["game"].fd
<1>1. taken = {path, 0, f, g}
  BY DEF Savers, None
<1>2. path \in 0 .. 4 /\ f \in 0 .. 4 /\ g \in 0 .. 4
  BY TypesOf DEF Entries, Savers
<1> HIDE DEF taken, f, g
<1>3. \E i \in {1, 2, 3, 4} : i # path /\ i # f /\ i # g
  BY <1>2
<1>4. \E i \in Inodes : i \notin taken
  BY <1>1, <1>3 DEF Inodes
<1>5. (CHOOSE i \in Inodes : i \notin taken) \in Inodes /\ (CHOOSE i \in Inodes : i \notin taken) \notin taken
  BY <1>4
<1> QED
  BY <1>1, <1>5 DEF taken

LEMMA OpenTempKeeps ==
    ASSUME Inv, NEW s \in Savers, OpenTemp(s)
    PROVE  Inv'
<1> DEFINE r == saver[s]
           n == r.n
           v == saves[n]
           F == [x \in DOMAIN v.called |-> Held(n, x)]
           w == [v EXCEPT !.last = F]
<1>1. r.pc = "collect" /\ r.left = {}
  BY DEF OpenTemp
<1>2. PICK ino \in Inodes :
        /\ ino = IF tmp = None THEN CHOOSE i \in Inodes : i \notin {path, tmp} \cup {saver[o].fd : o \in Savers}
                 ELSE tmp
        /\ tmp' = ino /\ file' = [file EXCEPT ![ino] = Empty]
        /\ saver' = [saver EXCEPT ![s].pc = "head", ![s].fd = ino]
  <2>1. tmp # None => tmp \in Inodes
    BY TypesOf DEF Entries, Inodes, None
  <2> QED
    BY <2>1, FreshInode DEF OpenTemp
<1>3. saves' = [saves EXCEPT ![n].last = F]
  BY DEF OpenTemp, Collected
<1>4. UNCHANGED <<phase, objs, counter, todo, restored, path, started, reported, overlapped>>
  BY DEF OpenTemp, process, entities, loading
<1>5. /\ saver \in [Savers -> [pc : Steps, n : Nat, left : SUBSET IDs, fd : Entries]]
      /\ file \in [Inodes -> [head : Nat, tail : Nat]]
      /\ path \in Entries /\ tmp \in Entries /\ overlapped \in BOOLEAN
      /\ started \in Nat /\ reported \in Nat /\ DOMAIN saves \subseteq 1 .. started
  BY TypesOf
<1>6. phase = "ready" /\ n \in DOMAIN saves /\ CollectInv(r) /\ UnwrittenInv(r)
  BY <1>1 DEF Inv, DiskInv, SaverInv
<1>7. /\ v = [fp |-> v.fp, called |-> v.called, recs |-> v.recs, last |-> v.last] /\ SaveOK(v)
  BY <1>6 DEF Inv, TypeOK, SavesOK
<1>8. saves' = [saves EXCEPT ![n] = w]
  BY <1>3, <1>6
<1>9. /\ w.called = v.called /\ w.recs = v.recs /\ w.last = F
      /\ w = [fp |-> w.fp, called |-> w.called, recs |-> w.recs, last |-> w.last]
  <2> HIDE DEF v, F
  <2> QED
    BY <1>7
<1>10. /\ DOMAIN v.recs = {x \in DOMAIN v.called : v.called[x].type \in Persistent \cap Recorded}
       /\ \A x \in DOMAIN v.called : x \in DOMAIN v.last \/ x \in DOMAIN objs
       /\ \A x \in DOMAIN v.recs :
            /\ v.recs[x].type = v.called[x].type
            /\ v.called[x].val <= v.recs[x].val /\ v.recs[x].val <= Held(n, x).val
  BY <1>1, <1>6 DEF CollectInv
<1>11. World(F) /\ DOMAIN F = DOMAIN v.called /\ \A x \in DOMAIN v.called : F[x] = Held(n, x)
  <2>1. \A x \in DOMAIN v.called : Held(n, x) \in Entity
    BY <1>6, <1>10, HeldType DEF Inv
  <2>2. World(v.called)
    BY <1>7 DEF SaveOK
  <2> HIDE DEF v, n
  <2> QED
    BY <2>1, <2>2 DEF World
<1>12. SaveOK(w)
  BY <1>7, <1>9, <1>11 DEF SaveOK
<1> HIDE DEF v, F, w
<1>13. Complete(w)
  BY <1>9, <1>10, <1>11 DEF Complete
<1>14. /\ SavesOK' /\ DOMAIN saves' = DOMAIN saves /\ saves'[n] = w
       /\ \A m \in DOMAIN saves : m # n => saves'[m] = saves[m]
  BY <1>4, <1>6, <1>8, <1>9, <1>12, OneSaveChanges
<1>15. /\ saver'[s] = [r EXCEPT !.pc = "head", !.fd = ino] /\ \A o \in Savers : o # s => saver'[o] = saver[o]
       /\ ino \in Entries
  BY <1>2, <1>5 DEF Inodes, Entries
<1>16. /\ saver'[s].pc = "head" /\ saver'[s].n = n /\ saver'[s].fd = ino
       /\ saver'[s] \in [pc : Steps, n : Nat, left : SUBSET IDs, fd : Entries]
  <2>1. r \in [pc : Steps, n : Nat, left : SUBSET IDs, fd : Entries]
    BY <1>5
  <2> HIDE DEF r
  <2> QED
    BY <1>15, <2>1 DEF Steps, n
<1>17. saver' \in [Savers -> [pc : Steps, n : Nat, left : SUBSET IDs, fd : Entries]]
  BY <1>2, <1>5, <1>15, <1>16
<1>18. n \in Nat /\ n # None /\ n \in 1 .. started
  BY <1>5, <1>6 DEF None
<1> HIDE DEF n, r
<1>19. /\ file'[ino] = Empty /\ \A x \in Inodes : x # ino => file'[x] = file[x]
       /\ file' \in [Inodes -> [head : Nat, tail : Nat]]
  BY <1>2, <1>5 DEF Empty, None
<1>20. file'[ino].head = None /\ file'[ino].tail = None
  BY <1>19 DEF Empty
<1>21. DiskOK'
  BY <1>2, <1>4, <1>5, <1>15, <1>17, <1>19 DEF DiskOK
<1>22. GameOK' /\ LoadingInv'
  BY <1>4, <1>6, GameAside
<1>23. SaverInv(s)'
  <2>1. UnwrittenInv(saver[s])'
    BY <1>1, <1>6, <1>16, <1>18, <1>19, <1>20 DEF UnwrittenInv, n, r
  <2> QED
    BY <1>2, <1>4, <1>6, <1>13, <1>14, <1>16, <2>1 DEF SaverInv, Complete
<1>24. ASSUME NEW o \in Savers, o # s PROVE SaverInv(o)'
  <2>1. SaverInv(o) /\ saver'[o] = saver[o]
    BY <1>15, <1>24 DEF Inv, DiskInv
  <2>2. InProgress(o) => saver[o].n \in DOMAIN saves /\ UnwrittenInv(saver[o]) /\ saver[o].n # None
    BY <1>5, <2>1 DEF SaverInv, InProgress, None
  <2>3. InProgress(o) => saver[o].n # n
    BY <1>1, <1>24 DEF Inv, DiskInv, Distinct, InProgress, n, r
  <2>4. UnwrittenInv(saver[o])'
    BY <1>19, <1>20, <2>1, <2>2 DEF UnwrittenInv, InProgress
  <2> QED
    BY <1>4, <1>14, <2>1, <2>2, <2>3, <2>4, OtherSaver
<1>25. Distinct'
  <2>1. \A o \in Savers : saver'[o].n = saver[o].n /\ (saver'[o].pc # "idle" => saver[o].pc # "idle")
    BY <1>1, <1>15, <1>16 DEF n, r
  <2> QED
    BY <2>1 DEF Inv, DiskInv, Distinct, InProgress
<1>26. FileInv'
  <2>1. \A x \in Inodes : file'[x].head <= started' /\ file'[x].tail <= started'
    BY <1>4, <1>5, <1>19, <1>20 DEF Inv, DiskInv, FileInv, None
  <2>2. OthersStay
    BY <1>1, <1>14 DEF OthersStay, r, n
  <2>3. Sound(ino)'
    BY <1>20 DEF Sound
  <2>4. path' # None => Sound(path)'
    <3>1. path # None => path \in Inodes /\ Sound(path)
      BY <1>5 DEF Inv, DiskInv, FileInv, Entries, Inodes, None
    <3>2. path # None /\ path # ino => Sound(path)'
      BY <1>4, <1>19, <2>2, <3>1, SoundStays
    <3> QED
      BY <1>4, <2>3, <3>2 DEF Sound
  <2>5. Sound(tmp)'
    BY <1>2, <2>3 DEF Sound
  <2> QED
    BY <2>1, <2>4, <2>5 DEF FileInv
<1>27. AloneInv'
  <2> SUFFICES ASSUME ~overlapped PROVE AloneInv'
    BY <1>4 DEF AloneInv
  <2>1. /\ \A o, q \in Savers : InProgress(o) /\ InProgress(q) => o = q
        /\ tmp # None => tmp # path
        /\ reported <= started /\ SnapshotIntact /\ OwnerInv(saver[s])
    BY DEF Inv, AloneInv
  <2>2. \A o \in Savers : o # s => saver'[o].pc = "idle"
    BY <1>1, <1>15, <2>1 DEF InProgress, r
  <2>3. ino # path
    BY <1>2, <2>1, FreshInode
  <2>4. \A o \in Savers : OwnerInv(saver[o])'
    <3>1. reported' < n
      BY <1>1, <1>4, <2>1 DEF OwnerInv, n, r
    <3>2. OwnerInv(saver[s])'
      BY <1>2, <1>16, <3>1 DEF OwnerInv
    <3>3. \A o \in Savers : o # s => OwnerInv(saver[o])'
      BY <2>2 DEF OwnerInv, Opened
    <3> QED
      BY <3>2, <3>3
  <2>5. SnapshotIntact'
    <3>1. path # None => file'[path] = file[path]
      <4>1. path # None => path \in Inodes
        BY <1>5 DEF Entries, Inodes, None
      <4> QED
        BY <1>19, <2>3, <4>1
    <3> QED
      BY <1>4, <2>1, <3>1 DEF SnapshotIntact, Torn
  <2>6. \A o, q \in Savers : InProgress(o)' /\ InProgress(q)' => o = q
    BY <2>2 DEF InProgress
  <2> QED
    BY <1>2, <1>4, <2>1, <2>3, <2>4, <2>5, <2>6 DEF AloneInv
<1> QED
  BY <1>14, <1>21, <1>22, <1>23, <1>24, <1>25, <1>26, <1>27 DEF Inv, TypeOK, DiskInv

\* A step of one save that leaves the records of the saves alone.
LEMMA SaverSteps ==
    ASSUME Inv, NEW s \in Savers, NEW step \in Steps, saver[s].pc # "idle", step # "idle",
           saver' = [saver EXCEPT ![s].pc = step],
           UNCHANGED <<phase, objs, counter, todo, restored, started, saves, reported, overlapped>>
    PROVE  /\ GameOK' /\ LoadingInv' /\ SavesOK' /\ Distinct'
           /\ saver' \in [Savers -> [pc : Steps, n : Nat, left : SUBSET IDs, fd : Entries]]
           /\ saver'[s].pc = step /\ \A o \in Savers : o # s => saver'[o] = saver[o]
           /\ \A o \in Savers : saver'[o].n = saver[o].n /\ saver'[o].fd = saver[o].fd
           /\ \A o \in Savers : InProgress(o)' <=> InProgress(o)
<1>1. saver \in [Savers -> [pc : Steps, n : Nat, left : SUBSET IDs, fd : Entries]]
  BY TypesOf
<1>2. phase = "ready"
  BY DEF Inv, DiskInv, SaverInv
<1>3. GameOK' /\ LoadingInv'
  BY <1>2, GameAside
<1>4. SavesOK'
  BY DEF Inv, TypeOK, SavesOK
<1>5. saver'[s] = [saver[s] EXCEPT !.pc = step] /\ \A o \in Savers : o # s => saver'[o] = saver[o]
  BY <1>1
<1>6. saver[s] \in [pc : Steps, n : Nat, left : SUBSET IDs, fd : Entries]
  BY <1>1
<1>7. /\ saver'[s].pc = step /\ saver'[s].n = saver[s].n /\ saver'[s].fd = saver[s].fd
      /\ saver'[s] \in [pc : Steps, n : Nat, left : SUBSET IDs, fd : Entries]
  BY <1>5, <1>6
<1>8. saver' \in [Savers -> [pc : Steps, n : Nat, left : SUBSET IDs, fd : Entries]]
  BY <1>1, <1>5, <1>7
<1>9. /\ \A o \in Savers : saver'[o].n = saver[o].n /\ saver'[o].fd = saver[o].fd
      /\ \A o \in Savers : InProgress(o)' <=> InProgress(o)
  BY <1>5, <1>7 DEF InProgress
<1>10. Distinct'
  BY <1>9 DEF Inv, DiskInv, Distinct
<1> QED
  BY <1>3, <1>4, <1>5, <1>7, <1>8, <1>9, <1>10

LEMMA WriteFileKeeps ==
    ASSUME Inv, NEW s \in Savers, WriteFile(s)
    PROVE  Inv'
<1> DEFINE r == saver[s]
           n == r.n
           fd == r.fd
           step == IF r.pc = "head" THEN "tail" ELSE "rename"
<1>1. /\ r.pc \in {"head", "tail"} /\ file' = [file EXCEPT ![fd][r.pc] = n]
      /\ saver' = [saver EXCEPT ![s].pc = step]
      /\ UNCHANGED <<phase, objs, counter, todo, restored, path, tmp, started, saves, reported, overlapped>>
  BY DEF WriteFile, process, entities, loading, history
<1>2. /\ saver \in [Savers -> [pc : Steps, n : Nat, left : SUBSET IDs, fd : Entries]]
      /\ file \in [Inodes -> [head : Nat, tail : Nat]]
      /\ path \in Entries /\ tmp \in Entries /\ overlapped \in BOOLEAN
      /\ started \in Nat /\ reported \in Nat /\ DOMAIN saves \subseteq 1 .. started
  BY TypesOf
<1>3. phase = "ready" /\ n \in DOMAIN saves /\ Complete(saves[n]) /\ fd \in Inodes /\ UnwrittenInv(r)
  BY <1>1 DEF Inv, DiskInv, SaverInv, Opened
<1>4. n \in Nat /\ n # None /\ n <= started
  BY <1>2, <1>3 DEF None
<1>5. /\ GameOK' /\ LoadingInv' /\ SavesOK' /\ Distinct'
      /\ saver' \in [Savers -> [pc : Steps, n : Nat, left : SUBSET IDs, fd : Entries]]
      /\ saver'[s].pc = step /\ \A o \in Savers : o # s => saver'[o] = saver[o]
      /\ \A o \in Savers : saver'[o].n = saver[o].n /\ saver'[o].fd = saver[o].fd
      /\ \A o \in Savers : InProgress(o)' <=> InProgress(o)
  <2>1. step \in Steps /\ step # "idle" /\ saver[s].pc # "idle"
    BY <1>1 DEF Steps
  <2> HIDE DEF step
  <2> QED
    BY <1>1, <2>1, SaverSteps
<1> HIDE DEF r, n, fd
\* The file: one part of it is now the save's.
<1>6. /\ \A x \in Inodes : x # fd => file'[x] = file[x]
      /\ file' \in [Inodes -> [head : Nat, tail : Nat]]
      /\ r.pc = "head" => file'[fd].head = n /\ file'[fd].tail = file[fd].tail
      /\ r.pc = "tail" => file'[fd].tail = n /\ file'[fd].head = file[fd].head
  <2>1. file[fd] \in [head : Nat, tail : Nat]
    BY <1>2, <1>3
  <2>2. CASE r.pc = "head"
    <3>1. file' = [file EXCEPT ![fd] = [file[fd] EXCEPT !.head = n]]
      BY <1>1, <2>2
    <3>2. [file[fd] EXCEPT !.head = n] \in [head : Nat, tail : Nat]
      BY <1>4, <2>1
    <3> QED
      BY <1>2, <1>3, <2>1, <2>2, <3>1, <3>2
  <2>3. CASE r.pc = "tail"
    <3>1. file' = [file EXCEPT ![fd] = [file[fd] EXCEPT !.tail = n]]
      BY <1>1, <2>3
    <3>2. [file[fd] EXCEPT !.tail = n] \in [head : Nat, tail : Nat]
      BY <1>4, <2>1
    <3> QED
      BY <1>2, <1>3, <2>1, <2>3, <3>1, <3>2
  <2> QED
    BY <1>1, <2>2, <2>3
<1>7. DiskOK'
  BY <1>1, <1>2, <1>5, <1>6 DEF DiskOK
\* What the other parts hold is not n.
<1>8. \A x \in Inodes : /\ r.pc = "head" => file[x].head # n /\ file[x].tail # n
                        /\ r.pc = "tail" => file[x].tail # n
  BY <1>1, <1>3 DEF UnwrittenInv, n
<1>9. SaverInv(s)'
  <2>1. UnwrittenInv(saver[s])'
    <3>1. r.pc = "head" => \A x \in Inodes : file'[x].tail # n
      BY <1>6, <1>8
    <3>2. saver'[s].n = n
      BY <1>5 DEF n, r
    <3> QED
      BY <1>1, <1>5, <3>1, <3>2 DEF UnwrittenInv
  <2> QED
    BY <1>1, <1>3, <1>5, <2>1 DEF SaverInv, Complete, Opened, n, r, fd
<1>10. ASSUME NEW o \in Savers, o # s PROVE SaverInv(o)'
  <2>1. SaverInv(o) /\ saver'[o] = saver[o]
    BY <1>5, <1>10 DEF Inv, DiskInv
  <2>2. InProgress(o) => saver[o].n \in DOMAIN saves /\ UnwrittenInv(saver[o])
    BY <2>1 DEF SaverInv, InProgress
  <2>3. InProgress(o) => saver[o].n # n
    BY <1>1, <1>10 DEF Inv, DiskInv, Distinct, InProgress, n, r
  <2>4. UnwrittenInv(saver[o])'
    BY <1>1, <1>6, <2>1, <2>2, <2>3 DEF UnwrittenInv, InProgress
  <2> QED
    BY <1>1, <2>1, <2>2, <2>4, OtherSaver
<1>11. FileInv'
  <2>1. \A x \in Inodes : file'[x].head <= started' /\ file'[x].tail <= started'
    BY <1>1, <1>2, <1>4, <1>6 DEF Inv, DiskInv, FileInv
  <2>2. ASSUME NEW x \in Inodes, Sound(x) PROVE Sound(x)'
    <3>1. \A m \in {file'[x].head, file'[x].tail} : m = n \/ m \in {file[x].head, file[x].tail}
      BY <1>1, <1>3, <1>6
    <3>2. n \in DOMAIN saves /\ Complete(saves[n]) /\ saves' = saves
      BY <1>1, <1>3
    <3>3. ASSUME NEW m \in {file'[x].head, file'[x].tail}, m # None
          PROVE  m \in DOMAIN saves' /\ Complete(saves'[m])
      BY <2>2, <3>1, <3>2, <3>3 DEF Sound
    <3> QED
      BY <3>3 DEF Sound, Complete
  <2>3. /\ path # None => path \in Inodes /\ Sound(path)
        /\ tmp # None => tmp \in Inodes /\ Sound(tmp)
    <3>1. \E o \in Savers : saver[o].pc \in Opened
      BY <1>1 DEF Opened, r
    <3> QED
      BY <1>2, <3>1 DEF Inv, DiskInv, FileInv, Entries, Inodes, None
  <2>4. (path' # None => Sound(path)') /\ (tmp' # None => Sound(tmp)')
    BY <1>1, <2>2, <2>3 DEF Sound
  <2> QED
    BY <2>1, <2>4 DEF FileInv
<1>12. AloneInv'
  <2> SUFFICES ASSUME ~overlapped PROVE AloneInv'
    BY <1>1 DEF AloneInv
  <2>1. /\ \A o, q \in Savers : InProgress(o) /\ InProgress(q) => o = q
        /\ tmp # None => tmp # path
        /\ reported <= started /\ SnapshotIntact /\ OwnerInv(r)
    BY DEF Inv, AloneInv, r
  <2>2. \A o \in Savers : o # s => saver'[o].pc = "idle"
    BY <1>1, <1>5, <2>1 DEF InProgress, r
  <2>3. tmp = fd /\ fd # path /\ reported < n /\ (r.pc = "tail" => file[fd].head = n)
    BY <1>1, <1>3, <2>1 DEF OwnerInv, Opened, n, fd, Inodes, None
  <2>4. saver'[s].n = n /\ saver'[s].fd = fd /\ saver'[s].pc = step
    BY <1>5 DEF n, r, fd
  <2>5. OwnerInv(saver[s])'
    BY <1>1, <1>6, <2>3, <2>4 DEF OwnerInv
  <2>6. \A o \in Savers : o # s => OwnerInv(saver[o])'
    BY <2>2 DEF OwnerInv, Opened
  <2>7. SnapshotIntact'
    <3>1. path # None => file'[path] = file[path]
      BY <1>2, <1>6, <2>3 DEF Entries, Inodes, None
    <3> QED
      BY <1>1, <2>1, <3>1 DEF SnapshotIntact, Torn
  <2>8. \A o, q \in Savers : InProgress(o)' /\ InProgress(q)' => o = q
    BY <1>5, <2>1
  <2>9. \A o \in Savers : OwnerInv(saver[o])'
    BY <2>5, <2>6
  <2> QED
    BY <1>1, <2>1, <2>7, <2>8, <2>9 DEF AloneInv
<1> QED
  BY <1>5, <1>7, <1>9, <1>10, <1>11, <1>12 DEF Inv, TypeOK, DiskInv

\* A save that writes no more.
LEMMA SaverLeaves ==
    ASSUME Inv, NEW s \in Savers, NEW step \in {"remove", "done", "error"}, saver[s].pc # "idle",
           saver' = [saver EXCEPT ![s].pc = step], file' = file, path' \in Entries, tmp' \in Entries,
           UNCHANGED <<phase, objs, counter, todo, restored, started, saves, reported, overlapped>>
    PROVE  /\ TypeOK' /\ LoadingInv' /\ Distinct' /\ \A o \in Savers : SaverInv(o)'
           /\ saver'[s].pc = step /\ \A o \in Savers : o # s => saver'[o] = saver[o]
           /\ \A o \in Savers : saver'[o].n = saver[o].n
           /\ \A o \in Savers : InProgress(o)' <=> InProgress(o)
<1>1. /\ GameOK' /\ LoadingInv' /\ SavesOK' /\ Distinct'
      /\ saver' \in [Savers -> [pc : Steps, n : Nat, left : SUBSET IDs, fd : Entries]]
      /\ saver'[s].pc = step /\ \A o \in Savers : o # s => saver'[o] = saver[o]
      /\ \A o \in Savers : saver'[o].n = saver[o].n /\ saver'[o].fd = saver[o].fd
      /\ \A o \in Savers : InProgress(o)' <=> InProgress(o)
  <2>1. step \in Steps /\ step # "idle"
    BY DEF Steps
  <2> QED
    BY <2>1, SaverSteps
<1>2. DiskOK'
  <2>1. file \in [Inodes -> [head : Nat, tail : Nat]] /\ overlapped \in BOOLEAN
    BY TypesOf
  <2> QED
    BY <1>1, <2>1 DEF DiskOK
<1>3. SaverInv(s)'
  <2>1. phase = "ready" /\ saver[s].n \in DOMAIN saves
    BY DEF Inv, DiskInv, SaverInv
  <2>2. UnwrittenInv(saver[s])'
    BY <1>1 DEF UnwrittenInv
  <2> QED
    BY <1>1, <2>1, <2>2 DEF SaverInv, Opened
<1>4. ASSUME NEW o \in Savers, o # s PROVE SaverInv(o)'
  <2>1. SaverInv(o) /\ saver'[o] = saver[o]
    BY <1>1, <1>4 DEF Inv, DiskInv
  <2>2. InProgress(o) => saver[o].n \in DOMAIN saves /\ UnwrittenInv(saver[o])
    BY <2>1 DEF SaverInv, InProgress
  <2>3. UnwrittenInv(saver[o])'
    BY <2>1, <2>2 DEF UnwrittenInv, InProgress
  <2> QED
    BY <2>1, <2>2, <2>3, OtherSaver
<1> QED
  BY <1>1, <1>2, <1>3, <1>4 DEF TypeOK

LEMMA RenameKeeps ==
    ASSUME Inv, NEW s \in Savers, Rename(s)
    PROVE  Inv'
<1>1. /\ saver[s].pc = "rename" /\ file' = file
      /\ UNCHANGED <<phase, objs, counter, todo, restored, started, saves, reported, overlapped>>
  BY DEF Rename, process, entities, loading, history
<1>2. path \in Entries /\ tmp \in Entries /\ None \in Entries /\ reported \in Nat /\ saver[s].n \in Nat
  BY TypesOf DEF None, Entries
<1>3. PICK step \in {"remove", "done"} :
        /\ saver' = [saver EXCEPT ![s].pc = step]
        /\ step = "remove" => tmp = None /\ path' = path /\ tmp' = tmp
        /\ step = "done" => tmp # None /\ path' = tmp /\ tmp' = None
  BY DEF Rename
<1>4. /\ TypeOK' /\ LoadingInv' /\ Distinct' /\ \A o \in Savers : SaverInv(o)'
      /\ saver'[s].pc = step /\ \A o \in Savers : o # s => saver'[o] = saver[o]
      /\ \A o \in Savers : saver'[o].n = saver[o].n
      /\ \A o \in Savers : InProgress(o)' <=> InProgress(o)
  <2>1. step \in {"remove", "done", "error"} /\ saver[s].pc # "idle" /\ path' \in Entries /\ tmp' \in Entries
    BY <1>1, <1>2, <1>3
  <2> QED
    BY <1>1, <1>3, <2>1, SaverLeaves
<1>5. FileInv'
  <2>1. tmp' = None
    BY <1>3
  <2>2. (path # None => Sound(path)) /\ (tmp # None => Sound(tmp))
    <3>1. \E o \in Savers : saver[o].pc \in Opened
      BY <1>1 DEF Opened
    <3> QED
      BY <3>1 DEF Inv, DiskInv, FileInv
  <2>3. path' # None => Sound(path)'
    <3>1. path' # None => path' \in {path, tmp} /\ path' \in Inodes
      BY <1>2, <1>3 DEF Entries, Inodes, None
    <3>2. path' # None => /\ Sound(path')
                          /\ \A m \in {file[path'].head, file[path'].tail} :
                                m # None => m \in DOMAIN saves' /\ saves'[m] = saves[m]
      BY <1>1, <1>3, <2>2, <3>1 DEF Sound
    <3> QED
      BY <1>1, <3>1, <3>2, SoundFrom
  <2> QED
    BY <1>1, <2>1, <2>3 DEF Inv, DiskInv, FileInv
<1>6. AloneInv'
  <2> SUFFICES ASSUME ~overlapped PROVE AloneInv'
    BY <1>1 DEF AloneInv
  <2>1. /\ \A o, q \in Savers : InProgress(o) /\ InProgress(q) => o = q
        /\ reported <= started /\ OwnerInv(saver[s])
    BY DEF Inv, AloneInv
  <2>2. \A o \in Savers : o # s => saver'[o].pc = "idle"
    BY <1>1, <1>4, <2>1 DEF InProgress
  <2>3. /\ tmp = saver[s].fd /\ tmp # None /\ reported < saver[s].n
        /\ file[tmp].head = saver[s].n /\ file[tmp].tail = saver[s].n
    <3>1. saver[s].fd \in Inodes
      BY <1>1 DEF Inv, DiskInv, SaverInv, Opened
    <3> QED
      BY <1>1, <2>1, <3>1 DEF OwnerInv, Opened, Inodes, None
  <2>4. step = "done" /\ path' = tmp /\ tmp' = None
    BY <1>3, <2>3
  <2>5. saver[s].n # None
    BY <1>1, TypesOf DEF Inv, DiskInv, SaverInv, None
  <2>6. SnapshotIntact'
    <3>1. file'[path'].head = saver[s].n /\ file'[path'].tail = saver[s].n /\ reported' = reported
      BY <1>1, <2>3, <2>4
    <3>2. saver[s].n >= reported
      BY <1>2, <2>3
    <3> QED
      BY <2>3, <2>4, <2>5, <3>1, <3>2 DEF SnapshotIntact, Torn
  <2>7. OwnerInv(saver[s])'
    BY <1>1, <1>4, <2>3, <2>4 DEF OwnerInv, Opened
  <2>8. \A o \in Savers : o # s => OwnerInv(saver[o])'
    BY <2>2 DEF OwnerInv, Opened
  <2>9. \A o \in Savers : OwnerInv(saver[o])'
    BY <2>7, <2>8
  <2>10. \A o, q \in Savers : InProgress(o)' /\ InProgress(q)' => o = q
    BY <1>4, <2>1
  <2> QED
    BY <1>1, <2>1, <2>4, <2>6, <2>9, <2>10 DEF AloneInv
<1> QED
  BY <1>4, <1>5, <1>6 DEF Inv, DiskInv

LEMMA SaveEndsKeeps ==
    ASSUME Inv, NEW s \in Savers, RemoveTemp(s) \/ SaveFails(s)
    PROVE  Inv'
<1>1. /\ saver[s].pc \in {"remove", "collect", "head", "tail"} /\ file' = file /\ path' = path
      /\ saver' = [saver EXCEPT ![s].pc = "error"]
      /\ UNCHANGED <<phase, objs, counter, todo, restored, started, saves, reported, overlapped>>
  BY DEF RemoveTemp, SaveFails, process, entities, loading, history, disk
<1>2. tmp' \in {tmp, None} /\ (tmp' # tmp => saver[s].pc = "remove")
  BY DEF RemoveTemp, SaveFails, disk
<1>3. path \in Entries /\ tmp \in Entries /\ None \in Entries
  BY TypesOf DEF None, Entries
<1>4. /\ TypeOK' /\ LoadingInv' /\ Distinct' /\ \A o \in Savers : SaverInv(o)'
      /\ saver'[s].pc = "error" /\ \A o \in Savers : o # s => saver'[o] = saver[o]
      /\ \A o \in Savers : saver'[o].n = saver[o].n
      /\ \A o \in Savers : InProgress(o)' <=> InProgress(o)
  <2>1. saver[s].pc # "idle" /\ path' \in Entries /\ tmp' \in Entries
    BY <1>1, <1>2, <1>3
  <2> QED
    BY <1>1, <2>1, SaverLeaves
<1>5. FileInv'
  <2>1. \A o \in Savers : saver'[o].pc \in Opened => saver[o].pc \in Opened
    BY <1>4 DEF Opened
  <2> QED
    BY <1>1, <1>2, <2>1, FilesStay DEF OthersStay
<1>6. AloneInv'
  <2> SUFFICES ASSUME ~overlapped PROVE AloneInv'
    BY <1>1 DEF AloneInv
  <2>1. /\ \A o, q \in Savers : InProgress(o) /\ InProgress(q) => o = q
        /\ tmp # None => tmp # path
        /\ reported <= started /\ SnapshotIntact /\ OwnerInv(saver[s])
    BY DEF Inv, AloneInv
  <2>2. \A o \in Savers : o # s => saver'[o].pc = "idle"
    BY <1>1, <1>4, <2>1 DEF InProgress
  <2>3. SnapshotIntact'
    BY <1>1, <2>1 DEF SnapshotIntact, Torn
  <2>4. \A o \in Savers : OwnerInv(saver[o])'
    BY <1>4, <2>2 DEF OwnerInv, Opened
  <2>5. \A o, q \in Savers : InProgress(o)' /\ InProgress(q)' => o = q
    BY <1>4, <2>1
  <2> QED
    BY <1>1, <1>2, <2>1, <2>3, <2>4, <2>5 DEF AloneInv
<1> QED
  BY <1>4, <1>5, <1>6 DEF Inv, DiskInv

\* Saves are over, or cut off: only what they left on disk is kept of them.
LEMMA SavesEnd ==
    ASSUME Inv, \A o \in Savers : saver'[o] = saver[o] \/ saver'[o] = Idle,
           saver' = [o \in Savers |-> saver'[o]], saves' = Kept(saver'),
           UNCHANGED <<disk, started, overlapped>>, reported' \in Nat
    PROVE  /\ SavesOK' /\ DiskOK' /\ Distinct' /\ FileInv'
           /\ \A m \in DOMAIN saves' : m \in DOMAIN saves /\ saves'[m] = saves[m]
           /\ \A o \in Savers : InProgress(o)' => saver'[o] = saver[o] /\ saver[o].n \in DOMAIN saves'
<1> DEFINE busy == {saver'[o].n : o \in Savers} \ {None}
           inodes == ({path} \cup IF busy = {} THEN {} ELSE {tmp}) \ {None}
           K == DOMAIN saves \cap (busy \cup UNION {{file[ino].head, file[ino].tail} : ino \in inodes})
<1>1. saves' = [m \in K |-> saves[m]] /\ file' = file /\ path' = path /\ tmp' = tmp
  BY DEF Kept, Restrict, disk
<1>2. /\ saver \in [Savers -> [pc : Steps, n : Nat, left : SUBSET IDs, fd : Entries]]
      /\ file \in [Inodes -> [head : Nat, tail : Nat]]
      /\ path \in Entries /\ tmp \in Entries /\ overlapped \in BOOLEAN
      /\ started \in Nat /\ DOMAIN saves \subseteq 1 .. started
  BY TypesOf
<1>3. /\ K \subseteq DOMAIN saves /\ \A o \in Savers : saver'[o].n \in DOMAIN saves => saver'[o].n \in K
      /\ path # None => \A m \in {file[path].head, file[path].tail} : m \in DOMAIN saves => m \in K
      /\ tmp # None /\ busy # {} => \A m \in {file[tmp].head, file[tmp].tail} : m \in DOMAIN saves => m \in K
  <2>1. \A m \in DOMAIN saves : m # None
    BY <1>2 DEF None
  <2> QED
    BY <2>1
<1> HIDE DEF K, inodes
<1>4. DOMAIN saves' = K /\ \A m \in DOMAIN saves' : m \in DOMAIN saves /\ saves'[m] = saves[m]
  BY <1>1, <1>3
<1>5. SavesOK'
  <2>1. /\ \A m \in DOMAIN saves :
              /\ saves[m] = [fp |-> saves[m].fp, called |-> saves[m].called, recs |-> saves[m].recs,
                             last |-> saves[m].last]
              /\ SaveOK(saves[m])
    BY DEF Inv, TypeOK, SavesOK
  <2>2. \A m \in DOMAIN saves' :
              /\ saves'[m] = [fp |-> saves'[m].fp, called |-> saves'[m].called, recs |-> saves'[m].recs,
                              last |-> saves'[m].last]
              /\ SaveOK(saves'[m])
    BY <1>4, <2>1
  <2>3. DOMAIN saves' \subseteq 1 .. started' /\ saves' = [m \in DOMAIN saves' |-> saves'[m]]
    BY <1>1, <1>2, <1>3, <1>4
  <2> QED
    BY <1>2, <2>2, <2>3 DEF SavesOK
<1>6. DiskOK'
  <2>1. Idle \in [pc : Steps, n : Nat, left : SUBSET IDs, fd : Entries]
    BY DEF Idle, Steps, Entries, None
  <2>2. \A o \in Savers : saver'[o] \in [pc : Steps, n : Nat, left : SUBSET IDs, fd : Entries]
    BY <1>2, <2>1
  <2>3. saver' \in [Savers -> [pc : Steps, n : Nat, left : SUBSET IDs, fd : Entries]]
    BY <2>2
  <2> QED
    BY <1>1, <1>2, <2>3 DEF DiskOK
<1>7. \A o \in Savers : saver'[o].pc # "idle" => saver'[o] = saver[o] /\ saver[o].pc # "idle"
  BY DEF Idle
<1>8. Distinct'
  BY <1>7 DEF Inv, DiskInv, Distinct, InProgress
<1>9. \A o \in Savers : InProgress(o)' => saver'[o] = saver[o] /\ saver[o].n \in DOMAIN saves'
  <2>1. \A o \in Savers : saver[o].pc # "idle" => saver[o].n \in DOMAIN saves
    BY DEF Inv, DiskInv, SaverInv
  <2> QED
    BY <1>3, <1>4, <1>7, <2>1 DEF InProgress
<1>10. FileInv'
  <2>1. /\ path # None => Sound(path)
        /\ tmp # None /\ (\E o \in Savers : saver[o].pc \in Opened) => Sound(tmp)
        /\ \A ino \in Inodes : file[ino].head <= started /\ file[ino].tail <= started
    BY DEF Inv, DiskInv, FileInv
  <2>2. path' # None => Sound(path)'
    <3> SUFFICES ASSUME path # None PROVE Sound(path)'
      BY <1>1
    <3>1. path \in Inodes
      BY <1>2 DEF Entries, Inodes, None
    <3>2. \A m \in {file[path].head, file[path].tail} : m # None => m \in DOMAIN saves' /\ saves'[m] = saves[m]
      BY <1>3, <1>4, <2>1 DEF Sound
    <3> QED
      BY <1>1, <2>1, <3>1, <3>2, SoundFrom
  <2>3. ASSUME tmp' # None, NEW o \in Savers, saver'[o].pc \in Opened PROVE Sound(tmp)'
    <3>1. saver'[o] = saver[o] /\ saver[o].pc \in Opened /\ saver[o].n \in DOMAIN saves
      BY <1>7, <2>3 DEF Opened, Inv, DiskInv, SaverInv
    <3>2. busy # {} /\ tmp # None
      <4>1. saver'[o].n \in {saver'[q].n : q \in Savers} /\ saver'[o].n \notin {None}
        BY <1>2, <3>1 DEF None
      <4> QED
        BY <1>1, <2>3, <4>1
    <3>3. tmp \in Inodes
      BY <1>2, <3>2 DEF Entries, Inodes, None
    <3>4. \A m \in {file[tmp].head, file[tmp].tail} : m # None => m \in DOMAIN saves' /\ saves'[m] = saves[m]
      BY <1>3, <1>4, <2>1, <3>1, <3>2 DEF Sound
    <3> QED
      BY <1>1, <2>1, <3>1, <3>2, <3>3, <3>4, SoundFrom
  <2> QED
    BY <1>1, <2>1, <2>2, <2>3 DEF FileInv
<1> QED
  BY <1>4, <1>5, <1>6, <1>8, <1>9, <1>10

\* No save is in progress any more.
LEMMA NobodySaves ==
    ASSUME Inv, ~overlapped, \A o \in Savers : saver'[o] = Idle, UNCHANGED <<disk, started, overlapped>>,
           reported' <= started, reported # None \/ reported' # None => path # None,
           path # None => file[path].head >= reported'
    PROVE  AloneInv'
<1>1. file' = file /\ path' = path /\ tmp' = tmp
  BY DEF disk
<1>2. \A o \in Savers : saver'[o].pc = "idle"
  BY DEF Idle
<1>3. (tmp # None => tmp # path) /\ SnapshotIntact
  BY DEF Inv, AloneInv
<1>4. SnapshotIntact'
  BY <1>1, <1>3 DEF SnapshotIntact, Torn
<1>5. \A o \in Savers : OwnerInv(saver[o])'
  BY <1>2 DEF OwnerInv, Opened
<1>6. \A o, q \in Savers : InProgress(o)' /\ InProgress(q)' => o = q
  BY <1>2 DEF InProgress
<1> QED
  BY <1>1, <1>3, <1>4, <1>5, <1>6 DEF AloneInv

LEMMA ReportKeeps ==
    ASSUME Inv, NEW s \in Savers, Report(s)
    PROVE  Inv'
<1> DEFINE r == saver[s]
           n == r.n
<1>1. /\ r.pc \in {"done", "error"} /\ saver' = [saver EXCEPT ![s] = Idle] /\ saves' = Kept(saver')
      /\ reported' = IF r.pc = "done" /\ n > reported THEN n ELSE reported
      /\ UNCHANGED <<phase, entities, loading, disk, started, overlapped>>
  BY DEF Report
<1>2. UNCHANGED <<objs, counter, todo, restored, file, path, tmp>>
  BY <1>1 DEF entities, loading, disk
<1>3. /\ saver \in [Savers -> [pc : Steps, n : Nat, left : SUBSET IDs, fd : Entries]]
      /\ started \in Nat /\ reported \in Nat /\ DOMAIN saves \subseteq 1 .. started
      /\ file \in [Inodes -> [head : Nat, tail : Nat]] /\ path \in Entries
  BY TypesOf
<1>4. phase = "ready" /\ n \in DOMAIN saves
  BY <1>1 DEF Inv, DiskInv, SaverInv
<1>5. GameOK' /\ LoadingInv'
  BY <1>1, <1>2, <1>4, GameAside
<1>6. /\ saver'[s] = Idle /\ \A o \in Savers : o # s => saver'[o] = saver[o]
      /\ saver' = [o \in Savers |-> saver'[o]]
  BY <1>1, <1>3
<1>7. n \in Nat /\ n <= started /\ n # None /\ reported' \in Nat
  BY <1>1, <1>3, <1>4 DEF None
<1>8. /\ SavesOK' /\ DiskOK' /\ Distinct' /\ FileInv'
      /\ \A m \in DOMAIN saves' : m \in DOMAIN saves /\ saves'[m] = saves[m]
      /\ \A o \in Savers : InProgress(o)' => saver'[o] = saver[o] /\ saver[o].n \in DOMAIN saves'
  <2>1. \A o \in Savers : saver'[o] = saver[o] \/ saver'[o] = Idle
    BY <1>6
  <2> QED
    BY <1>1, <1>6, <1>7, <2>1, SavesEnd
<1>9. SaverInv(s)'
  BY <1>6 DEF SaverInv, Idle
<1>10. ASSUME NEW o \in Savers, o # s PROVE SaverInv(o)'
  <2>1. SaverInv(o) /\ saver'[o] = saver[o]
    BY <1>6, <1>10 DEF Inv, DiskInv
  <2>2. InProgress(o) => UnwrittenInv(saver[o]) /\ saver[o].n \in DOMAIN saves' /\ saves'[saver[o].n] = saves[saver[o].n]
    BY <1>8, <2>1 DEF SaverInv, InProgress
  <2>3. UnwrittenInv(saver[o])'
    BY <1>2, <2>1, <2>2 DEF UnwrittenInv, InProgress
  <2> QED
    BY <1>1, <1>2, <2>1, <2>2, <2>3, OtherSaver
<1>11. AloneInv'
  <2> SUFFICES ASSUME ~overlapped PROVE AloneInv'
    BY <1>1 DEF AloneInv
  <2>1. /\ \A o, q \in Savers : InProgress(o) /\ InProgress(q) => o = q
        /\ reported <= started /\ SnapshotIntact /\ OwnerInv(r)
    BY DEF Inv, AloneInv
  <2>2. \A o \in Savers : saver'[o] = Idle
    <3>1. \A o \in Savers : o # s => saver[o] = Idle
      BY <1>1, <2>1 DEF InProgress, Inv, DiskInv, SaverInv
    <3> QED
      BY <1>6, <3>1
  <2>3. (path # None => file[path].head >= reported) /\ (reported # None => path # None)
    BY <2>1 DEF SnapshotIntact
  <2>4. r.pc = "done" => path # None /\ file[path].head = n
    BY <2>1 DEF OwnerInv
  <2> HIDE DEF r, n
  <2>5. reported' <= started
    BY <1>1, <1>3, <1>7, <2>1
  <2>6. path # None => file[path].head >= reported'
    BY <1>1, <1>3, <1>7, <2>3, <2>4
  <2>7. reported # None \/ reported' # None => path # None
    BY <1>1, <2>3, <2>4
  <2> QED
    BY <1>1, <2>2, <2>5, <2>6, <2>7, NobodySaves
<1> QED
  BY <1>5, <1>8, <1>9, <1>10, <1>11 DEF Inv, TypeOK, DiskInv

LEMMA CrashKeeps ==
    ASSUME Inv, Crash
    PROVE  Inv'
<1>1. /\ phase' = "setup" /\ objs' = NoEntities /\ counter' = 0 /\ todo' = NoEntities
      /\ restored' = {} /\ saver' = [s \in Savers |-> Idle] /\ saves' = Kept(saver')
      /\ UNCHANGED <<disk, started, reported, overlapped>>
  BY DEF Crash
<1>2. \A o \in Savers : saver'[o] = Idle /\ saver'[o].pc = "idle"
  BY <1>1 DEF Idle
<1>3. reported \in Nat /\ started \in Nat
  BY TypesOf
<1>4. GameOK' /\ LoadingInv'
  <2>1. World(NoEntities) /\ DOMAIN NoEntities = {}
    BY DEF World, NoEntities
  <2>2. 0 \in 0 .. MaxID /\ 1 .. 0 = {}
    BY SnapshotAssumption
  <2> QED
    BY <1>1, <2>1, <2>2 DEF GameOK, LoadingInv, Phases
<1>5. SavesOK' /\ DiskOK' /\ Distinct' /\ FileInv'
  <2>1. ~ \E o \in Savers : saver'[o].pc \in Opened
    BY <1>2 DEF Opened
  <2>2. saver' = [o \in Savers |-> saver'[o]]
    BY <1>1
  <2> QED
    BY <1>1, <1>2, <1>3, <2>1, <2>2, SavesEnd
<1>6. \A o \in Savers : SaverInv(o)'
  BY <1>2 DEF SaverInv
<1>7. AloneInv'
  <2> SUFFICES ASSUME ~overlapped PROVE AloneInv'
    BY <1>1 DEF AloneInv
  <2>1. reported <= started /\ (path # None => file[path].head >= reported) /\ (reported # None => path # None)
    BY DEF Inv, AloneInv, SnapshotIntact
  <2> QED
    BY <1>1, <1>2, <2>1, NobodySaves
<1> QED
  BY <1>4, <1>5, <1>6, <1>7 DEF Inv, TypeOK, DiskInv

-----------------------------------------------------------------------------
(* The theorems.                                                            *)

LEMMA InitHolds == Init => Inv
<1> SUFFICES ASSUME Init PROVE Inv
  OBVIOUS
<1>1. /\ phase = "setup" /\ objs = NoEntities /\ counter = 0 /\ todo = NoEntities /\ restored = {}
      /\ saver = [s \in Savers |-> Idle] /\ file = [i \in Inodes |-> Empty] /\ path = None /\ tmp = None
      /\ started = 0 /\ saves = NoEntities /\ reported = None /\ overlapped = FALSE
  BY DEF Init
<1>2. DOMAIN NoEntities = {} /\ World(NoEntities) /\ NoEntities = [m \in DOMAIN NoEntities |-> NoEntities[m]]
  BY DEF NoEntities, World
<1>3. \A s \in Savers : saver[s] = Idle /\ saver[s].pc = "idle"
  BY <1>1 DEF Idle
<1>4. \A i \in Inodes : file[i].head = 0 /\ file[i].tail = 0
  BY <1>1 DEF Empty, None
<1>5. GameOK /\ LoadingInv
  <2>1. 0 \in 0 .. MaxID /\ 1 .. 0 = {}
    BY SnapshotAssumption
  <2> QED
    BY <1>1, <1>2, <2>1 DEF GameOK, LoadingInv, Phases
<1>6. SavesOK
  BY <1>1, <1>2 DEF SavesOK, None
<1>7. DiskOK
  <2>1. Idle \in [pc : Steps, n : Nat, left : SUBSET IDs, fd : Entries]
    BY DEF Idle, Steps, Entries, None
  <2>2. Empty \in [head : Nat, tail : Nat]
    BY DEF Empty, None
  <2>3. saver \in [Savers -> [pc : Steps, n : Nat, left : SUBSET IDs, fd : Entries]]
    BY <1>1, <2>1
  <2>4. file \in [Inodes -> [head : Nat, tail : Nat]] /\ path \in Entries /\ tmp \in Entries
    BY <1>1, <2>2 DEF Entries, None
  <2>5. overlapped \in BOOLEAN
    BY <1>1
  <2> QED
    BY <2>3, <2>4, <2>5 DEF DiskOK
<1>8. DiskInv
  <2>1. \A s \in Savers : SaverInv(s)
    BY <1>3 DEF SaverInv
  <2>2. Distinct
    BY <1>3 DEF Distinct, InProgress
  <2>3. FileInv
    BY <1>1, <1>4 DEF FileInv
  <2> QED
    BY <1>5, <2>1, <2>2, <2>3 DEF DiskInv
<1>9. AloneInv
  <2>1. \A s \in Savers : OwnerInv(saver[s]) /\ ~InProgress(s)
    BY <1>3 DEF OwnerInv, Opened, InProgress
  <2>2. SnapshotIntact
    BY <1>1 DEF SnapshotIntact
  <2> QED
    BY <1>1, <2>1, <2>2 DEF AloneInv, None
<1> QED
  BY <1>5, <1>6, <1>7, <1>8, <1>9 DEF Inv, TypeOK

LEMMA NextKeeps == Inv /\ [Next]_vars => Inv'
<1> SUFFICES ASSUME Inv, [Next]_vars PROVE Inv'
  OBVIOUS
<1>1. CASE \E t \in Type : CreateEntity(t)
  BY <1>1, CreateEntityKeeps
<1>2. CASE \E i \in IDs : DeleteEntity(i) \/ SetValue(i)
  BY <1>2, DeleteEntityKeeps, SetValueKeeps
<1>3. CASE SaveSnapshot
  <2>1. StartSave("game") /\ UNCHANGED <<phase, entities, todo, restored, disk, reported>> /\ "game" \in Savers
    BY <1>3 DEF SaveSnapshot, process, loading, Savers
  <2> QED
    BY <2>1, StartSaveKeeps
<1>4. CASE AutosaveTick
  <2>1. StartSave("auto") /\ UNCHANGED <<phase, entities, todo, restored, disk, reported>> /\ "auto" \in Savers
    BY <1>4 DEF AutosaveTick, loading, Savers
  <2> QED
    BY <2>1, StartSaveKeeps
<1>5. CASE Cancel
  <2>1. UNCHANGED <<phase, entities, todo, restored, saver, disk, started, saves, reported, overlapped>>
    BY <1>5 DEF Cancel, loading, history
  <2> QED
    BY <2>1, StutterKeeps
<1>6. CASE \E s \in Savers : \E i \in IDs : Collect(s, i)
  BY <1>6, CollectStep
<1>7. CASE \E s \in Savers : OpenTemp(s) \/ WriteFile(s) \/ Rename(s)
  BY <1>7, OpenTempKeeps, WriteFileKeeps, RenameKeeps
<1>8. CASE \E s \in Savers : RemoveTemp(s) \/ SaveFails(s) \/ Report(s)
  BY <1>8, SaveEndsKeeps, ReportKeeps
<1>9. CASE Crash
  BY <1>9, CrashKeeps
<1>10. CASE Load
  BY <1>10, LoadKeeps
<1>11. CASE \E i \in IDs : RestoreEntity(i)
  BY <1>11, RestoreEntityKeeps
<1>12. CASE LoadEnds
  BY <1>12, LoadEndsKeeps
<1>13. CASE UNCHANGED vars
  <2>1. UNCHANGED <<phase, entities, todo, restored, saver, disk, started, saves, reported, overlapped>>
    BY <1>13 DEF vars, process, loading, history
  <2> QED
    BY <2>1, StutterKeeps
<1> QED
  BY <1>1, <1>2, <1>3, <1>4, <1>5, <1>6, <1>7, <1>8, <1>9, <1>10, <1>11, <1>12, <1>13 DEF Next

\* The inductive invariant: every part of the file under path is from a save
\* that has collected what was registered at its call, a save that is
\* collecting sees its entities also when they are deleted and their IDs are
\* used again, and a save that runs alone owns the temporary file it opens
\* (snapshot.go Save).
THEOREM SnapshotInvariant == Spec => []Inv
BY InitHolds, NextKeeps, PTL DEF Spec

\* Save writes an atomic file: whatever step the process ends at and whatever
\* step fails, the file under path is whole and of no save older than the last
\* one reported as done, as long as no two saves to the path overlap.
THEOREM SnapshotAlwaysWhole == Spec => []SnapshotIntact
<1>1. Inv => SnapshotIntact
  BY DEF Inv, AloneInv, SnapshotIntact
<1> QED
  BY <1>1, SnapshotInvariant, PTL

\* Only RestoreEntity restores, and only LoadEnds ends a load that succeeds.
LEMMA LoadSteps ==
    ASSUME Inv, [Next]_vars
    PROVE  /\ restored' \subseteq restored \/ \E i \in IDs : RestoreEntity(i)
           /\ phase = "loading" /\ phase' = "ready" => LoadEnds
<1>1. phase # "ready" => \A s \in Savers : saver[s].pc = "idle"
  BY NotReady
<1>2. restored' \subseteq restored \/ \E i \in IDs : RestoreEntity(i)
  BY DEF Next, vars, process, loading, CreateEntity, DeleteEntity, SetValue, SaveSnapshot, AutosaveTick,
         StartSave, Cancel, Collect, OpenTemp, WriteFile, Rename, RemoveTemp, SaveFails, Report,
         Crash, Load, LoadEnds
<1>3. phase = "loading" /\ phase' = "ready" => LoadEnds
  BY <1>1 DEF Next, vars, process, CreateEntity, DeleteEntity, SetValue, SaveSnapshot, AutosaveTick,
              StartSave, Cancel, Collect, OpenTemp, WriteFile, Rename, RemoveTemp, SaveFails, Report,
              Crash, Load, RestoreEntity
<1> QED
  BY <1>2, <1>3

\* A load of a whole file restores what one save was called with and no other
\* entity, in states of the time it ran; and whatever the file was, the next ID
\* is past every restored one (LoadSnapshot of snapshot_api.go).
THEOREM LoadsAreExact == Spec => LoadRestores
<1> DEFINE save == saves[file[path].head]
           comesBack(i) == save.called[i].type \in Persistent \cap Recorded \cap Restorable
           A == /\ \A i \in restored' \ restored : ~Torn(path) =>
                     /\ i \in DOMAIN save.called
                     /\ objs'[i].type = save.called[i].type
                     /\ objs'[i].val \in save.called[i].val .. save.last[i].val
                /\ phase = "loading" /\ phase' = "ready" =>
                     /\ ~Torn(path) => restored = {i \in DOMAIN save.called : comesBack(i)}
                     /\ \A i \in restored : i <= counter'
<1>1. Inv /\ [Next]_vars => A
  <2> SUFFICES ASSUME Inv, [Next]_vars PROVE A
    OBVIOUS
  <2>1. ASSUME phase = "loading", ~Torn(path)
        PROVE  /\ SaveOK(save) /\ Complete(save)
               /\ DOMAIN todo \subseteq DOMAIN save.recs /\ \A i \in DOMAIN todo : todo[i] = save.recs[i]
               /\ restored = {i \in DOMAIN save.recs \ DOMAIN todo : save.recs[i].type \in Restorable}
    <3>1. path # None /\ file[path].head # None /\ Sound(path)
      BY <2>1 DEF Inv, DiskInv, FileInv, LoadingInv, Torn
    <3>2. file[path].head \in DOMAIN saves /\ Complete(save)
      BY <3>1 DEF Sound
    <3>3. SaveOK(save)
      BY <3>2 DEF Inv, TypeOK, SavesOK
    <3> QED
      BY <2>1, <3>2, <3>3 DEF Inv, DiskInv, LoadingInv
  <2>2. ASSUME NEW i \in restored' \ restored, ~Torn(path)
        PROVE  /\ i \in DOMAIN save.called
               /\ objs'[i].type = save.called[i].type
               /\ objs'[i].val \in save.called[i].val .. save.last[i].val
    <3>1. PICK j \in IDs : RestoreEntity(j)
      BY <2>2, LoadSteps
    <3>2. phase = "loading" /\ j = i /\ i \in DOMAIN todo /\ objs' = With(objs, i, todo[i])
      BY <2>2, <3>1 DEF RestoreEntity
    <3>3. objs'[i] = todo[i]
      BY <3>2 DEF With
    <3>4. SaveOK(save) /\ Complete(save) /\ i \in DOMAIN save.recs /\ todo[i] = save.recs[i]
      BY <2>1, <2>2, <3>2
    <3> HIDE DEF save
    <3>5. /\ i \in DOMAIN save.called /\ save.recs[i].type = save.called[i].type
          /\ save.called[i].val <= save.recs[i].val /\ save.recs[i].val <= save.last[i].val
          /\ i \in DOMAIN save.last
      BY <3>4 DEF Complete
    <3>6. save.called[i].val \in Nat /\ save.recs[i].val \in Nat /\ save.last[i].val \in Nat
      BY <3>4, <3>5 DEF SaveOK, World, Entity
    <3> QED
      BY <3>3, <3>4, <3>5, <3>6
  <2>3. ASSUME phase = "loading", phase' = "ready"
        PROVE  /\ ~Torn(path) => restored = {i \in DOMAIN save.called : comesBack(i)}
               /\ \A i \in restored : i <= counter'
    <3>1. LoadEnds
      BY <2>3, LoadSteps
    <3>2. DOMAIN todo = {} /\ counter' = NewCounter
      BY <3>1 DEF LoadEnds, NoEntities
    <3>3. \A i \in restored : i <= counter'
      BY <2>3, <3>2, CounterAfterLoad
    <3>4. ASSUME ~Torn(path) PROVE restored = {i \in DOMAIN save.called : comesBack(i)}
      <4>1. Complete(save) /\ restored = {i \in DOMAIN save.recs : save.recs[i].type \in Restorable}
        BY <2>1, <2>3, <3>2, <3>4
      <4> HIDE DEF save
      <4> QED
        BY <4>1 DEF Complete
    <3> QED
      BY <3>3, <3>4
  <2> QED
    BY <2>2, <2>3
<1>2. A <=> (LET v == saves[file[path].head]
                 back(i) == v.called[i].type \in Persistent \cap Recorded \cap Restorable
             IN  /\ \A i \in restored' \ restored : ~Torn(path) =>
                      /\ i \in DOMAIN v.called
                      /\ objs'[i].type = v.called[i].type
                      /\ objs'[i].val \in v.called[i].val .. v.last[i].val
                 /\ phase = "loading" /\ phase' = "ready" =>
                      /\ ~Torn(path) => restored = {i \in DOMAIN v.called : back(i)}
                      /\ \A i \in restored : i <= counter')
  OBVIOUS
<1> QED
  BY <1>1, <1>2, SnapshotInvariant, PTL DEF Spec, LoadRestores

=============================================================================
