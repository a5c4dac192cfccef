------------------------------ MODULE Snapshot ------------------------------
(***************************************************************************)
(* Snapshot files: golem/snapshot/snapshot.go, golem/snapshot_api.go and   *)
(* the autosave loop, LoadSnapshotIfExists and RestoreEntity of the        *)
(* generated Runtime (codegen/templates/go_server/shared.go.tmpl).         *)
(*                                                                         *)
(* A save runs in a goroutine of its own while the game goes on: it reads  *)
(* the entities one by one, writes them to path.tmp and renames that to    *)
(* path.  The process may end at any step; the disk keeps what was done to *)
(* it (losing power, which would also lose writes the disk had not done,   *)
(* is not modelled).  A file is what its first and its last part were      *)
(* written by: two saves that write to one file leave a torn one, which    *)
(* nothing in it gives away when it is read.                               *)
(***************************************************************************)
EXTENDS Naturals, FiniteSets, Functions, FiniteSetsExt

CONSTANTS
    Type,               \* the entity types,
    Persistent,         \*   those that are not excluded by IsPersistent,
    Recorded,           \*   those whose FullUpdate gives data
    Restorable,         \*   and those that RestoreEntity knows
    Fingerprint,        \* schema fingerprints the server was built with
    Schema,             \*   and the entity types of each
    MaxID, MaxValue, MaxSave, MaxCrash      \* bounds of the model, MaxValue one for each schema

ASSUME SnapshotAssumption ==
    /\ Persistent \subseteq Type
    /\ Recorded \subseteq Type
    /\ Restorable \subseteq Type
    /\ Schema \in [Fingerprint -> SUBSET Type]
    /\ MaxValue \in [Fingerprint -> Nat]
    /\ {MaxID, MaxSave, MaxCrash} \subseteq Nat

IDs == 1 .. MaxID
Savers == {"auto", "game"}          \* RunSnapshotAutosave, and the game's own SaveSnapshot
None == 0                           \* no save, no file
Inodes == 1 .. 4

VARIABLES
    phase,      \* of the process: "setup", "loading", "ready", "failed"
    objs,       \* the registered entities, and the state of each
    counter,    \* idCounter
    todo,       \* LoadSnapshot: the records not restored yet,
    restored,   \*   and those that are
    fp,         \* SchemaFingerprint of this build
    autosave,   \* RunSnapshotAutosave: "waiting", "saving", "cancelled" (while saving), "ended"
    saver,      \* the saves in progress
    file,       \* inode -> the save that wrote each part of it
    path, tmp,  \* the two directory entries: an inode or None
    started,    \* history: the number of saves so far,
    saves,      \*   for each that matters what it was called with, what it collected
                \*     and the last state of each entity while it collected,
    reported,   \*   the last one that was reported as done,
    overlapped, \*   two saves have been in progress at once
    crashes

entities == <<objs, counter>>
loading == <<todo, restored, fp>>
process == <<phase, entities, loading, autosave>>
disk == <<file, path, tmp>>
history == <<started, saves, reported, overlapped, crashes>>
vars == <<process, saver, disk, history>>

Idle == [pc |-> "idle", n |-> None, left |-> {}, fd |-> None]
Empty == [head |-> None, tail |-> None]
NoEntities == [i \in {} |-> 0]

Init ==
    /\ phase = "setup" /\ objs = NoEntities /\ counter = 0
    /\ todo = NoEntities /\ restored = {} /\ fp \in Fingerprint
    /\ autosave = "waiting"
    /\ saver = [s \in Savers |-> Idle]
    /\ file = [i \in Inodes |-> Empty] /\ path = None /\ tmp = None
    /\ started = 0 /\ saves = NoEntities /\ reported = None /\ overlapped = FALSE /\ crashes = 0

-----------------------------------------------------------------------------
(* The game. *)

\* The setup code and the game run; OnSpawn of a restored entity runs in the load.
Running == phase \in {"setup", "ready"} \/ (phase = "loading" /\ restored # {})

With(f, i, v) == [j \in DOMAIN f \cup {i} |-> IF j = i THEN v ELSE f[j]]

\* CreateEntity without an ID: nextID, then the registry, which refuses an ID it has.
CreateEntity(t) ==
    /\ Running /\ t \in Schema[fp] /\ counter < MaxID
    /\ counter' = counter + 1
    /\ objs' = IF counter' \in DOMAIN objs THEN objs
               ELSE With(objs, counter', [type |-> t, val |-> 0])
    /\ UNCHANGED <<phase, loading, autosave, saver, disk, history>>

\* A save that is collecting holds the entity it was called with, whatever
\* has become of it, and of its ID, in the registry.
Holds(n, i) ==
    /\ i \in DOMAIN saves[n].called \ DOMAIN saves[n].last
    /\ \E s \in Savers : saver[s].pc = "collect" /\ saver[s].n = n
Held(n, i) == IF i \in DOMAIN saves[n].last THEN saves[n].last[i] ELSE objs[i]

DeleteEntity(i) ==
    /\ Running /\ i \in DOMAIN objs
    /\ objs' = Restrict(objs, DOMAIN objs \ {i})
    /\ saves' = [n \in DOMAIN saves |->
                   IF Holds(n, i) THEN [saves[n] EXCEPT !.last = With(@, i, objs[i])] ELSE saves[n]]
    /\ UNCHANGED <<phase, counter, loading, autosave, saver, disk, started, reported, overlapped, crashes>>

\* A generated setter, under the entity's mutex; only state that comes back counts.
SetValue(i) ==
    /\ Running /\ i \in DOMAIN objs /\ objs[i].val < MaxValue[fp]
    /\ objs[i].type \in Persistent \cap Recorded \cap Restorable
    /\ objs' = [objs EXCEPT ![i].val = @ + 1]
    /\ UNCHANGED <<phase, counter, loading, autosave, saver, disk, history>>

-----------------------------------------------------------------------------
(* Saving. *)

\* Mutant: IsPersistent is not asked.
AllOfThem == DOMAIN objs

\* The entities that are not passed over; a type is persistent or not for good.
Saved == {i \in DOMAIN objs : objs[i].type \in Persistent}

InProgress(s) == saver[s].pc # "idle"
Number == started + 1

\* The saves that are in progress, that the file under path is from, or
\* that one under path.tmp is from while a save may still rename it.
Kept(sv) ==
    LET busy == {sv[s].n : s \in Savers} \ {None}
        inodes == ({path} \cup IF busy = {} THEN {} ELSE {tmp}) \ {None}
    IN  Restrict(saves, DOMAIN saves \cap
                        (busy \cup UNION {{file[ino].head, file[ino].tail} : ino \in inodes}))

\* SaveSnapshot: the entities of this moment, and a goroutine.
StartSave(s) ==
    /\ phase = "ready" /\ ~InProgress(s) /\ Number <= MaxSave
    /\ saver' = [saver EXCEPT ![s] = [pc |-> "collect", n |-> Number, left |-> Saved, fd |-> None]]
    /\ saves' = With(saves, Number, [fp |-> fp, called |-> objs,
                                     recs |-> NoEntities, last |-> NoEntities])
    /\ started' = Number
    /\ overlapped' = (overlapped \/ \E o \in Savers \ {s} : InProgress(o))

SaveSnapshot ==
    /\ StartSave("game")
    /\ UNCHANGED <<process, disk, reported, crashes>>

\* One entity is serialised, even if it has been deleted meanwhile; one that
\* gives no data is passed over.
Collect(s, i) ==
    /\ saver[s].pc = "collect" /\ i \in saver[s].left
    /\ saver' = [saver EXCEPT ![s].left = @ \ {i}]
    /\ LET n == saver[s].n
           e == Held(n, i)
       IN  saves' = IF e.type \in Recorded THEN [saves EXCEPT ![n].recs = With(@, i, e)] ELSE saves
    /\ UNCHANGED <<process, started, disk, reported, overlapped, crashes>>

\* The states at the end of the collection.
Collected(n) ==
    [saves EXCEPT ![n].last = [i \in DOMAIN saves[n].called |-> Held(n, i)]]

\* Mutant: the file is written in place.
OpenInPlace(s) ==
    /\ saver[s].pc = "collect" /\ saver[s].left = {}
    /\ LET ino == IF path = None THEN 1 ELSE path
       IN  /\ path' = ino /\ tmp' = ino
           /\ file' = [file EXCEPT ![ino] = Empty]
           /\ saver' = [saver EXCEPT ![s].pc = "head", ![s].fd = ino]
    /\ saves' = Collected(saver[s].n)
    /\ UNCHANGED <<process, started, reported, overlapped, crashes>>

\* os.WriteFile opens the temporary file, an old one if there is one, and empties it.
OpenTemp(s) ==
    /\ saver[s].pc = "collect" /\ saver[s].left = {}
    /\ LET fresh == CHOOSE i \in Inodes :
                      i \notin {path, tmp} \cup {saver[o].fd : o \in Savers}
           ino == IF tmp = None THEN fresh ELSE tmp
       IN  /\ tmp' = ino
           /\ file' = [file EXCEPT ![ino] = Empty]
           /\ saver' = [saver EXCEPT ![s].pc = "head", ![s].fd = ino]
    /\ saves' = Collected(saver[s].n)
    /\ UNCHANGED <<process, started, path, reported, overlapped, crashes>>

WriteFile(s) ==
    /\ saver[s].pc \in {"head", "tail"}
    /\ LET part == saver[s].pc
       IN  /\ file' = [file EXCEPT ![saver[s].fd][part] = saver[s].n]
           /\ saver' = [saver EXCEPT ![s].pc = IF part = "head" THEN "tail" ELSE "rename"]
    /\ UNCHANGED <<process, path, tmp, history>>

\* os.Rename, which fails when another save has taken the temporary file away.
Rename(s) ==
    /\ saver[s].pc = "rename"
    /\ IF tmp = None
       THEN saver' = [saver EXCEPT ![s].pc = "remove"] /\ UNCHANGED <<path, tmp>>
       ELSE saver' = [saver EXCEPT ![s].pc = "done"] /\ path' = tmp /\ tmp' = None
    /\ UNCHANGED <<process, file, history>>

\* The error branch removes the temporary file of whoever has made one since.
RemoveTemp(s) ==
    /\ saver[s].pc = "remove"
    /\ tmp' = None
    /\ saver' = [saver EXCEPT ![s].pc = "error"]
    /\ UNCHANGED <<process, file, path, history>>

\* FullUpdate of a hand-written entity, opening or writing the file fails.
SaveFails(s) ==
    /\ saver[s].pc \in {"collect", "head", "tail"}
    /\ saver' = [saver EXCEPT ![s].pc = "error"]
    /\ UNCHANGED <<process, disk, history>>

\* The result is received from the channel.
Report(s) ==
    /\ saver[s].pc \in {"done", "error"}
    /\ reported' = IF saver[s].pc = "done" /\ saver[s].n > reported THEN saver[s].n ELSE reported
    /\ saver' = [saver EXCEPT ![s] = Idle]
    /\ saves' = Kept(saver')
    /\ autosave' = CASE s # "auto" -> autosave
                     [] s = "auto" /\ (saver[s].pc = "error" \/ autosave = "cancelled") -> "ended"
                     [] OTHER -> "waiting"
    /\ UNCHANGED <<phase, entities, loading, disk, started, overlapped, crashes>>

\* A tick of the autosave loop; a cancelled context wins over a tick.
AutosaveTick ==
    /\ autosave = "waiting"
    /\ StartSave("auto")
    /\ autosave' = "saving"
    /\ UNCHANGED <<phase, entities, loading, disk, reported, crashes>>

\* The context is cancelled: the loop ends, after the save in progress if there is one.
Cancel ==
    /\ phase = "ready" /\ autosave \in {"waiting", "saving"}
    /\ autosave' = IF autosave = "saving" THEN "cancelled" ELSE "ended"
    /\ UNCHANGED <<phase, entities, loading, saver, disk, history>>

-----------------------------------------------------------------------------
(* Crash, restart and load. *)

\* The process ends, at any step, and another one starts, of this or of another build.
Crash ==
    /\ crashes < MaxCrash /\ crashes' = crashes + 1
    /\ phase' = "setup" /\ fp' \in Fingerprint
    /\ objs' = NoEntities /\ counter' = 0 /\ todo' = NoEntities /\ restored' = {}
    /\ autosave' = "waiting"
    /\ saver' = [s \in Savers |-> Idle]
    /\ saves' = Kept(saver')
    /\ UNCHANGED <<disk, started, reported, overlapped>>

Torn(ino) == file[ino].head = None \/ file[ino].head # file[ino].tail

\* No file is no error.
LoadSnapshotIfExists(outcomes) == IF path = None THEN {"ready"} ELSE outcomes

\* What Load reads.  Nothing but the magic bytes and the fingerprint is
\* checked, both of them in the head: a file that was cut may read as one
\* without some of its records, one that two saves have written as records of
\* both.  (A record that the cut or the seam runs through is skipped or ends
\* the load; what else its bytes might decode to is not modelled.)
Records(n) == IF n = None THEN NoEntities ELSE saves[n].recs

Mixed(f, g, ids) == [i \in ids \cup DOMAIN g |-> IF i \in ids THEN f[i] ELSE g[i]]

Reads(ino) ==
    LET head == Records(file[ino].head)
        tail == Records(file[ino].tail)
    IN  IF ~Torn(ino) THEN {head}
        ELSE UNION {{Mixed(head, Restrict(tail, t), h) : h \in SUBSET DOMAIN head} : t \in SUBSET DOMAIN tail}

\* A file of another schema is an error before anything is created; a torn one may be.
LoadOutcomes(ino) ==
    IF file[ino].head = None \/ saves[file[ino].head].fp # fp THEN {"failed"}
    ELSE IF Torn(ino) THEN {"failed", "loading"} ELSE {"loading"}

Load ==
    /\ phase = "setup"
    /\ phase' \in LoadSnapshotIfExists(LoadOutcomes(path))
    /\ todo' \in IF phase' = "loading" THEN Reads(path) ELSE {NoEntities}
    /\ UNCHANGED <<entities, restored, fp, autosave, saver, disk, history>>

\* One record: skipped when RestoreEntity does not know its type; an ID that
\* is taken ends the load, and keeps what was restored so far.
RestoreEntity(i) ==
    /\ phase = "loading" /\ i \in DOMAIN todo
    /\ todo' = Restrict(todo, DOMAIN todo \ {i})
    /\ CASE todo[i].type \notin Restorable -> UNCHANGED <<phase, objs, restored>>
         [] todo[i].type \in Restorable /\ i \in DOMAIN objs ->
              phase' = "failed" /\ UNCHANGED <<objs, restored>>
         [] OTHER -> objs' = With(objs, i, todo[i]) /\ restored' = restored \cup {i} /\ UNCHANGED phase
    /\ UNCHANGED <<counter, fp, autosave, saver, disk, history>>

\* SetEntityIDCounter, unless nothing was restored.
NewCounter == IF restored = {} THEN counter ELSE Max(restored)

LoadEnds ==
    /\ phase = "loading" /\ todo = NoEntities
    /\ phase' = "ready" /\ counter' = NewCounter /\ restored' = {}
    /\ UNCHANGED <<objs, todo, fp, autosave, saver, disk, history>>

Next ==
    \/ \E t \in Type : CreateEntity(t)
    \/ \E i \in IDs : DeleteEntity(i) \/ SetValue(i)
    \/ SaveSnapshot \/ AutosaveTick \/ Cancel
    \/ \E s \in Savers :
         \/ \E i \in IDs : Collect(s, i)
         \/ OpenTemp(s) \/ WriteFile(s) \/ Rename(s) \/ RemoveTemp(s) \/ SaveFails(s) \/ Report(s)
    \/ Crash \/ Load
    \/ \E i \in IDs : RestoreEntity(i)
    \/ LoadEnds

Spec == Init /\ [][Next]_vars

-----------------------------------------------------------------------------
(* Properties. *)

\* Save "writes an atomic snapshot file" (snapshot.go): at every moment, and
\* so after a crash at any step or a failed write, the file at path is the
\* whole result of one save, and of none older than the last one reported as
\* done.  Two saves to one path that overlap share path.tmp and are left out:
\* one renames what the other has half written.
SnapshotIntact ==
    ~overlapped =>
      /\ path # None => ~Torn(path) /\ file[path].head >= reported
      /\ reported # None => path # None

\* What a load of a whole file restores: exactly the entities that were
\* registered when that save was called and whose type is persistent, gives
\* data and is known, none of those created later and all of those deleted
\* later, each in a state it had while the save was running.  And the next ID
\* is past every restored one, whatever the file was (but not past those that
\* setup code or OnSpawn created).
LoadRestores ==
    [][LET save == saves[file[path].head]
           comesBack(i) == save.called[i].type \in Persistent \cap Recorded \cap Restorable
       IN  /\ \A i \in restored' \ restored : ~Torn(path) =>
                /\ i \in DOMAIN save.called
                /\ objs'[i].type = save.called[i].type
                /\ objs'[i].val \in save.called[i].val .. save.last[i].val
           /\ phase = "loading" /\ phase' = "ready" =>
                /\ ~Torn(path) => restored = {i \in DOMAIN save.called : comesBack(i)}
                /\ \A i \in restored : i <= counter']_vars

=============================================================================
