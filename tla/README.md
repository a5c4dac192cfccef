# Golem Engine in TLA+

Golem Engine is a multiplayer game server in Go with clients for Go, JavaScript
and Unity. The server owns all game state, advances it in ticks and replicates it
to sessions over WebTransport (streams and datagrams) or WebSocket. This directory
holds TLA+ models of the parts where goroutines, messages and failures meet, the
TLC configurations that check them on small instances, and TLAPS proofs.

`PROJECT.json` is the index: components, runs, mutations of the model that each
property catches, the source lines behind every definition (`map`), hazards,
findings, theorems. Paths below are relative to the repository.

## 1. Inventory

### Parts of the system

| Part | State it keeps | Operations | Talks to |
|---|---|---|---|
| Server loop (`golem/loop.go`) | registry, `msgQueue` (4096), `broadcastKnown`, trackers, ownership refreshes, `life` | `Run`, tick, `enqueue`, `drainMessages`, `runBroadcastTick`, `runInterestTick`, `finalizeLifecycle` | everything |
| Tasks (`golem/tasks.go`) | Pond pool, completion queue, post queue, counters | `Post`, `SubmitTask`, `drainAsyncCallbacks` | workers, tick goroutine |
| Avatars (`golem/avatar.go`) | session → entity, with a "pending" reservation | `SpawnAvatar`, cleanup on disconnect | registry, sessions |
| Listener (`golem/net/listener.go`) | `sessions`, `pendingSessions`, `closing`, `sessionHandlers` | `handleWS`, `handleWebTransport`, `serveAcceptedSession`, `CloseSessions` | HTTP, Session, Server hooks |
| Session (`golem/net/session.go`) | send channels per lane, wake channel, `closeState`, `closeOnce` | `readPump`, `writePump`, `queue*`, `RequestClose*`, `closeNow` | transport, tick goroutine |
| Datagram protocol (`golem/net/datagram_*.go`) | packet and message windows, resend queues, ordered buffer, state tokens in flight | send, resend, accept, acknowledge, prune | its mirror image in each client |
| Eventual state (`golem/eventual_state.go`) | per session: dirty set and queue, datagrams in flight | mark, merge, select, feedback | loop, datagram protocol |
| Owner-only fields (`golem/owner_replication.go`) | pending ownership refreshes | split of public and owner frames | loop, tracker |
| Registry, visibility, world (`golem/registry`, `golem/visibility`, `golem/world`) | entities, owners, groups, world data | create, delete, `FlushAll`, `Allows` | loop |
| Interest (`golem/interest`) | grid, fields of interest, known sets | `UpdateGrid`, `ComputeDiffsFiltered`, `SetFOI`, `RemoveFOI` | loop |
| Collision (`golem/collision`, `golem/collision3d`, `golem/collision_events.go`) | shapes by entity, layers, contact pairs of the last tick | `Add`, `Set`, `Remove`, `Update`, `Step`, overlap queries and sweeps, `dispatchContactEvents` | registry, tick, game callbacks |
| Navigation, footprints, map import | geometry | steps and queries | entity ticks |
| Snapshot files (`golem/snapshot`, `golem/snapshot_api.go`, generated `Runtime`) | `path`, `path.tmp` | `Save`, `Load`, autosave, restore | registry |
| Host (`golem/host`) | – | runs the server and an HTTP side car | process signals |
| Generated code (`codegen/templates`) | entity fields, dirty masks, revisions; client managers | setters, full and masked updates, `ApplyUpdate`, `ApplyCompactUpdate` | loop, clients |
| Clients (`golem-go-client`, `golem-js`, `golem-unity`) | connection generation, channel, datagram protocol, managers | `Connect`, `Disconnect`, send, dispatch | server |
| Schema and `golem-bake` (`schema`, `codegen`, `cmd/golem-bake`) | – | YAML in, source text out | – |
| Views (`golem-phaser`, `golem-ebiten`, Unity bridge) | views of entities | mount, update | client managers |

Per connection the server runs a handler goroutine that is also the stream reader,
a datagram reader and a write pump. They report to the tick goroutine through
`msgQueue`, which drops what does not fit. One tick runs: start hook, callbacks of
tasks and posts, `drainMessages`, entity ticks and game hook, collision, flush and
replication, end hook.

### What is hard here

* **Interleavings.** Game code may call `Post`, `SubmitTask`, `SpawnAvatar`,
  `DeleteEntity` or close a session from any goroutine, between any two steps of a
  tick or of a connection that is being set up.
* **Failure.** Clients vanish, stall, or close; send channels overflow; either of
  two pumps may fail alone.
* **Unreliable delivery.** Datagrams are lost, duplicated and reordered; sequence
  numbers wrap; acknowledgements themselves are lost and reordered.
* **Crashes.** The process may end in the middle of a save.
* **Reentrancy.** Contact callbacks create, move, reshape and delete entities while
  the loops that call them run.
* **Two lanes.** The state of one entity travels on an ordered stream and in
  datagrams at the same time.
* **Shutdown.** Several goroutines may start it; it has to wait for workers,
  handlers and transports that may be waiting for each other.

The list with source lines is `hazards` in `PROJECT.json`.

### What makes each part correct

* Tasks: accepted work is counted once, its completion runs on the tick goroutine
  unless the server stops first, callbacks are not starved, and workers are
  cancelled only after acceptance has ended.
* Session and listener: events of a session arrive in order and exactly one
  disconnect follows a connect; a close has one winner and finishes; a shutdown
  leaves no session and no handler running; no pump sleeps on queued frames; avatars do not outlive
  their session.
* Datagram protocol: each message is handed over at most once and, on the ordered
  lane, in order; what a sender believes delivered was received.
* Interest: the known set is what positions and groups call for; nothing known is
  left without updates or a removal; nothing else is sent, and nothing owner-only to
  others than the owner.
* Client: one connection at a time, one end for each, no connection left open by a
  dial that was overtaken, and every call returns unless the server stops reading.
* Send path: what a call accepts arrives byte for byte at the other end, and what it
  refuses has no effect.
* Contacts: Enter, Stay, Exit alternate and describe the contacts of the step; a
  query finds what overlaps.
* Snapshots: as long as saves do not overlap the file is one whole save, and a load of
  a whole file restores what that save saw.
* Replication: the client shows the entities it is taken to know, every flushed value
  reaches it or is retried, values do not go back, owner-only values stay with the
  owner.

## 2. Modules

```
TaskPipeline            <- MCTaskPipeline, TaskPipelineProofs
DatagramSeq
  SequenceWindow                                     (extends DatagramSeq)
  DatagramLink          <- MCDatagramLink            (extends DatagramSeq)
    DatagramProofs                                   (about the three above)
EventualTracker
  Replication           <- MCReplication             (extends EventualTracker)
    Interest            <- MCInterest                (extends Replication)
      ReplicationProofs                              (about the three above)
LeftFold                                             (used by ReplicationProofs)
SessionLifecycle        <- MCSessionLifecycle, SessionLifecycleProofs
ClientSession                                        (abstract)
  GameClient            <- MCGameClient, GameClientProofs   (INSTANCE ClientSession)
Wire
  SendPath                                           (extends Wire)
CastMath
  ContactEvents         <- MCContactEvents, ContactEventsProofs   (extends CastMath)
Snapshot                <- MCSnapshot, SnapshotProofs
```

A step of a model is what a goroutine does between two points where another one
can interfere: a lock, an atomic, a channel, the transport. Definitions keep the
name of the function they model. Definitions marked "mutation" or "Mutant" are the
altered forms used to test the properties; no specification uses them.

In `DatagramLink`, `Replication`, `Interest` and `SessionLifecycle` the initial state
picks one element of a constant set of situations, each a record with the bounds of
a behaviour. A run thus covers several small situations, each with the operations
that matter in it, instead of one product of all of them.

### TaskPipeline (`golem/tasks.go`, lifecycle part of `golem/loop.go`)

Actors: callers of `Post` and `SubmitTask`, the pool's workers, the Run goroutine
with its ticks, and the two goroutines that may begin a shutdown (the `AfterFunc` on
the caller's context, the listener goroutine that failed). A section under `lifeMu`
is one step, except that `SubmitTask` is two: Pond may start the wrapper before
`TasksAccepted` is counted, and the start gate (`gate`) closes that window. Pond is
external and modelled by its use: a bounded queue, workers that take from it, tasks
skipped once its context has ended. Counters are kept per task, so that "counted
once" is a statement about each task and the totals are sums.

### DatagramSeq, SequenceWindow (`golem/net/datagram_protocol.go`)

Serial-number comparison and the 128-bit acknowledgement window of the server and of
the Go client, parameterised by half the sequence space and the window size. A mask
is the set of its one bits. `SequenceWindow` runs the window beside a reference that
knows the true, unbounded packet numbers.

### DatagramLink (`datagram_sender.go`, `datagram_receiver.go`, `golem-go-client/webtransport.go`, `golem-js/src/client.ts`)

One server session and one client, Go or JavaScript, over a network that is a set:
receiving a datagram does not remove it, so it may come late, again, or never. Both
reliable lanes, the unreliable lane, acknowledgement-only packets, the server's state
lane with its tokens and verdicts, resends, prunes, overflow and failure of an end.
Time is abstracted to choice: whenever a delay is compared with a clock, it may have
passed or not, and a TTL may expire whenever there is something to expire. A queue of
unacknowledged messages is a set: messages are appended with growing IDs and only
removed, so the order of the queue is that of the IDs (which do not wrap here).

### EventualTracker, Replication

`EventualTracker` is the per-session tracker as operators on a record.
`Replication` composes it with the registry, ownership, one visibility group,
`runBroadcastTick` in its blind and its filtered form, the connect snapshot, the
generated entity code and the client's entity manager with its revision guard. A
field's value is the revision at which it was set.

A pass is a flush, a step for each removal (`SerializeRemoval`) and the sends; game
code may run between any two of them. `FlushAll` hands the removals out without
copying them (`registry.go:230`), so the list of a pass and the list of the registry
share an array until the pass is over: a deletion during the pass is appended to the
one and may take a place in the other (`Despawn`). Both passes read the list twice,
once to send the removals (`pass.removed`) and once to clear trackers, known sets and
groups (`RemovalIDs`), and may find different entities there.

Abstractions: one WebTransport session and one group; the sends of a pass are one
step; the ID and the revision of a removal are read together; the snapshot is one
step; a verdict on a datagram is the outcome `DatagramLink` allows (delivered or lost,
once). A session that closes is not in this module. History variables keep what the
code gives up on knowingly or by its structure: values flushed between the snapshot and
`addSession`, and values whose loss report found `msgQueue` full (`missed`); entities
whose removal was sent with revision 0, lost its place in the list of a pass or took
another one's (`astray`).

### Interest (`golem/interest`, `runInterestTick`)

Extends `Replication` with positions, the spatial hash grid with its three indexes,
the session's field of interest and its hysteresis, global entities, and the tick of
interest mode: the diff under `interestMu`, the flush, the removals, the sends.
`UpdateGrid`, `QueryInto`, the cell arithmetic with negative coordinates, `SetFOI`
and `RemoveFOI` are as in the code; the marks that save an allocation per tick are
the set they stand for. A setting chooses the datagram lane, with losses, or the
stream (`WebSocket` sessions and WebTransport sessions without eventual state). Two
history variables record what the code does not: `forgotten`, known entities that
`RemoveFOI` dropped without a word to the client, and `trusted`, entities whose changes
went whole to the session as their owner and that no tick has restated since.

### SessionLifecycle (`golem/net/session.go`, `listener.go`, parts of `loop.go`, `avatar.go`)

Goroutines: handler (admission, snapshot, `addSession`, hooks, read pump,
`removeSession`), datagram reader, write pump, `go closeNow()` of overflows and
close requests, each call of `CloseSessions` with its goroutine per session, the tick
goroutine, and a goroutine that runs `SpawnAvatar`. Frames have no content.

A call of `Close` that finds the session closing returns at once: the handler of a
session that fails to set up does not wait for the close under way (`"returning"`). The
read pump cancels the context of the connection when a message is too large, and only
then closes (`"cancelled"`); a datagram reader that sees the context first leaves
without closing anything.

Abstractions: two lanes stand for the four send channels (first and last in
`writeOne`); the test of `isClosing` and the enqueue of one frame are one step;
`beginClose` and `closeOnce` are one step for callers of `closeNow` (nothing of the
session is read in between); game code spawns at most one avatar per session; the
deadlines of the datagram protocol only appear as reader failures.

### ClientSession, GameClient (`golem-go-client/game_client.go`, `connection_plan.go`, `websocket.go`, `webtransport.go`)

`ClientSession` is what a game relies on: connections come one after the other, none
returns once it has ended, `OnConnect` is called for the current one only, and every
one that ended gets exactly one `OnDisconnect`, in the end.

`GameClient` is the code: generations, the cancel function of the attempt under way,
direct dials and plans with fall-back, time-out and sticky WebSocket affinity, the
installation of close callbacks with its `lifecycleMu` against a transport that is
already closed, `Disconnect`, the readers that block on the bounded inbound queue,
and the dispatcher with `dispatchMu`. The refinement maps the installed channel to
`current`; the other variables of the abstract specification are the histories of
the detailed one. Its fairness, that every end is reported, is part of what is shown,
with one exception (section 3, fairness).

A channel may be cut by the network, closed by this end, or give up by itself
(`failed`: `closeWithError` of the WebTransport channel after a frame that is too large,
a datagram that breaks the protocol or an acknowledgement that cannot be written).
`Close` is two steps: it marks the channel and writes the closing frame, and it returns
later, or never on a connection whose server does not read (`CloseReturns`).

### Wire, SendPath (`golem/net/payload.go`, `datagram_codec.go`, send calls of `listener.go` and `session.go`, `golem-go-client/framing.go`, `webtransport.go`)

`Wire` has the packing of frames into chunks and datagrams, framing, datagram packets
and control frames, as operators on sequences of bytes whose header sizes are
constants. `SendPath` sends what the game makes through every send and broadcast
call, with the size check that each layer makes on its own, bounded queues, the
pump's writes, and the client's readers, and sends commands and acknowledgements
back. Loss and order are left to `DatagramLink`, closing to `SessionLifecycle`.

### CastMath, ContactEvents (`golem/collision`, `golem/collision3d`, `golem/collision_events.go`)

`CastMath` is the geometry that the backends share, in integers: a fraction of a
sweep is represented by the distance it stands for, and sweeps whose quadratic has no
integer root are not compared. Only sweeps for all hits are modelled. `ContactEvents` has the registry, three backends (cp
with its index and dynamic bodies, resolv, the 3-D one), the collision part of the
tick, the queries, and `dispatchContactEvents` as four loops with a step per
callback, so that game code can do anything between two of them. Physics moves
dynamic bodies anywhere.

### Snapshot (`golem/snapshot`, `golem/snapshot_api.go`, generated `Runtime`)

A save as the sequence of its system calls: collect the entities, read each, open
and truncate `path.tmp`, write, close, rename; two savers, the autosave loop and the
game. A type may be excluded (`Persistent`), give no data (`Recorded`) or be unknown to
the restorer (`Restorable`). A file is known by which save wrote its beginning and its
end. The process may end at any step and start again, perhaps with another schema
(`Schema`, the types of each build), and load; setup code before the load and `OnSpawn` during it create and delete entities.
The disk keeps what it was told; losing power is not modelled.

A load checks the magic bytes and the fingerprint, both at the beginning of the file,
and nothing else. A file that was cut therefore reads as any part of its records, or as
an error; one that two saves have written reads as records of both (`Reads`).

## 3. Runs

| Run | Instance | What it shows |
|---|---|---|
| `task_pipeline` | 2 tasks, 2 posts, 2 workers, queues of 1, 2 and 1, one callback per tick, results nil, error, panic | `CountersExact`: acceptance is counted before anything about the task, each task ends in one counter. `RoundRobin`: completions and posts alternate across drains, and what is queued during a drain waits. `CancelAfterMark`: workers are cancelled only after acceptance stopped. `StoppedQuiescent`: a stopped server is quiet. |
| `task_pipeline_live` | 2 tasks, 1 post, 1 worker, all queues 1 | `WorkCompletes`: an accepted task's completion and an accepted post run, or the server stops. `RunReturns`: a shutdown ends `Run` although workers wait on a full completion queue. |
| `sequence_window` | 10 numbers, window of 3, true numbers to 13 | `WindowExact`: the window decides like the reference while packets are less than half a range apart, and acknowledges exactly what was received. |
| `datagram_link` | 6 sessions with either client, up to 5 packets per end, window 2, 16 numbers, 2 attempts | `DeliveredOnce`, `OrderedDelivery`; `AcksSound`: what a sender drops was received, and what was received is handed over or older than the message window; `VerdictsSound`: one verdict per state token, and "delivered" is true. |
| `replication` | 2 entities, 2 fields, 7 situations | `NothingForgotten`: the dirty queue names each dirty entity once, and every flushed value was handed over or is on its way. `KnownMatchesClient`, `PrivateOnlyToOwner`, `NeverGoesBack`. |
| `interest` | 2 entities, cells of 2, three places on borders and in negative cells, radius 2, margin 1, 8 settings | `GridQueryExact`: a query by cells finds exactly what is within the radius. `KnownFollowsPositions`: the hysteresis, globals and groups. `InterestComplete`: the client shows what the manager takes it to know. `InterestConfined`: nothing is sent of what it does not; owner-only values go to the owner, or again to a session that had them as the owner and has not been told otherwise (`trusted`). |
| `sessions` | up to 2 sessions and 2 calls of `CloseSessions`, lanes of 1, message queue of 2, 7 situations | `EventsInOrder`; `NothingStranded`: no disconnect and no wake-up is lost; `NoZombie`; `AvatarsReaped`; `CloseIsFinal`; `ShutdownIsComplete`: when `CloseSessions` returns every handler and reader has ended, and no transport is open or closing, unless another call still closes it; `ClosesComplete`: closes and `CloseSessions` end. |
| `game_client` | a caller with one of 3 programs of `Connect` and `ConnectPlan`, one `Disconnect` at a time, 2 connections, 1 cut, queue of 1 | `ImplementsClientSession`: the refinement, with its fairness. `NoneLeftOpen`: no dial leaves a connection behind. `NoBatchAfterDisconnect`: one batch at most. `CallsReturn`: calls return, unless one waits for a server that does not read. `CutIsReported`: a cut is noticed also when the reader waits for room in the queue. |
| `send_path` | 2 sessions, listeners of either kind, limits of 8, 6 and 10 bytes, frames of 0, 2, 4 and 7, queues of 1, 3 frames, 2 calls | `DownlinkExact`: accepted frames arrive whole, no layer refuses what an earlier one accepted, packing is as tight as it can be. `UplinkExact`: commands and acknowledgements. `RefusedDoesNothing`. |
| `contacts` | 3 entities, 2 positions, a ball and two crates, 3 backends, 2 ticks, one change by game code besides creations | `EventsAlternate`, `ToldIsContact`: callbacks in order and complete whatever they do. `ContactsAreReal`: contacts are those of the entities' positions. `QueriesExact`: overlap queries, and sweeps for all hits, against a reference that looks for the first common point. |
| `snapshot` | 2 IDs, 2 saves, 1 crash, 2 builds: one with 2 values, one with 4 types (kept, excluded, without data, unknown to the restorer) | `SnapshotIntact`: unless saves overlapped, the file is one whole save, no older than the last one reported. `LoadRestores`: a load of a whole file brings back exactly the entities of the moment of the call that are of the kept type, in states they had, and leaves the ID counter past each of them. |
| `avatar_leak` | `SpawnAvatar` on a goroutine of its own | Expected to fail: `AvatarsReaped` is violated. The cleanup passes over the reservation, and the commit then binds an avatar nobody removes, against the comment at `OnDisconnect`. In `sessions` avatars are spawned on the tick goroutine, or the session stays. |

### Behaviours the properties leave out

While modelling, some behaviours turned up that the stronger form of a property
excludes. The models have them; the properties say in their comments which case they
leave out.

* Before an end has received anything its headers acknowledge packet 0
  (`datagram_sender.go:289`); the peer drops the message of packet 0 even if it was lost,
  and the JavaScript client one it has not sent yet (`AcksSound`, `VerdictsSound` leave
  packet 0 out).
* The duplicate window (128) is smaller than the queue of unacknowledged messages (512):
  an unordered message that is resent after the window has moved past it comes in a
  fresh packet, is acknowledged and refused as a duplicate (`AcksSound` leaves it out,
  `OutOfWindow`).
* The Go client's ordered lane starts at whichever message arrives first
  (`OrderedDelivery`).
* Datagrams with different fields of one entity that swap: the older is rejected by
  the entity's revision, acknowledged by the transport, and its field stays stale.
  `NothingForgotten` is about what was handed to the client's side, and no property
  covers this. Neither does one cover the values of a datagram whose loss report found
  the message queue full: `NothingForgotten` excepts them (`missed`).
* An entity deleted between the flush of a filtered pass and its sends, or between a
  session's snapshot and `addSession`, is removed with revision 0 (`loop.go:1694`), which
  the client rejects: it shows the entity for good, although `CHANGELOG.md:89` says that
  hard deletions use a newer tombstone revision.
* `FlushAll` returns `r.despawned` and truncates it to length 0, so a deletion before the
  pass is over takes the place of an earlier one in its list. The pass may then drop an
  entity from the known set whose removal nobody was sent, which the client shows for
  good, and keep one whose removal was sent.
* `KnownMatchesClient` is that only the entities named in such removals are affected, all
  of them deleted (`astray`); an entity that lives is never among them.
* Interest: an owner-only value that went to a session as the owner may be sent to it
  again after a loss, until a tick tells it that it lost the entity (`trusted`), and
  that tick may never come. If game code makes the session the owner between the diff
  and the sends, the sends ask for the owner of the moment and queue the delta whole;
  if it takes the change back before the next tick, `queueOwnershipRefreshLocked`
  (`owner_replication.go:55`) drops the pending change, so nothing clears the tracker
  and a loss sends the delta whole again, in its newest values. The comment at
  `owner_replication.go:41` takes such a change to be within one tick, and
  `CHANGELOG.md:94` says that a former owner's retries carry no private bits.
* Interest: `RemoveFOI` sends no removals (`forgotten`); a change of owner taken with
  the diff is lost for entities the session knows while the anchor is missing; a
  grant captured in the diff is sent even if ownership has moved on.
* `Disconnect` clears the entities while one batch may still be applied: its entities
  stay, although `CHANGELOG.md:88` says that stale entities are cleared.
  `NoBatchAfterDisconnect` bounds it to that batch.
* A WebTransport channel that gives up by itself (`closeWithError`,
  `webtransport.go:669`) is reported as over and forgotten, and its session stays open
  with nobody left to close it, although `OnDisconnect` is "fired when the transport
  closes". `NoneLeftOpen` leaves these channels out.
* `Close` writes the closing frame without a deadline (`websocket.go:71`,
  `webtransport.go:549`): `CallsReturn` and the fairness of the refinement leave out a
  call that waits there for a server that does not read.
* A transport may still be closing when `CloseSessions` returns, if another call of it
  has not returned and waits for that transport (`ShutdownIsComplete`): the handler of
  a session that failed to set up went on without waiting for the close under way.
* Overlapping saves to one path share `path.tmp` (`snapshot.go:89`): one renames what
  the other has half written, although `Save` promises an atomic file. `SnapshotIntact`
  is about saves that do not overlap (`overlapped`).
* A torn file may load without an error, as part of a save or as a mix of two; the records
  that come back are covered by `LoadRestores` for whole files only. A load that fails
  half way leaves what it restored.
* `SetEntityIDCounter` stores the highest restored ID whatever the counter was
  (`loop.go:433`): an entity with a higher ID, created by setup code before the load or by
  `OnSpawn` during it, has an ID that is given out again, and the next `CreateEntity`
  fails. `LoadRestores` only says that the counter is past every *restored* ID.
* Contacts: a rounded shape behind the start of a sweep is hit at distance 0; cp
  indexes a replaced kinematic shape at the origin until the next tick, and its
  queries pass over shapes that collide with nothing (`Visible`); the second entity
  of a pair is called even if the first callback deleted it.
* Contacts: `QueriesExact` covers the sweeps that return all hits. One for a single hit
  stops under resolv at the first shape its map comes to (`resolv/backend.go:303`), which
  need not be the nearest.
* A broadcast on a reliable lane stops at the first full queue: the sessions after it
  are not owed the frames (`DownlinkExact`), and the refusal had an effect
  (`RefusedDoesNothing`).

### Why these bounds

* Queues of one and two are enough to be empty, partly full and full, and every
  overflow path is taken. A budget of one callback per tick is the case in which the
  round robin matters.
* `SequenceWindow` wraps through its ten numbers with every gap from 1 to the half
  range; window and half range differ as 128 and 32768 do in that the window is
  smaller. The theorems of `DatagramProofs` cover all sizes.
* In `DatagramLink` two or three messages per lane, one of them resent and one
  overtaking, exhaust the cases of the ordered buffer, and four are more than the message
  window remembers; packet numbers do not wrap
  there because `SequenceWindow` is about wrapping.
* In `Replication` two losses and two sets of the same field are needed for a retry
  that meets a newer value; two entities for datagrams shared by entities, and for two
  deletions that meet in one list.
* In `Interest` the places are at distance 0, exactly the radius, and exactly radius
  plus margin from the anchor, in neighbouring and in negative cells.
* In `SessionLifecycle` the goroutines of different sessions meet only in the
  listener's tables, the message queue and `CloseSessions`; two sessions show that
  interaction, one session with all its goroutines the rest.
* In `GameClient` two connections are a current one and one that overtakes it; three
  batches against a queue of one block the reader behind the dispatcher.
* In `SendPath` an envelope adds two bytes: the frames are empty, share a chunk, fill
  one to the byte or exceed it, and exceed a message, a datagram or, with the headers
  of some lanes, only those.
* In `ContactEvents` three entities form pairs that share a member, which is where a
  callback of one pair changes another; two ticks see a contact begin and end.
* In `Snapshot` two saves are a first and a replacing one, sequential or overlapping,
  and the crash may fall between any two of their steps. Values and types vary
  in different builds, since what is left out does not depend on the value.

Deadlock is checked in `task_pipeline`, `task_pipeline_live` and `sequence_window`.
The other systems may really stop: a session has ended and the operations of the
situation are used up.

### Fairness

`task_pipeline_live`: the goroutines of a live process run (weak fairness of ticks,
workers, the steps of `finalizeLifecycle`, and of a shutdown that has begun); work
given to `SubmitTask` returns, which its documentation asks for; Go's `select` picks
among ready cases at random, so a loop that finds its context done again and again
leaves (strong fairness of `LoopExit`). Nothing makes the listener fail or the caller
cancel.

`sessions`: steps that need no peer are weakly fair; reads return once the transport
fails or is closed; the close handshake ends, because the libraries bound it. Clients
and the network owe nothing: reading, the snapshot's writes on a healthy transport
and the whole write pump, which may block for good on a client that does not read,
have no fairness. `ClosesComplete` therefore holds with a pump stuck in a write.

`game_client`: the goroutines of `Connect`, `ConnectPlan` and `Disconnect`, the
readers and the dispatchers run. That a dial and a resolver return is what
`ChannelFactory` and `DialOptionsResolver` ask of them; a game callback returns. The
server owes nothing: it need not send, no cut has to happen, and it need not read. A
`Close` therefore has to return only once its connection is cut (`Stuck` otherwise), and
`CallsReturn` and the fairness of `ClientSession` hold up to a call that waits there for
good.

## 4. Proofs

All theorems hold for every value of the constants that satisfies the named
assumptions of the modules: `ConfigAssumption`, `OutcomeAssumption`, `ItemAssumption`
(positive capacities and disjoint kinds of callbacks); `SeqAssumption` (a window
smaller than half the sequence space) and `MaxNumberAssumption`; `LinkAssumption`
(well-typed sessions, no more packets and messages than half the sequence space);
`SessionAssumption` (positive capacities, well-typed scenarios);
`GameClientAssumption` and `OneCaller` (one goroutine calls `Connect` and
`ConnectPlan`; any number call `Disconnect`); `ContactAssumption` and
`SnapshotAssumption` (bounds are numbers). Each is evaluated by TLC on the runs.

The form is always the same: an inductive invariant, that `Init` implies it, one
lemma per action or group of actions that it is kept, and the theorems that follow
from it. Except for small ones, the invariants were checked with TLC on the instance
of the component's run before they were proved.

* **TaskPipelineProofs.** `TypeCorrect`: the type invariant, one step per action, with
  lemmas for what appending to and taking from the queues does. `ShutdownOrder`
  (`CancelAfterMark`) and `LifecycleAdvances` (`LifeOnlyAdvances`) rest on `LifeInv`:
  neither is inductive, since one must know which stopper has marked the server, how
  far `finalizeLifecycle` is, and that a submission holds `lifeMu` only while the
  server runs. `StopsQuiet` (`StoppedQuiescent`) adds `QuietInv`, what each step of
  `finalizeLifecycle` has emptied and why nobody refills it. `RoundRobinHolds`
  (`RoundRobin`) adds `DrainInv`, which relates the counts taken at the start of a
  drain to the queues. `CountersAreExact` (`CountersExact`) adds `CountInv`: where a
  task can be (gate, pool queue, a worker, completion queue) decides what may have
  been counted of it, and it is in one place only.
* **DatagramProofs.** Of `DatagramSeq`, lemmas about the operators: the window stays well formed
  (`AcceptKeepsWindow`), does not take a number twice (`AcceptOnce`), reports what it
  took (`AcceptedIsReported`) and nothing else (`AckSound`); the Go client's variants
  agree with the server's except half a range away (`ClientWindowAgrees`,
  `ClientAckAgrees`). Further lemmas say what stays refused, and that a window which
  has not moved beyond its size has refused nothing it did not accept.
  Of `SequenceWindow`, `WindowIsExact` (`WindowExact`): through any number of
  wraparounds. The argument is about the distance of two true numbers and of their
  remainders (`WireDiff`): less than half the range apart, one determines the other.
  `WindowInv` says that the mask is the set of true numbers received, seen from the
  latest.
  Of `DatagramLink`, `LinkInv` has five parts. `NetInv` and `WindowInv`: what a
  header acknowledges, whenever it arrives, its maker has taken in, packet 0 apart.
  `NumberInv` and `SentInv`: a message has one ID, lane and order number in the queue
  and in all packets, and is in the packet it was last sent in. `DeliveredInv`: what
  is delivered or buffered came in a packet, the buffer is ahead of the next number
  to expect, and the message window refuses what was delivered. `TokenInv`: a state
  token is queued, in flight or settled. From these `ReliableOnce` (`DeliveredOnce`),
  `ReliableInOrder` (`OrderedDelivery`) and `TokensSettledOnce` (`VerdictsSound`).
  The run that fills a gap delivers several messages in one step; it is reasoned
  about as a sequence with named ends (`RunReady`, `RunDone`).
  `DroppedReachesApplication` (`AcksSound`) needs to know what a window refuses: a number
  it has accepted, or one that it has moved past (`RefusedWasAccepted`). What is received
  is then delivered, buffered or, on the unordered lane, out of the window
  (`ArrivedInv`). Packet 0 is left out, and so are unordered messages out of the window
  (section 3).
* **SessionLifecycleProofs.** `SessionTypes` by groups of variables. `CloseOnce`
  (`CloseIsFinal`): every step leaves close state and transport alone, runs
  `closeNow`, wins `beginClose`, or finishes a handshake (`CloseCases`).
  `ShutdownComplete` (`ShutdownIsComplete`) rests on `ShutdownInv`, in four parts:
  `LifeOf`, what the close state and transport of a session may be at each point of
  its handler; `PlaceOf`, which entries in the tables and which goroutines exist at
  each point; `CallInv`, that `CloseSessions` waits only for admitted sessions and
  that no handler becomes active once `closing` is set; `EventInv`, that events come
  from sessions that were announced, which keeps game code from closing a session it
  never saw. A handler that is being set up can lose
  `beginClose` only to a call of `CloseSessions`, which then waits for the transport
  (`Settling` in `LifeOf`): so nothing but such a call may still be closing one. `PumpsAlive` (`NoZombie`) adds `PumpsOf`: a pump that
  left its loop has closed the session, but for a datagram reader that left because the
  transport failed or the read pump is on its way out. `EventsOrdered` (`EventsInOrder`) adds that a session whose
  handler ended has parted: its disconnect is dispatched, queued or was dropped by a
  full queue. `NothingIsStranded` (`NothingStranded`) adds `WakeInv`, who owes a
  parked pump its wake-up. `TickAvatarsReaped` has the premise `InTick`, that avatars
  are spawned on the tick goroutine; the run `avatar_leak` shows that `AvatarsReaped`
  fails without it.
* **GameClientProofs.** `ClientInv`: an open channel is current, about to be installed
  or dropped by its attempt, taken by a `Disconnect` that has not come back from `Close`,
  or one that gave up by itself after it was installed (`Held`); who is to report a connection
  that ended, and that nobody did yet (`ConnOf`, `TookOf`); an attempt runs while no
  connection is current and its earlier channels are shut (`AttemptOf`). From it
  `NothingLeftOpen` (`NoneLeftOpen`), `NoLateBatch` (`NoBatchAfterDisconnect`) and
  `ClientImplementsSession`: every step is a step of `ClientSession` or stutters. The
  fairness of `ClientSession` is left to TLC.
* **ContactEventsProofs.** `ToldIn` says which pairs count as told in the middle of
  each of the four loops; `KnowsInv` that each registered entity was told exactly
  those, apart from the call to the second entity of a pair that is already decided
  (`SecondInv`). A callback may create, move, reshape and delete entities: none of
  this touches the two sets of pairs the loops run over, and a deleted entity leaves
  the statement. From it `EventsAlternateAlways` (`EventsAlternate`) and `ToldExactly`
  (`ToldIsContact`). `ContactsAreOfEntities` (`ContactsAreReal`) follows the shapes
  through update, step and read-back.
* **SnapshotProofs.** `DiskInv`: what a save has collected lies between the
  states at its call and now (`CollectInv`), which survives deletions because the save
  holds the objects; a save has collected everything before it opens its file
  (`Complete`), so every part of a file is from a save that has (`Sound`), also when two
  have written to it; and what a load of a whole file has restored and has left is what
  that save collected (`LoadingInv`). `AloneInv`: without overlap a save
  that has opened `path.tmp` owns it, and what is under `path` is not written to. From
  it `SnapshotAlwaysWhole` (`SnapshotIntact`); `LoadsAreExact` (`LoadRestores`) needs
  no `AloneInv`: it is about every load of a whole file, whatever saves overlapped
  before, and about the ID counter after every load. Nothing is said of the records of
  a torn file, and that the counter is above *every* registered ID is not an invariant
  (section 3).

* **LeftFold.** A loop over a list is a fold, and the prover has no induction over data.
  The module goes around that: it has the step of the loop as an operator constant
  `Op(env, acc, x)` and proves once (`FoldSteps`, `FoldRuns`) that the value of the fold
  is the last of a row of intermediate results, each one step from the one before. It
  imports nothing but the integers: `Fold` is `FoldLeft` of SequencesExt for that step,
  written out, and induction (`Induction`, over a set of naturals, not over a predicate)
  is a hypothesis of its theorems. `ReplicationProofs` proves it (`NatSetInduction`) from
  the library's facts about finite sets: an injection of a finite set into itself is
  onto. So each of the eight instances there is short, and the provers are not handed
  eight copies of the libraries. That module instantiates LeftFold with the step of each
  loop of the models, shows from the definition of `FoldLeft` that the loop is the fold,
  and reasons about the row by `UpTo`.
* **ReplicationProofs.** For any sets of entities and fields, any scenarios (under
  `ReplicationAssumption` and `InterestAssumption`) and any number of steps.
  - *The grid.* `GridOK` relates positions, the cell of each entity and the entities of
    each cell; inserting, moving and removing keep it, hence also the two loops of
    `updateGrid`. `GridIsExact` (`GridQueryExact`) then needs that rounding down is
    monotone and that a point within the radius is within it in each coordinate.
    `TicksFollowPositions` (`KnownFollowsPositions`) adds that only `ComputeDiffs` gives
    a spatial entity to what a session knows.
  - *What a tick sends.* `InterestStaysConfined` (`InterestConfined`) is again about
    retries. `TrustInv` says that a change in the tracker names an entity that is known,
    was known until a `RemoveFOI`, or leaves with the tick under way, and is redacted
    unless the entity is in `trusted`. The tick in its steps is the delicate part:
    game code may change owners between the diff and the sends, so what the diff says
    and who the owner is disagree. The exits, full states and changes of owner of the
    diff clear the tracker before anything is queued (`StillOwedFacts`), and that no
    entity both stays and exits (`VerdictsDiffer`) needs the invariant of the grid.
    An earlier form of the property had no `trusted`: the invariant it needs is not kept
    by a change of owner that is taken back between two ticks, which the small instance
    had not reached; section 3 says what the code does there.
  - *The tracker.* `TrackerOK(t, N, R, W)`: the changes of `t`, dirty and in flight, name
    entities of `N`, are redacted for those of `R` and whole states only of those of `W`,
    and every dirty entity has one place in the queue. One lemma for each operation of `EventualTracker` and for each
    loop over it. The queue is the delicate part: `markDirtyChange` compacts only when
    the lengths differ, and equal lengths do mean that nothing is stale (`FullQueue`).
    `QueueIsExact` (`DirtyQueueExact`) follows.
  - *Owner-only fields.* `PrivateStaysPrivate` (`PrivateOnlyToOwner`) is not inductive:
    a retry is sent long after it was recorded. `OwnerInv` says that the tracker is
    right for `N` the entities the session knows and `R` those it was last told it does
    not own, where `OldOwner` reads a pending change of owner from `refresh`; that a
    pass over entities with owner-only fields is filtered; and that what it flushed
    belongs to its entity. A filtered pass clears the entities whose owner changed
    before it sends, and from then on `R` is what the session does not own now.
  - *Revisions.* `ClientNeverGoesBack` (`NeverGoesBack`) compares two values at the
    client, and the invariant must say what old frames contain. `RevisionInv` says that
    there is a history `H`, a value for each entity, field and revision, growing with the
    revision, such that every frame on the stream, on the network or serialized by a flush
    shows what `H` was at its revision (`Good`; a full state may hide owner-only fields),
    and the client shows at most what `H` was at the revision it has seen. Setting a field
    extends `H` beyond the current revision and leaves older frames true.
  - *What the client shows.* `ClientMatchesKnown` (`KnownMatchesClient`) speaks of the
    moment the stream has been read; the invariant `KnownInv` says it of every moment.
    For an entity the server takes the session to know, the last word on the stream is a
    full state that no removal before it outdates, or the client shows it and nothing on
    the stream removes it (`Shown`). For another one the last word is a removal at a
    revision that no earlier frame, no datagram on its way and nothing the client has seen
    exceeds (`Gone`), unless it is `astray`. Four facts keep that up. The removals of a registered entity, on the stream and remembered
    by the client, are not above its revision (`OrderOK`), so that a full state sent now
    is not stale. A deletion is flushed at the last revision of its entity, and
    `RevisionInv` bounds what is in datagrams by it. And changes are owed only for
    entities that are known or have no removal on the stream, as whole states only for
    deleted ones, which are not sent (`Reach`, `Dead`): nothing that overtakes the stream
    or follows it in the eventual state brings an entity back. And the removals that a
    pass sends are those it takes from the known set in the end, outside `astray`
    (`AstrayOK`): a deletion during the pass may write over an entry of the list they
    share, and then both the entity it names and the one it replaces are astray, and
    deleted (`DespawnShares`). Both passes then come down
    to one lemma about full states followed by removals followed by changes
    (`TellKeepsKnown`).

Only model-checked, and why:

* Liveness: `WorkCompletes`, `RunReturns`, `ClosesComplete`, `CallsReturn`,
  `CutIsReported` and the fairness in `ImplementsClientSession`. Fairness and ENABLED
  are beyond the prover.
* `NothingForgotten` beyond its queue, `InterestComplete`: every flushed value is handed
  over, dirty, in flight or reported lost. The invariant would follow each field of each change
  through merging, splitting into datagrams and the verdicts, with what `handed` is after
  each list of frames.
* `Wire` and `SendPath`, which compute with recursive operators over sequences of
  bytes; the prover has no backend for a module that reaches one.
* `QueriesExact`: the geometry of sweeps multiplies variables, beyond linear
  arithmetic.
* `AvatarsReaped` for sessions that stay while a goroutine of the game spawns.

## 5. Not modelled

* Navigation, footprints, map import: floating-point geometry and libraries. Of the
  collision geometry: normals, depths, the order of hits, sweeps that are not
  horizontal, velocities, a shape added twice.
* Schema, code generator: batch programs from text to text, a third of the
  repository's lines. What the generated code does at run time is in `Replication`
  and `Snapshot`.
* World store, diagnostics, configuration, authentication, TLS and HTTP: one critical
  section per operation, or no state.
* Host: `Run` returns with the first of its two results; the other goroutine is not
  waited for.
* The JavaScript client's connection life cycle, the Unity client, the views in
  Phaser, Ebiten and Unity.
* Durations: delays may pass at any time, so nothing is said about how long something
  takes (the retry limit that is tested before the acknowledgement in
  `pruneReliableQueue`, the gap timeout that is kept across gaps).
* Two overlapping calls of `Connect`; a session that closes during a replication
  pass (a tick between the queued disconnect and `removeSession` recreates its
  tracker); a deletion between the two reads of one entry of `FlushResult.Removals`;
  power loss; what the bytes around the cut of a torn file decode to.

## 6. Plan

1. **Proofs**: `NothingForgotten` for any number of steps, along the invariants of
   `ReplicationProofs`.
2. **Overlapping `Connect` calls**: `GameClient` without `OneCaller`, model and proof.
3. **Models**: forgetting sessions after a disconnect; the JavaScript client's life
   cycle; a version of `DatagramLink` with clocks.
