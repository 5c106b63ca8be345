# A TLA+ verification of kafka-cad

kafka-cad is the backend of a collaborative CAD program. The full history of a
model is an append-only Kafka topic; everything else is a cache that tails it.
This directory specifies the parts of the backend in which the order of events
matters, model-checks them with TLC and proves the main results with TLAPS.
Paths below are relative to the repository's root.

## The system

The control flow is that of `README.md:31-38`: a client calls `api`, which reads
objects at an offset, lets `operations` change them and hands the changes to
`submit`; `submit` asks `dependencies` which objects refer to the changed ones,
fetches them from `objects`, lets `operations` update them and appends all changes
to the topic `ObjectState`. The caching services tail the topic.
`representations` tails it too and appends to `ClientRepresentations`, which
`rep_cache` caches and `updates` pushes to the connected clients.

| Component | State | Operations | What makes it correct |
|---|---|---|---|
| consumer loop (`*/src/kafka.rs`) | the group's committed offset in Kafka, the message in hand | join, fetch, connect to Redis, handle, commit, background commit | every message handled in order; a message is skipped only by a fault |
| `objects` (`objects/src/cache.rs`) | per object the list of its changes, newest first; per file the last offset and the set of objects | store a change (three Redis writes), `get_objects`, `get_latest_offset`, `get_latest_object_list` | a read at an offset answers with the newest change at or below it, also while the consumer writes or replays |
| `dependencies` (`dependencies/src/cache.rs`) | per reference the versioned set of its subscribers; per object its latest references | add, modify, delete; breadth-first search at an offset | at an offset, the subscribers are the objects whose references at that offset name the reference |
| `undo` (`undo/src/cache.rs`, `invert.rs`) | per file and user an undo and a redo stack of events, per event its entries | begin event, undo, redo; move entries when the undone changes come back through the log | no change is in two events or stranded in none; undoing an event restores what was before it |
| `submit` (`submit/src/update.rs`, `produce.rs`) | none; the request in progress | fetch dependents, update, append a batch | dependents follow the change; nobody else's change is undone |
| `api` (`api/src`) | none; the request in progress | create, move, join, delete, undo, redo, open file | a request acts on one consistent version |
| `operations` (`operations/`) | none | update objects along references; geometry of walls, doors, viewports, sheets | a chain of references is propagated to its end |
| `representations` | the message in hand | recalculate, append | one representation per change, in order |
| `rep_cache` (`rep_cache/src/cache.rs`) | per object the latest representation | store, get | the latest one wins |
| `updates` (`updates/src`) | file -> list of channels; per connection a channel of 100 messages | subscribe, unsubscribe, push | each subscriber gets every representation, in order; nobody waits on a slow client |
| `ui` (`ui/src/operations/operations.ts`) | the meshes shown | subscribe, open file, handle update | what is shown converges to the latest representations |
| `geometry-kernel`, `grpc-proxy`, `ui-server`, `trace-lib`, `tests` | none | - | not modelled: stateless pass-throughs and drivers |

Services share no memory. They interact through the log (asynchronous, ordered by
the single partition of a topic), through gRPC requests that may find the callee's
cache behind the log, and, inside a service, through Redis: the consumer task and
the request tasks run concurrently and only single Redis commands are atomic.

What is hard: the interleavings of those tasks; stops between two writes or
between a write and the commit, which make Kafka deliver messages again; Redis
restarting empty (`docker-compose.yml:64` disables persistence) under a group that
keeps its committed offset; requests that read two caches at different points of
the log; bounded channels behind a lock. `PROJECT.json` lists each under
`hazards` at its line, with the properties that cover it.

## Modules

| Module | Stands for |
|---|---|
| `LogConsumer` | the consumer loop every service that tails a topic runs |
| `ObjectCache` (extends `LogConsumer`) | the objects service: its consumer and its `get_object` calls |
| `VersionedStore` | what the objects service promises: a store of versions behind a log |
| `UndoCache` (extends `LogConsumer`) | the undo service: its consumer, its requests, and what `api` and `submit` do with the answer |
| `DependencyCache` (extends `LogConsumer`) | the dependencies service: diffs, versioned subscriber sets, the breadth-first search |
| `UpdatesHub` (extends `LogConsumer`) | the updates service: the locked map of senders, bounded channels, connections |
| `References`, `Wall`, `Door`, `VisibilityGroup`, `Sheet`, `Viewport` | `obj-traits` and `obj-defs`: what the pieces of an object evaluate to and how they follow a reference |
| `Operations` (extends `References`) | the operations library: joining, grouping, updating along references |
| `Editing` (extends `Operations`) | a caller of the library and its objects |
| `Submit` (extends `Operations`) | requests from `api` through `submit` to the log, of several clients |
| `FileView` (extends `LogConsumer`) | `representations`, `rep_cache`, `updates` and a client that opens a file |
| `MC...` | constants for TLC |
| `ObjectCacheProofs` | theorems about `ObjectCache`: its lists and answers; the file's offset and object list, and the refinement of `VersionedStore` |
| `UndoCacheProofs` | theorems about `UndoCache` |
| `DependencyCacheProofs` | theorems about `DependencyCache`: its sets; its searches |
| `UpdatesHubProofs` | theorems about `UpdatesHub` |
| `FileViewProofs` | theorems about `FileView` |
| `OperationsProofs` | lemmas about `Operations`: what it computes for any objects, references and searches |
| `EditingProofs` | theorems about `Editing` |
| `SubmitProofs` | theorems about `Submit` |

`Submit` composes `Operations` with the log and with what `ObjectCache` and
`DependencyCache` promise; `FileView` composes two consumers with what `UpdatesHub` and
`ObjectCache` promise. Each of the caches is checked against those promises in its own runs.

### LogConsumer

`log` is the topic's single partition; `position` is the offset of the next message
to handle; `start` is where the consumer joined and `committed` what the group's offset
in Kafka then was; `phase` (joining, polling, handling) is where the loop of
`handle_stream` (`objects/src/kafka.rs:43-96`) stands. `lost` and `faults` are
history: the offsets whose effect a fault skipped, and a count that bounds faults.

Commits have no action. `commit_message(.., Async)` is sent after every message and may
or may not reach the broker, and `enable.auto.commit` may commit the message in hand
before it is handled; what the broker has is read only by the next `Join`. So `Crash`
makes the choice: any offset after a message delivered since the consumer joined
(`Delivered` is the last one), or the offset the group had before.

| Action | Code |
|---|---|
| `Join` | the sleep, the creation of the consumer and `subscribe` (`kafka.rs:43-62`, `98-103`); no `auto.offset.reset`, so a group without a commit starts at the end |
| `Fetch`, `ConnectFailure` | the stream yields a message and a Redis connection is opened, or not: then the message is dropped |
| `Handled`, `HandlerFailure` | `handle_message` returns; its error is only logged; the commit is sent either way |
| `Crash` | the process stops and is started again, with whichever commits the broker has |
| `RedisRestart` | Redis comes back empty; a message in hand fails because its connection does |

The branch that logs a Kafka error event changes nothing and has no action. An error
while the consumer is created ends the task for good (`kafka.rs:100`); it is left out.

### ObjectCache

`cache`, `fileOffset` and `objList` are the three kinds of Redis key
(`objects/src/cache.rs:61-71`). `update_object_cache` is three awaited writes and is
three actions, `StoreObjectChange`, `StoreFileOffset`, `UpdateLatestObjList`; `step`
says which comes next. A message that `handle_message` or `update_object_cache` refuses
before it writes (no payload, no key, undecodable, no change type) has the kind
`"Invalid"` and is taken by `RejectMessage`. `get_object` is an LLEN and then one
LINDEX per entry; `ReadLength` and `ReadIndex` are those round trips, and `reader`
holds each call's local variables. `asked` is history: the lowest position of the
consumer since the call began. Payloads are reduced to the file, the object and the
kind of change.

`VersionedStore` is the promise to the other services: a query at an offset the
store had passed gets the newest version at or below it, a later one gets some
version at or below it, any query may miss, and nothing is promised for an object of
which a change was skipped. `ImplementsStore` is the refinement.

### UndoCache

`stack[u][side]` is the Redis list `file:user:undo` or `file:user:redo`, `entries[e]` the
list of an event; events are numbered in the order their ids are generated. `step` and
`target` are the consumer's place and local variable in `update_undo_cache`, `call[u]`
the local variables of a user's undo or redo.

| Action | Code |
|---|---|
| `SubmitChange` | a user's own change reaches the log (`api/src/main.rs:206-372`) |
| `BeginUndoEvent` | `begin_undo_event`, one RPUSH (`undo/src/cache.rs:242-260`) |
| `TakeMessage` | the consumer takes a message; its `change_source` selects the branch (`cache.rs:184-226`) |
| `TakeEntry`, `RefuseEntry` | `pop_entry_from_event` (86-111), or its NoObjInUndoEvent |
| `DropEventIfEmpty` | `delete_event_if_empty` (74-84) |
| `FindTopEvent`, `RefuseMessage` | `get_current_event_in_stack` (113-127), or its NoUndoEvent |
| `AddEntry` | `add_entry_to_event` (35-51), the end of the message |
| `StartUndo`, `ReadEntries`, `OpenEvent` | `undo` and `redo` (272-307): LINDEX, LRANGE, RPUSH of an event on the other stack |
| `InvertChanges` | `invert_changes` (`undo/src/invert.rs`) with the answer of the objects service, and `submit`'s map by object (`submit/src/update.rs:5-30`): `IndexMap` keeps of an object's changes the last, in the place of the first, which is the order `Send` follows |
| `Send` | `submit` appends one of the inverse changes |
| `FailCall` | a service the request needs does not answer: the request ends where it is |
| `CrashService`, `RestartRedis`, `DropMessage`, `AbandonMessage` | the faults of `LogConsumer`; a stop also ends the requests the service was serving |

`pop_entry_from_event` and `delete_event_if_empty` are two commands each and one step
here: only the consumer task writes entries and removes events, and what a request writes
(a new event on top of a stack) neither command reads. Between them, and between the
commands of a request, everything interleaves.

The objects service is external. `seen` is how far it is known to have stored the
log; a request finds it anywhere from there to the end of the log, and while it is storing
changes of an object a read of that object may miss, which is what `ReadFindsExisting` of
`ObjectCache` shows of it. `get_objects` is taken to be one read.

Abstractions: one file (keys of files are disjoint); objects refer to no others, so
`submit` adds no dependents; a client waits for an answer before its next request; a payload is
the number of the state it puts the object in. `refused`, `misread`, a call's `late`, and the
`event` of a user's own change are history.

### DependencyCache

`objRefs` is the Redis key `file:obj:deps`, `subs[r]` the list of versions of the subscriber set of
the piece `r` (`dependencies/src/cache.rs:122-134`). A handler reads everything it needs
before its first write, and only the consumer writes, so `StoreObjRefs` computes what
changes and stores the object's references in one step; `changed` is the local map of new
sets, which `PushSubs` pushes one at a time in any order. A stop between them makes the replay
diff the new references against themselves; `Deleted` and `Added` are the diff.
`search[s]` is the state of `breadth_first_search`: the queue, the visited set, the result, and
the LLEN/LINDEX scan of `get_ref_id_subs` (`PopRef`, `ReadIndex`, `Visit`).
What a search should answer is `Reachable`, over the references in the log at an offset, with no
versions and no diffs: what is in every set of RefIDs with the start that is `Closed` under them.
`Undisturbed` is when an answer must be complete: the consumer was past the offset, skipped nothing, and
pushed to no set under its scan.

### UpdatesHub

`senders` is `FILE_TO_CHANNEL_MAP`, `index` where the consumer is in the list it has locked (0:
it holds no lock), `failed` its `to_delete`. `pc[c]` is where the task of a connection is:
in its `select`, before a map access (`"subscribe"`, `"insert"`, `"unsubscribe"`), or sending to its socket.
`sent[c]` and `taken[c]` are its channel, with what went through it before. The map is a `DashMap`, whose
shards are locked as a whole: `ShardOf`. A task that finds the shard locked blocks.

| Action | Code |
|---|---|
| `PassOver`, `LockSenders` | `handle_message` up to `get_mut` (`updates/src/kafka.rs:21-34`) |
| `SendNext`, `SendFails` | `send().await` in the loop: room in the channel, or the receiver is gone |
| `RemoveFailed`, `Release` | the removals from the end, the end of the guard's scope |
| `Accept`, `Receive`, `TakeUpdate`, `ClientReads`, `Disconnect` | the two arms of `select` (`updates/src/main.rs:40-134`) |
| `Subscribe`, or `SubscribeFirst` and `Insert` | `get_mut` finds the entry, or does not and a second access inserts one |
| `Unsubscribe` | the first sender with the user's name is removed |
| `CrashService` | the process stops; map and connections are gone, commits as in `LogConsumer` |

Abstractions: a thread that blocks on the map does not keep the other tasks from running (there
are more worker threads than blocked tasks); with fewer threads more would block, so `PushedUnlessStuck`
is about the locks and not about the pool. `select` prefers the socket when both are ready; here either may
come first.

### References, the kinds of object, Operations, Editing

An object is a record of its kind; `W!`, `D!`, `G!`, `P!` (sheets) and `V!` (viewports) are the implementations of the trait `Data`, which
`Operations` dispatches to by the kind, as `typetag` objects do. Operators have the names of the Rust
functions. A point is its coordinate on a line: what the code computes of a place is its distance to a guess, which of
two is nearer, and how far along a line it is, and one dimension has all three, with degenerate lines and the
NaN they leave (`InterpAlongLine`, `LineSegUpdated`). Heights, widths, names, views and drawing are left out.
Indexes start at 1.

`Editing` calls the library in any order on the objects it created. `UpdateFrom` is the operations
service's `update_objects` with any order the search of `dependencies` may answer (`BreadthFirst`, `GetAllDeps`).

### Submit

`req[c]` holds the local variables of a request: `changes` after `api` and `operations`,
`refs` after `dependencies`, `batch` after the update, and while it is produced `unsent`, the places in the batch still to be sent,
and `at`, the offsets of those delivered. The answer of the client's last request stays what it knows until the next one.

| Action | Code |
|---|---|
| `CreateWalls`, `CreateSheet`, `CreateViewport` | the handlers that add objects: a new id, and nothing is read |
| `MoveObjects`, `JoinObjectsAtPoint`, `DeleteObjects`, `UndoLatest` | the handlers of `api/src/main.rs`: objects read at the request's offset, `operations` called, the changes handed to `submit`. An undo inverts the batch of the client's last request (`undo/src/invert.rs`); `UndoCache` has the stacks |
| `GetAllDependencies` | `extract_info`, and the search from every piece that owns a reference |
| `UpdateChanges` | the missing objects are fetched at the same offset, and everything follows (`submit/src/update.rs:76-146`) |
| `Send`, `SendAgain`, `Undelivered` | the messages of `produce.rs`, without waiting for each other; one sent again is overtaken by the next; one is not delivered |
| `Answer`, `Panic` | the offset of the last message, or the `unwrap` of a failed delivery |

`stored` and `known` are how far `objects` and `dependencies` have stored the log. `GetObject` and `Dependencies` are
their answers as of an offset; a service that has not reached the offset answers from what it has, which is the
fault `"behind"`. `disturbed` and `split` are history: the objects written by a request that read a service that was
behind, read in the middle of a batch, lost a message, or was overtaken by another request for the same object. `crossed` is
history too: the objects whose message arrived after another request had written an object they refer to and this one had not read.

### FileView

`LogConsumer` is extended for `representations` and instantiated as `Cache` for `rep_cache`. `reps` is the topic
`ClientRepresentations`: each entry is the offset of the change it shows, so a newer representation is a larger number
(the program has no such number, and cannot compare). `CalcRepresentation` delivers before `CommitChange`; a stop in between
sends it again. `StoreObjectRep` is one SET. The client subscribes and opens the file (`InitFile`), `PushUpdate` and
`Subscribe` are `updates`, `OpenFile`, `ReadRepresentation` and `ReadsFail` are `api`'s `open_file`, and `ReceiveUpdate` and
`ReceiveOpened` both end in the ui's `handleUpdate`. Websocket messages may reach it in another order, because each waits for its
own `arrayBuffer()` (`ui/src/operations/operations.ts:27`): `stream` is the set of their places in `reps`. `subscribed`, `seen` and `newest` are history.

`open_file` sends what `if let Ok` lets through (`api/src/main.rs:191`), so an object is left out without a word both when nothing is stored for it
(`ReadRepresentation`; `rep_cache` answers NotFound) and when the call fails (`ReadsFail`): `rep_cache` opens a Redis connection for
each call (`rep_cache/src/main.rs:52`), or does not answer, or the list breaks off (`api/src/main.rs:200`). One fault may fail any of the
calls that are left, as an outage would. `seen` tells the two apart: it is 0 for an object that was not read.

Abstractions: `updates` hands on what it takes, in order, and has no fault here (`UpdatesHub` has them); the object
list is that of any prefix of the log, which is what `objects` may have stored.

## Runs

| Run | Bounds | Question |
|---|---|---|
| `ObjectCache_service` | 2 objects, 1 reader, 2 messages of all kinds or 3 changes of one object, 1 fault of any kind, fair | are lists, offsets, object lists and answers right, also when a replay puts older changes over newer ones; is everything stored in the end; is the service a `VersionedStore`? |
| `ObjectCache_shift` | 1 object, 1 reader, 2 messages, no fault | *violation*: does a read find what exists? |
| `UndoCache_faults` | 1 user, 1 object, 3 messages of all kinds, 3 events, 1 fault of any kind | do stacks and events stay sound through stops, replays, failures and a restart of Redis? |
| `UndoCache_race` | 1 user, 2 objects, 4 messages, 3 events, no fault | can undos and redos that overtake the consumer lose or double an entry; do they restore what was there? |
| `UndoCache_event` | 1 user, 1 object, 4 messages, 3 events, no fault | *violation*: is everything undone when nothing is left to undo? |
| `DependencyCache_graph` | 2 objects with 5 lists of references each, 3 messages, 1 fault of any kind | are the subscribers of every piece right at every offset? |
| `DependencyCache_search` | 2 walls that may refer to each other, 2 messages, 1 search, 1 stop or restart of Redis, fair | does a search end, and is its answer complete and in order? |
| `UpdatesHub_push` | 2 connections of one user, 1 file, channels of 1, 3 commands, 2 messages, 1 stop, fair | who is sent what, who stays subscribed, does the consumer go on? |
| `UpdatesHub_deadlock` | the same without the stop | *violation*: is every message pushed? |
| `Editing_calls` | 2 walls, 1 door, 1 group, 3 even coordinates, guesses 0 and 2, 4 calls | do joins and updates leave objects that agree? |
| `Submit_requests` | 2 clients, 3 walls (2 there at the start), a sheet, a viewport, 3 requests, 1 fault of any kind | do joined ends stay together and deleted objects deleted? |
| `FileView_open` | 2 objects, 2 changes of all kinds or 3 of one object, 1 fault of any kind in either service or in `api`'s calls, fair | what does a client show in the end, what does `rep_cache` settle on, and what holds on the way (`ViewInv`), also when older representations follow newer ones? |

Bounds. A group that never committed joins at the end of the log, and a commit names an offset behind a message it was given, so
the first message is never handled twice: two messages give a replay of the last one (0, 1, 1), and three are the fewest with which an older
change comes after a newer one (0, 1, 2, 1, 2). So `ObjectCache_service` and `FileView_open` have `MaxLog` 3, and the bound
`Explored`, a guard of `Submit`, keeps the number of logs small (`ExploredLogs` in the MC modules). The objects are
interchangeable, so the first message is of `x`. Logs of two messages are all explored; those of three are changes
of `x` only, an Add and two changes that are a Modify or a Delete (`ObjectCache_service`) or an Add and two Modify (`FileView_open`).
For `ObjectCache`, two objects are the fewest with which the log holds messages an object's list skips over, and the replay of
three changes concerns one list; one fault gives every single-fault
scenario. Readers do not affect each other, so one is enough. The theorems below hold for every `MaxLog` and `Explored`.

For undo, three messages are a change, its undo, and a redo or a second undo that
overtook the consumer, and three events the user's own and those the two requests open;
the fourth message of `UndoCache_race` gives an event of two objects its undo in two
messages, between which the consumer and another request run. Users
share nothing but the log (stacks are per user, and an event's id reaches only the user who
undoes it), so one is enough for the stacks; changes of an object by a second user
between a change and its undo are not explored. The objects are interchangeable
(`ObjSymmetry`), and the properties name none.

For `DependencyCache`, three messages are an Add, a change of its references and a third that uses what the second left,
which is also what a replay of the second works on; the lists of references have a slot set, cleared, pointed
elsewhere, and lists of different lengths. The search needs two walls to have a cycle and a piece at distance two.

For `UpdatesHub`, a channel of one is full after one message, as one of 100 after a hundred; two connections of
one user are what the races on the map and on the user's name need; three commands are two Subscribes and an
Unsubscribe or a second Subscribe while the channel is full.

Four calls of `Editing` are two joins that share an object, a move or a clearing, and an update. Three requests of
`Submit` are a join, a move and an undo or a deletion by either client, each at an old or the newest offset; the third wall
can be created and undone. A sheet, its viewport and the sheet's deletion are three as well. A third client would add nothing
two do not do to the same wall. Two changes in `FileView_open` are enough for each of two objects to have one or one object to have two, a deletion
included. The replays that send an older representation after a newer one are of one object with three changes: one is enough, because nothing in
`rep_cache` or in what is pushed relates one object to another, and those three hold no Delete, because a deletion is a
representation like any other and only the object list tells it apart.

"Under one fault" is, for `Submit`, one of three: a service that is behind, a message not delivered, one sent again out of
order. That `objects` or `dependencies` skips a message (`objects/src/kafka.rs:88`) or that its Redis restarts empty
(`docker-compose.yml:64`, `86`) is not among them: a request then reads a state that never was, without being counted as disturbed, and neither
`JoinedEndsAgree` nor `DeletedStaysDeleted` says anything of it. What those faults do to the services is in `ObjectCache_service`
and `DependencyCache_graph`. Nor does the producer, which is not idempotent (`submit/src/produce.rs:15-19`), put a message into the log twice here: a
message sent again stands for one whose first sending did not arrive, and only the order changes.

Deadlock is not checked: logs, requests, commands and calls are bounded, so every model stops at its bounds.

Fairness. `EveryChangeStored`: weak fairness of `Consume`, the steps of a consumer task, which is a loop spawned on the runtime
and waits for nothing but Kafka and Redis. `SearchEnds`: weak fairness of a request's steps. `PushedUnlessStuck` and
`EveryMessagePushed`: weak fairness of the consumer, of each connection's task, and of each client's reading what it is sent; the
last is not the program's to give, and without it a client that does not read stops the consumer, which the deadlock finding does
not need. `OpenSettles`: weak fairness of the services, of `updates` and of the client's handler. Producers, requests and
faults have none.

### What the runs show

* `ReadsBelowPosition`: whatever was replayed, a list answers a scan correctly at every
  offset the consumer has passed, although after a replay its offsets are no longer
  sorted.
* `RacingReadNeverWrong`: a scan whose indexes shift under it never returns a wrong
  version. It may miss one: see the findings.
* `OffsetAfterEntry`: a client that reads the file's offset finds that offset's
  change, because the entry is pushed before the offset is set.
* `FileStateSettled`: the file's offset and object list follow the log, except for what a
  fault skipped; a replay repairs what it set back.
* `EveryChangeStored`: a change is stored in the end or was skipped by a fault, or by the first join
  (`lost`): a message that fails does not hold up the next.
* `ImplementsStore`: other services may be specified against `VersionedStore`.
* `EventsSound`: through any fault and replay, an event is on one stack, once; its
  entries are changes of the stack's user and belong on that side; no entries are left in an
  event nobody can reach. The last holds only because an event is dropped by the same
  task that fills it, and only when it is empty.
* `UndoConserved`: without a fault in the service, every change that found an event is in exactly
  one, however undo and redo requests overtake the consumer: a request that
  inverts an event a second time before the first has come back produces messages that are
  refused (NoObjInUndoEvent), not duplicates. It is not stated for runs with faults: a
  stop between taking an entry and adding it loses the entry, as the replay refuses the message.
* `UndoRestores`: what an undo or redo submits is the state before the change undone,
  whatever has happened in between, if the event has one change of the object and the
  objects service was not behind.
* `NoSubscriberMissing`: at every offset the consumer has passed, whoever refers to a piece is among its
  subscribers, through stops between the writes and replays that diff references against themselves: a
  replay adds again what it finds set, and what it does not remove only makes the set larger.
* `StaleOnlyIfRepointed`: the sets are larger than the references in exactly two cases, an object added again and a slot
  pointed elsewhere. `SlotsNeverRepointed` of `Editing_calls` shows that no operation does the second.
* `SearchComplete`, `SearchEnds`: a search at an offset the consumer had passed answers with everything that depends on
  the piece, each once and after what it was reached from, and ends although joined walls refer to each other. A push under the
  scan of a set may lose its subscribers (`shifted`), as in `objects`.
* `SentAsAsked`, `SendersServed`: each channel gets the topic in order, nothing of a file its client did not ask for,
  nothing twice, and nothing is left out while closed channels are removed from the list around it.
* `SubscribersKept`: a connection stays subscribed as often as it asked. Excepted are two races of the code: two first
  Subscribes of a file, of which the second `insert` discards the first, and an Unsubscribe that takes out the sender of
  another connection of the user.
* `PushedUnlessStuck`: closed connections, full channels and stops do not stop the consumer; a circular wait with a connection does.
* `UpdateSettles`, `DoorOnLine`: after an update, everything it touched agrees with what it refers to and a door is on its wall,
  cycles or not, unless the object referred to was moved by a later reference of the answer: the search orders by distance.
* `JoinIsMutual`, `SnapNamesResult`: two walls joined where the first ends refer to each other's ends, at one place; a snap
  names the result it copied unless an opening was emptied before it.
* `JoinedEndsAgree`: ends joined to each other are at one place whatever was moved, joined, deleted and undone, by
  propagation over `dependencies`, unless a disturbed request wrote one of the walls. Requests are not compared with the log when they
  are sent, so an overtaken request does undo the other's change, and nothing tells. Two more exceptions take more requests than the
  run has. Two deleted walls that were joined, one moved in between, are brought back by two clients at once: each request searches the
  graph as of before the other, so neither end follows (`crossed`). And a reference may stay in `dependencies` after its slot was
  cleared and filled again, by an undo, whose messages are Adds, or by a disturbed request: a later move follows it, and the end leaves the one it
  is joined to (`Only`).
* `DeletedStaysDeleted`: dependents are submitted as what they last were, so a deleted object is deleted again, never revived, unless
  a request was disturbed. Both properties hold through a message that is sent again: the answer may then be behind a part of the
  client's own batch, and a request that starts there, from a torn batch, counts as disturbed.
* `CacheSettles`: representations sent again after a stop come before the last ones once more, so what `rep_cache` settles on is the
  last change of every object.
* `ShowsLatest`, `OpenSettles`: an open comes to rest, and the client then shows the last change of every object, but for four ways to
  stay behind: its representation was never made; it fell between the subscription and the open; the open asked for it in vain,
  because a call of `rep_cache` failed, which `api` passes over (`api/src/main.rs:191`), the end of the stream being all
  the client gets; or it was shown and overwritten by an older one. In the second and third the representation is of before the
  subscription: what is pushed after it arrives whatever the open does.

### Findings

* **A stored object is reported missing** (`ObjectCache_shift`, `objects/src/cache.rs:155`).
  LLEN, then an LPUSH by the consumer, then the LINDEXes: the oldest entry has moved past
  the end of the scan. The shortest trace has two changes and no fault. `undo` answers a
  missing previous version with a Delete (`undo/src/invert.rs:117-125`).
* **An event with two changes of one object is undone only half way** (`UndoCache_event`,
  `submit/src/update.rs:21`). Entries are inverted in the order of the changes and `submit` keeps the
  last per object; the one message that comes back moves the first entry. The second undo
  restores the middle of the event once more, and the stack is empty.
  `tests/test_undo_redo/src/main.rs:103-115` makes such an event and checks only that
  requests succeed.
* **The push to clients stops for good** (`UpdatesHub_deadlock`, `updates/src/kafka.rs:42`). The consumer awaits room in
  a channel with the map entry locked; the channel's own task waits for that lock, to handle a Subscribe, before it empties the
  channel. Every client reads; no file is pushed again until the process is restarted.

Known and left as exceptions of the properties, because no doc or test says otherwise: an undo while `objects` is behind
`undo` deletes the object (`undo/src/invert.rs:117`); a change may land in the next undo event
(`undo/src/cache.rs:138`); what is submitted before a group's first join is not cached (`objects/src/kafka.rs:49`); and the
exceptions named above.

Two limits are narrower than "Updates all dependent objects" (`README.md:25`), and no run states them. `JoinedEndsAgree` is about live walls that refer to each other, because a Delete has no pieces to search
from (`submit/src/update.rs:24`), so what refers to a deleted object, a viewport to its sheet for one, keeps the reference, and
because the search is in the graph at the request's offset (`update.rs:136`), where the references the request itself adds are not:
when the second half of a join moves the end the first half was snapped to, what was snapped to it stays behind.

## Theorems

All hold for any sets of files, objects, readers, users, searches and connections, any lists of references, any capacity of the
channels, any length of the log and any number and kinds of faults, from the assumptions the modules make of their constants:
`ConsumerAssumption`, `KindAssumption`, `EventAssumption`, `HubAssumption`, `SubmitAssumption` (coordinates are integers, a list of
ids names none twice, as the `ui` selects, and the ids of walls, sheets and viewports are different, as UUIDs are), `EditingAssumption`
(the same for walls, doors and groups, and a file has finitely many objects), in both of which `NoneIsApart` says that `None` is not a value
an `Option` may hold (in `SubmitAssumption` also that it is no wall and no change of one), and `ReferenceAssumption`, which says that there are
finitely many RefIDs (a log is finite) and that an object owns its references and keeps a reference in its slot (a slot has a type and an
index, `operations/obj-traits/src/references.rs`; that no operation points a slot elsewhere is `SlotsNeverRepointed`).

| Module | Theorem | Statement |
|---|---|---|
| `ObjectCacheProofs` | `TypeCorrect` | `Spec => []TypeOK`, which includes that no scan leaves its list |
| | `Inductive` | `Spec => []IInv` |
| | `ReadsAreCorrect` | `Spec => []ReadsBelowPosition` |
| | `RacingReads` | `Spec => []RacingReadNeverWrong` |
| | `OffsetsAreStored` | `Spec => []OffsetAfterEntry` |
| | `FilesSettle` | `Spec => []FileStateSettled` |
| | `CacheImplementsStore` | `Spec => ImplementsStore`: the refinement |
| `UndoCacheProofs` | `StacksInductive` | `Spec => []StackInv` |
| | `EventsAreSound` | `Spec => []EventsSound` |
| | `QuietInductive` | `Spec => [](StackInv /\ QuietInv)` |
| | `EntriesAreConserved` | `Spec => []UndoConserved` |
| | `UndoTypeCorrect` | `Spec => []TypeOK` |
| | `RestoreInductive` | `Spec => [](StackInv /\ RestoreInv)` |
| | `UndosRestore` | `Spec => []UndoRestores` |
| `DependencyCacheProofs` | `GraphInductive` | `Spec => []GraphInv` |
| | `NobodyIsMissed` | `Spec => []NoSubscriberMissing` |
| | `StaleInductive` | `Spec => [](StaleInv /\ StaleOnlyIfRepointed)` |
| | `StaleAreRepointed` | `Spec => []StaleOnlyIfRepointed` |
| | `SearchTypeCorrect` | `Spec => []TypeOK` |
| | `SearchInductive` | `Spec => []SearchInv` |
| | `AnswersAreComplete` | `Spec => []SearchComplete` |
| `UpdatesHubProofs` | `HubTypeCorrect` | `Spec => []TypeOK`, which includes that no channel exceeds its capacity |
| | `HubInductive` | `Spec => []HubInv` |
| | `SentOnlyAsAsked` | `Spec => []SentAsAsked` |
| | `AllServed` | `Spec => []SendersServed` |
| | `SubscribersStay` | `Spec => []SubscribersKept` |
| `FileViewProofs` | `ViewTypeCorrect` | `Spec => []TypeOK` |
| | `ViewInductive` | `Spec => []ViewInv` |
| | `CacheSettlesOnLast` | `Spec => []CacheSettles` |
| | `ClientShowsLatest` | `Spec => []ShowsLatest` |
| `SubmitProofs` | `RequestsInductive` | `Spec => []RequestInv` |
| | `DeletedStay` | `Spec => []DeletedStaysDeleted` |
| | `RequestTypesCorrect` | `Spec => []TypeOK`: every message is of an object as the operations make it |
| | `JoinedAgree` | `Spec => []JoinedEndsAgree` |
| `EditingProofs` | `ObjectsCorrect` | `Spec => []ObjsOK` |
| | `TypeCorrect` | `Spec => []TypeOK` |
| | `SlotsFixed` | `Spec => SlotsNeverRepointed`: an action property |
| | `UpdatesSettle` | `Spec => []UpdateSettles` |
| | `SnapsNameResults` | `Spec => []SnapNamesResult` |
| | `DoorsOnLines` | `Spec => []DoorOnLine` |
| | `JoinsAreMutual` | `Spec => []JoinIsMutual` |

Objects. `ReadsBelowPosition` speaks of offsets below `position`, so a push, which
adds an entry at `position`, never disturbs it (`PushBelow`). When the position moves past
the message, the scan at that one new offset must find the entry just pushed: this needs
`PushedFirst`, that between push and end of handling the entry heads its list
(`PushAt`). When the position moves past a message that is no change of the object, the
answer must be that of the offset before (`PassOver`), which needs `EntriesGenuine`: an
entry's offset is one of the object's changes, so there is no entry between the two
offsets. A replay only lowers the position. For calls in progress, `ReaderInv` says that the
entries a scan has passed all lie above its offset and stay there when a push
shifts them, because what is pushed lies above it too. `IInv` is the conjunction;
`ObjectCache_service` checks it as an invariant.

`OffsetAfterEntry` needs two facts: that an entry once pushed is somewhere in its list until Redis restarts, which
sets the offset back too (`EntriesStay`), and that between the push and the write of the offset the change in hand
has its entry, which is `PushedFirst` again.

Undo. `EventsSound` is not inductive: that the entry the consumer adds lands in an event still on its stack, and on the
stack of the right user, depends on where the consumer is. `StackInv` adds that (`TaskOK`: the event found on top of a
stack is on it when the entry is added), which holds because only the consumer removes events, requests only push fresh
ones (`OnOpened`), and `DropEventIfEmpty` takes the place of one event and only of an empty one (`DropEffect`). It also says that
messages and requests name events generated before (`MessagesOK`, `CallsOK`), so a fresh event is on no stack. What
removing from a sequence does is `RemoveAtProperties` and `RemoveFirstProperties`; the latter needs that `Min` of a set
of naturals is one of them, which is the well-foundedness of `<`.

`UndoConserved` counts entries, so it needs that no entry is refused a place once it was taken out of an event: in `undo`'s
code the second half of a move, `get_current_event_in_stack`, may fail after the first. `QuietInv` says why it does not
before the first fault. The event a request opens on the other stack is not the one it works on and is named by no message in
the log (`CallReceives`), because its id is fresh and nobody can choose it before it is on the stack; each message the request sends
inherits it (`MessageReceives`), and an event is dropped only by a message that names it (`DroppedIsNamed`), which comes later in the log.
`OwnersOK`, that what a user's messages name is on no stack of anybody else, makes the step hold for every number of users.
The count then changes only when the consumer passes a message: by the entry added, the offset refused, or nothing when the entry moves
(`CountedAdd`, `CountedRefused`, `CountedTake`).

`UndoRestores` is about a request whose answers were in time: `Previous` looks below the entry's offset and below what `objects` is known to
have, which for such an entry is the same as below the offset (`InverseRestores`). The log only grows, so what was before an entry
does not change while the request goes on (`UndoneStays`); this needs that the entries it read are offsets of the log (`ListsLogged`), which is
`EventsSound`. An inverse that is left out, of a change that follows a deletion, is one of an object that should be absent:
`DeletesAbsent`.

Files. `FileStateSettled` is the sum of two facts about the last change of an object, or of the file. While its message is in
hand, what `StoreFileOffset` and `UpdateLatestObjList` write is what it says; once the position is past it, every message passed since was
applied, refused because it is no change of it, or recorded in `lost`. A replay starts over with older changes,
but it also comes to the last one again.

Refinement. `CacheImplementsStore` maps the initial state and every step. A push, a write of the file's offset or list, and each LINDEX map
to no step of the store; a message that is passed, a join, a fault and the start, the end or the failure of a call each map to one. A hit maps to an
allowed answer by `IInv`: what the scan has passed lies above the offset, so the entry hit is the newest at or below it when
the consumer was past the offset all along, and is one at or below it in any case; a miss is always allowed.

Subscribers. `NoSubscriberMissing` says nothing of sets pushed at offsets the consumer has not passed again, and yet a replay computes
from them. `GraphInv` therefore says of every set, pushed or pending, that it is complete for its own offset (`EntriesCover`,
`PendingCover`), and that the change with which an object got a reference leads the list of the set (`ChangesLead`: no older
version is met before it, whatever was replayed). What `SubsAt` finds at an offset was then computed between the object's last change and
the offset, where the object's references were the same. For the object that changes, `NothingOfNewDeleted`: what the diff
takes out is no reference of the new list, because a reference keeps its slot; this holds also when the replay diffs the list against
itself, and for any old list Redis may have kept.

The other direction, `StaleOnlyIfRepointed`, is about runs without a fault: after one, a set may hold anyone a skipped or repeated
change left there. It is inductive with `StaleInv`: no set is newer than the message in hand (`SetsBehind`), the list
the diff starts from is the one of the log (`RefsCurrent`), and what a message has still to push, or leaves as it was, names no one
without a reason (`PendingExplained`). Who is found before a message and has no reason after it was given up by a message that did
not take it out (`GivenUp`), an Add or a slot pointed elsewhere.

Searches. `SearchInv` says that what was visited and looked up has its subscribers visited. A hit is at the set of the offset, because
what is pushed under a scan is newer than the offset the consumer had passed; a scan that ends without a hit over a list that did
not grow shows that there is no set, and then, by `GraphInv`, nothing that refers to the RefID. When nothing waits, the visited RefIDs are a
closed set with the start, and `Reachable` is in every such set: no induction over paths is needed.

Hub. A list that is being sent to is locked, so only the consumer changes it, and only past its end. `RestAsked` says that what the
channel was sent of the message in hand and the senders of the connection still ahead are together at most its Subscribes, which is what a
shift of indexes under the loop would break; `FailedAreClosed` says that what is taken out at the end are senders of tasks that have
ended, which needs that the last one goes first. `SendersServed` and `SubscribersKept` are inductive with these: a sender taken out is
of another connection, or of the user who left, and counting is by `CountAppended` and `CountRemoved`. A message delivered again after a
stop finds an empty map.

Views. `CacheSettles` and `ShowsLatest` speak of states in which nothing is under way; `ViewInv` says what holds on the way there. A
representation sent again after a stop is followed once more by those of the later changes, so `RepsInOrder`: behind the
representation of a change that is handled there is none of an older change of the object. It is about what is behind some place and not
about every place, because a replay does put old representations behind new ones for a while; while it lasts the position is back, and
the newer changes are no longer among the handled ones. `CacheHolds` says that `rep_cache` has
the last representation of an object once it is past it; a restart of Redis loses it, and records it in `cLost`. `PushedArrive` and
`ReadArrive` say of each of the two ways to the client that what went in is on its way or was shown, this one or a newer one. What is not
in them, a representation of before the subscription that `rep_cache` did not have when the object was read, or of an object that was not
read because the call failed, is `IsMissed`.

Requests. `DeletedStaysDeleted` speaks of the log, and what a request will add to it was read long before. `RequestInv` says of every
request that was made from the state at its offset that what it modifies was there then (`Grounded`): what the handlers modify because
they read it, what follows because it is submitted again as what it last was, a Delete if it is deleted, and what an undo restores because a
change of it came before. Nothing is locked, so by the time a message arrives the object may be deleted; the deletion is
then behind the request's offset, and the request ends as a disturbed one, which is when `Followed` must hold without its exception for
batches that are being sent (`Sending`). When a message overtakes another, the answer is behind a part of the batch and the next request may
start there: `Overtaken` says that what the batch modified behind the answer was there at the answer, or was written by a
disturbed request. `CallOK` says where in the log each message of a batch is.

Types of requests. `TypeInv` says of every message in the log and every change of a request what `TypeOK` says, and that its object is
one of `Operations`' (`Fits`), so that the lemmas about the library apply: what is read is a message of the log, what moves, joins and follows
fits again (`MovedFits`, `SnappedFits`, `ReferenceFits`), and what is fetched is none of what the request changes, so that a batch has one
change of an object. A search may only be said to end in a sequence when the references it looks through are finitely many and name pieces:
`DependenciesTyped`, along the log.

Joined ends. `JoinedEndsAgree` speaks of the newest offset and of objects with no batch in flight; between, a batch is in the log in part, and
what will arrive was computed from another offset. `JoinInv` therefore says of every offset at which no batch is torn that the ends joined there
agree (`LogAgrees`), but for the walls of requests that are disturbed or will be when they end (`Doomed`, which is decided as soon as another
request writes an object of the batch). Of every request it says what it was made from and what it has become. Its changes agree where they join ends anew
(`ChangesAgree`): a join snaps the one to the other, a move, an undo or a new wall joins nothing that was not joined (`NothingNew`). The search from the
pieces of the changes finds every reference to them (`FoundAll`); so of two ends that refer to each other only, either both are in the batch
and one follows the other (`BatchJoins`, by `EndsUpdated`), or the one in the batch is as it was (`BatchKeeps`). When a message is delivered its own walls and what they refer
to were not written since the offset, or they are disturbed or `crossed`, and what the graph then says of a joined end it said at the offset too
(`OnlyBefore`, with the graph as a recursive function along the log, `SlotsHeld`). An undo goes back to before each message of a batch, which may be
several offsets: `BeforeAgrees` says that the walls agreed across them. That no request starts from a torn offset unless it is stale is `PartsBehind` with `PartsSplit`.
`JoinInv` was checked by TLC on the instance of `Submit_requests` before it was proved.

The library. `Operations` computes with recursive functions, and what a function defined by recursion over `0 .. n` is follows from
the induction over the set of numbers up to which it is right (`UpTo`, and `Recursion` for a step that depends on the element). On
that rest what `Subsequence`, `UpdateAll`, `BreadthFirst` and `GetAllDeps` return. Of an update: it keeps kinds and ids, it only clears slots
(`UpdateIs`), and if no piece is named twice as an owner, which the search grants (`GetAllDepsIs`), every reference is settled at the end
unless the object it names was changed by a later one (`UpdateSettled`). Of a search: it names only references it was given, each owner
once. Of a snap: the piece takes the nearest result that has a distance, in the nearest free slot (`SnapIs`), which is there because a
finite set of distances has a smallest (`FirstIsThere`).

Editing. `ObjsOK` says that each object is of its kind with its slots filled in by pieces, that a door follows a line, and that an end that is
not a number makes the other one so. `UpdatesSettle`, `SnapsNameResults`, `DoorsOnLines` and `JoinsAreMutual` are about the call just made, from `ObjsOK`
before it; `SlotsFixed` is the same for each slot. `DoorsOnLines` is arithmetic: a fraction of a direction, rounded down, is between the ends (`DoorBetween`).

Least and greatest elements of sets of numbers (`LeastExists`, `GreatestExists`) come from the well-foundedness of `<`, in place of induction.

Model-checked only: the liveness properties (`EveryChangeStored`, `SearchEnds`, `PushedUnlessStuck`, `OpenSettles`), which are out of the prover's reach. Likewise
out of reach is a lemma that takes an operator as a parameter, so each recursive function has its own lemma by `UpTo`.

## Not modelled

* Symbols (`obj-defs/src/symbol_def.rs`, `symbol_instance.rs`): no operation creates one.
* Drawing: `get_obj_update_info`, `geometry-kernel`, projections. No state; a representation is one step in `FileView`.
* `grpc-proxy`, `ui-server`, `trace-lib`, `tests` and the rendering half of `ui`.
* Several partitions or several instances of a service: the compose file starts one of each, with one partition.

## Plan

1. Done: every service of `README.md:21-29` that keeps state or orders messages.
2. `UndoCache` with a second user whose changes of an object come between a change and its undo; `Submit` with doors and
   groups, which reach `update_all` through their own references.
3. Proofs. Done: every safety property that a passing run checks, and the refinement.
