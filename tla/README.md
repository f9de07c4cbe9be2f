# A TLA+ model of the KZ modules for Counter-Strike 1.6

The repository builds two Metamod plugins for a Counter-Strike 1.6 server: `kz_global_api`
(`src/src/kz_global_api`), which records runs, reports them to a central API server over a
WebSocket and plays the record of the map back with a bot, and `kz_base` (`src/src/kz_base`), the
gameplay side. The first is where several threads, an SQLite database, a folder of files, a network
link and a remote server meet; the second is where the engine and a handful of hooks take turns in
moving a player. The code's tests cover pure helpers (formats, uids, paths); this directory
is about the rest.

Line numbers are those of the files under `src/src/kz_global_api` unless a path is given;
`kz_base.cpp` and `kz_mpbhop.cpp` are under `src/src/kz_base`.

## 1. The system

### Threads

| thread | created by | what it does |
|---|---|---|
| game | the engine | natives of plugins, hooks, one frame after the other: `kz_ws_run_tasks`, `kz_rp_pb_frame`, the callbacks of `g_incoming_queue`, `kz_log_flush`; all of `kz_base` |
| WebSocket | `g_websocket->start()` | ixwebsocket's thread: connects, retries, calls `kz_ws_onmessage`; saves and deletes rows over its own database handle |
| writer | `kz_rp_init` | takes signals and frames, keeps one open `.tmp` file per slot, renames it to `.krpr` at the finish and saves `ADD_RECORD` |
| upload | `kz_rp_init` | compresses a `.krpr` to `.krpz` and sends it in chunks |
| compress | `kz_rp_init` | compresses the runs that stay on this server |
| parser | `kz_rp_pb_init` | decodes a `.krpz` for the bot |
| download | detached, one per replay | fetches a `.krpz` over HTTP |

### Components, their state and what makes them correct

| component | state | operations | correct when | module |
|---|---|---|---|---|
| message store, `kz_storage.cpp` | tables `outgoing_queue`, `upload_queue`; `g_retry_queue` under a mutex | get_next_id, save, load, clear, delete, the `kz_api` storage commands | ids are not reused, memory and disk agree, a map change drops nothing that is owed | `Storage` |
| delivery, `kz_ws.cpp`, `kz_ws_msgs.cpp` | `g_outgoing_queue`, the link, answers | post, `kz_ws_run_tasks`, the answers' deletes | a record stays stored until it is answered, an answer hits its own message, a record arrives | `Outbox`, abstractly `Mailbox` |
| replay upload | `g_active_uploads`, `g_replay_upload_queue`, tasks in `g_incoming_queue`, files `.krpr`/`.krpz` | RECORD_ACK, FILE_ACK, ERROR, requeue, the upload thread | no replay is lost, none is blocked for ever, one upload at a time | `Upload` |
| recorder, `kz_replay.cpp` | `g_replay_writer_queue`, `s_fd`, `s_filepath`, `s_last`, counters per slot, the files | run natives, frame hook, join, drop, map change; every signal of the writer | a replay is one run, byte for byte, and its counts are right | `Recorder` |
| KRP codec, `krp_format.cpp`, `krp_codec.h` | none | the record writers, columns, the reader's checks, the frames of the bot | what is compressed is restored, what is not a replay is refused | `KrpCodec` |
| WebSocket client, `kz_ws.cpp` | `g_websocket_state`, `g_ws_auto_reconnect_allowed`, the thread, its thread-local database | start, stop, settings, `kz_api reconnect`, shutdown, every callback | a refusal is respected, stopping ends unless a log is full, a lost connection comes back | `WsClient` |
| replay threads and logs | three queues and condition variables, `g_krp_running`, a log queue per thread | push, notify, wait, log, flush, `kz_rp_uninit` | nothing finished is left behind, the shutdown ends | `Workers` |
| map state and replay fetch, `kz_ws_msgs.cpp` | `g_current_map_info`, `g_replay_fetch_pending`, `g_replay_pro_upgrade_failed`, the retry entries, the folder | map load, HELLO, MAP_CHANGE, MAP_INFO, GET_REPLAY, downloads, DEL_RECORD_NOTIFY | no map is marked as being fetched for ever, the record's replay arrives | `ReplayFetch` |
| SR bot, `kz_replay_pb.cpp` | `g_pb_parse_queue`, `g_pb_data`, `g_pb_pending_data`, the bot | queue, parse, hand over, stop, map change, deletion | the bot plays the replay that was ordered last, of the map it is on, and none that was deleted | `Playback` |
| replay folder, `kz_replay_uid.cpp`, `kz_rp_prune_replays` | the names in a map's folder | parse a name, select the best, prune | pruning keeps what selection prefers, the folder is bounded | `ReplayFiles` |
| plugin natives, map-details callbacks | `g_plugin_callbacks`, the forwards of AMX Mod X | `kz_api_get_map_details`, its answers; the other natives are inputs of the modules above | a handler gets the answer to its own question, once | `MapDetails` |
| checkpoints, `kz_base.cpp` | a ring per slot, two flags of the last move | checkpoint, gocheck, the list of commands, the calls into `kz_global_api` | gocheck goes to the last checkpoint, none is saved in the air or on a block | `Gameplay` |
| bhop blocks, `kz_mpbhop.cpp` | `g_blocks`, per player the block, two clocks, the saved spot | finding the blocks, PlayerPreThink, DispatchTouch | what is skipped is what the detection overlooks, a block is not a place to rest, and throws to a place that is one | `BhopBlocks`, `Gameplay` |
| events and bans | `no_submit` | PLAYER_JOIN, PLAYER_LEAVE, ban answers | see delivery and recorder | `Outbox`, `Recorder` (partly) |
| cvars, console, engine hooks | cvars | | | their effects are actions of the other modules |
| anti-cheat, path validation, vendored SDK, build, tests | | | | not modelled, section 6 |

### How they interact

- Calls across threads are queues: `g_incoming_queue` (client and download threads to the game
  thread, 64, the client waits up to ten seconds and then drops), `g_outgoing_queue` (game thread
  to the socket, 64, drops), the writer (4096), upload (64), compress (32) and parser (4) queues.
  Producers of the latter four notify a condition variable without holding its mutex. The queue
  is made for one producer; `g_incoming_queue` has several.
- Every thread logs into a queue of 64 lines that only the game thread empties; a full one is
  waited for.
- The database is shared by a handle per thread; only `g_retry_queue` has a mutex, so a save is
  three steps (id, memory, disk) and a delete is two.
- Files are shared without any lock: writer, upload, compress, parser and download threads, the
  pruning of two threads, and the deletions of the game thread.
- `g_current_map_info`, `g_active_uploads`, the retry entries of replays and `no_submit` belong
  to the game thread by convention; the places where another thread touches them are hazards.
- `kz_base` calls `kz_global_api` through functions it asks AMX Mod X for: a checkpoint and a
  gocheck become signals of the recorder.
- The API server, ixwebsocket, SQLite, AMX Mod X, the engine and the disk are external. They are
  modelled by what the code relies on: messages are answered or lost, a call on a table is atomic,
  an operation may fail where the code has a branch for it, the engine puts a player anywhere.

### What is hard here

Interleavings of a save and a delete in pieces; a missed wake-up; a full log queue at the
shutdown; the process dying between two steps; a link lost between sending and the answer, so that
a message is sent twice and answered twice; a full queue, and one with two producers; an answer, a
download or a parsed replay that arrives after the map changed (and changed back); a slot, a map
or a forward that changes hands while something about it is queued; two orders on names that must
agree; flags of the last move in the next one. `PROJECT.json` lists each at its line, with
the properties that cover it or the reason why none does.

## 2. The modules

    Storage ──── Outbox ──── MCOutbox        Recorder ──── MCRecorder
       │            └─ INSTANCE Mailbox         └─ KrpCodec
       └──────── Upload ──── MCUpload        WsClient ──── MCWsClient
                                             Workers ───── MCWorkers
    BhopBlocks ─ Gameplay ── MCGameplay      ReplayFetch ─ MCReplayFetch
                                             Playback ──── MCPlayback
    MapDetails ─ MCMapDetails                ReplayFiles ─ MCReplayFiles

    StorageProofs  OutboxProofs  UploadProofs  GameplayProofs
    ThreadsProofs (WsClient, Workers, Playback)   ReplayProofs (ReplayFetch, ReplayFiles)
    RecorderLemmas (KrpCodec, Recorder) ── RecorderProofs

`Outbox` and `Upload` compose `Storage` with the parties that use one of its two tables,
`Recorder` writes its files through `KrpCodec`, `Gameplay` finds its blocks through `BhopBlocks`; the
others meet at interfaces named in their headers. MC modules hold the constants of instances.
Where a module of proofs is about several modules their names differ: `ClientInit`, `BotInit`,
`FilesInit` are the `Init` of `WsClient`, `Playback`, `ReplayFiles`, and so on.
Names are the code's where TLA+ has room for them; each variable is commented with the object it
stands for, and `PROJECT.json` gives the lines of every definition. An operator called
`Something_Word`, commented "Mutant", is `Something` with a plausible mistake in it: put in its
place, it makes the property it belongs to fail.

**Storage** - `rows`, `seq` (sqlite_sequence), `retryQ`, and per thread `call[t]`, the call it
is in. `GetNextId`, `Push`, `InsertOk`/`InsertFails` are the pieces of a save, `Erase` and
`DeleteRows` those of a delete; `Load` and `Clear` are the map change; `Crash` forgets memory.
`idOf`, `stored` and `clashed` are history: which id a message was given, whether its row was
ever inserted, and whether its id was handed out to somebody else before.

**Outbox** - the link, `outq` (g_outgoing_queue), frames on the wire and answers on their way
back. `Post` is the end of a save (queue for the game thread, socket for the others), `Retry` the
outgoing branch of `kz_ws_run_tasks`, `HandleReply` the answer's delete by id alone. Its
properties speak of the types `MustArrive` names: MAP_CHANGE is never answered by design.

**Mailbox** - what the outbox promises: a letter that was kept leaves only when settled or
withdrawn. `KeepsPromise` maps a record to a letter: kept = has a row, settled = answered (or its
id clashed), withdrawn = deleted by the administrator.

**Upload** - acknowledgements, tasks, jobs, the upload thread's stage and the places a
file can be. The .krpz is written in place and may be cut short (`WriteZip`), and `moved` tells a
whole copy in the map's folder from a part of one. `FILE_ACK` moves and deletes with either half
failing. `broken` is history: the uploads whose answer was "no", or whose answer, file or task got
lost.

**KrpCodec** - a file is cut into cells: a type of record, an event, a block of a mask, a byte;
every cell is the set of its bits. Record writers, the transposition into sections and columns
and back, every check of the reader with the error it returns, the frames a bot is given. zstd gives
back what it was given and is left out but for the limit on its output.

**Recorder** - the game side (`Join`, `Drop`, `RunStarted`, ..., `Frame`, `LeaveMap`) pushes
signals, the writer side (`Start` ... `Finish`) handles them. A file is an inode with a header
and the codec's cells, and a descriptor has a position in it, so that two slots with the same path
open share the file and overwrite each other as two `FILE*` would. `Scenes` are the bounds of one
behaviour each; a run checks several.

**WsClient** - the game thread's `stop`, `start` and `store` steps against the callbacks of the
other thread; `handler` says which callback it is in, because joining a thread that is inside one
is what could hang. Two queues that only the game thread empties are waited for there:
`g_incoming_queue`, for ten seconds, and the client's log, without a limit. Every callback logs
(kz_ws.cpp:63, :76, :118, :148, :164): it enters with `lines` to write and waits until `clientLog`
has room for each.

**Workers** - the loop of each thread at the grain of its condition variable: predicate, sleep,
wake-up; with its log queue, where a line that does not fit is tried again and again. The game
thread flushes the logs once a frame and once before it notifies and joins. The failing paths of the
compress thread (kz_replay.cpp:1045) are one action, `ArchiveFails`: the job is off the queue, the
raw file stays, and one line is logged, or two, of which an error of the codec goes into the upload
thread's log. `Faulty` are the runs it happens to.

**ReplayFetch** - a map load in its two halves (`LoadMap` writes the header, `Notify` looks at the
connection), questions, requests, downloads. `Collide` is two threads in `try_push` at once: both
write into the same place, and one of the callbacks is lost (`lost`, history). What else a race in
that queue can do, a torn callback above all, is not modelled. Full queues lose things too:
`NotifyRefused` is a MAP_CHANGE that finds no room in `g_outgoing_queue`, `DropAnswer` a callback
that waited ten seconds for room in `g_incoming_queue`, and `LoseRequest` a GET_REPLAY whose row
could not be inserted and whose frame is lost.

**Playback** - parser steps between exists, push and pop, against map changes, deletions and
prunes; what was parsed and erased again keeps its place in `data`, as None. `kz_pb_frame` is two
steps of the game thread: `Choose` tests whether a file exists, `Take` hands its replay to the bot.
The parser waits for the mutex in between, and the game thread does nothing else, but the
WebSocket thread may prune the file. `asked` is history: the file queued last, unless it was removed
or a map was loaded since.

**ReplayFiles** - names as (head, time, tail) numbers: the order of strings and the order
of numbers are both defined on them, and a prune is listing, decision and single removals. The
folder is that of one map; `MapLoaded` and `ChangeLevel` are its load and its end, both of which prune
it, `OtherMap` those of the others, which set and clear the one `g_early_mapchange` there is.

**MapDetails** - questions, their rows and retries, the answers of the client's thread and the
tasks that call the forward found in `g_plugin_callbacks`; a forward is a number that is given
out again.

**BhopBlocks** - the four searches of `kz_mpbhop_init` through a list of entities, as functions
from the entities found so far to those found next, against `IsBlock`, which says what a block is
without an order: from it there is a chain of triggers to a solid block, each of which fires the
next one by its name, whichever comes first and whoever else has that name. `Overlooked` is what the
detection does not look at: a target that is not the first of its name, or a trigger that comes
later than the one that fires it.

**Gameplay** - a step of the engine at a time: `Spawn`, `Think...` (PlayerPreThink, one action
for each case of its tests), `PM_Move`, `Touch...` (DispatchTouch, likewise), commands between moves,
`Tick`, `MapStart`. The place a player is in, the ground entity the engine knew at his last move, and
what the hooks remember are three different things; the properties say when they agree.
`FN_ClientCommand` goes through the list of commands and the functions `kz_global_api` exports.

## 3. The runs

Small instances are exhaustive: every interleaving within the bounds.

| run | what it checks | instance |
|---|---|---|
| `outbox` | `TypeOK`, `FreshId`, `SameIdEverywhere`, `KeptUntilAnswered`, `AnswersHitTheirMessage`, `KeepsPromise` (refinement), `RecordsArrive` | a player message of the game thread and a record of the writer, three threads, failing database, one loss or crash, queue of 1 |
| `upload` | `NoReplayLost`, `ActiveIsOnItsWay`, `OneUploadAtATime`, `UploadsStayInLine`, `UploadsArrive` | one replay, three upload rows (two by acknowledgement, one by requeue), two submissions, one failing file, one loss, one crash, queue of 1, droppable tasks |
| `recorder` | `TypeOK`, `OneRunPerReplay`, `CountsMatchReplay`; as assumptions of `MCRecorder`, `Lossless` and `BodiesRoundTrip` of the codec | three scenes: one player, two slots, two frames, one event, a queue of 2; two players on one slot, three frames, a queue of 1; a banned player over a map change. Frames of three columns in two blocks; bodies of up to six cells |
| `ws_client` | `ClientTypeOK`, `DatabaseFollowsLink`, `ConnectedIsConnected`, `RefusalRespected`, `StopEnds`, `ConnectionComesBack` | four commands, four troubles, a queue of 1, a log of 1 and callbacks of up to two lines |
| `workers` | `NothingLeftBehind`, `LocalRunsAreArchived`, `ShutdownEnds` | two local runs, one of which cannot be archived, a frame, an upload, one line of log, spurious wake-ups |
| `replay_fetch` | `TypeOK`, `PendingHasCause`, `InfoIsComing`, `WrReplayArrives` | two maps with two records each, two orders, two troubles, two retries, a queue of 2 |
| `playback` | `BotOnItsMap`, `ParsedIsAnnounced`, `DeletedIsNotShown`, `LastOrderIsShown` | two maps, three replays, a queue of 2, five orders |
| `replay_files` | `PruneKeepsTheBest`, `FolderIsBounded` | six names, two pruners, at most two kept |
| `gameplay` | `TypeOK`, `OnlyOverlookedAreSkipped`, `RestIsBounded`, `ThrowsOffTheBlocks`, `CheckpointsOffBlocks`, `GocheckGoesToLatest` | one slot, two maps of four and five entities, four places, a ring of 2, two checkpoints, one gocheck, four units of time |
| `outbox_race` | violated: `PendingRecordsAreStored` | as `outbox`, nothing fails |
| `upload_rejected` | violated: `RejectedUploadIsRetried` | as `upload`, nothing fails |
| `map_details` | violated: `HandlersGetTheirMap` | two maps, three questions, one retry, one map change |

**Why the bounds are enough.** A queue of one is full after one push, so every refusal of a
queue happens; the code treats capacities 4, 64 and 4096 alike. `replay_fetch` has a queue of two,
so that a callback can be lost behind another. Two messages of two threads are
what an id can clash between, and a third meets the same table. One loss falls at every step of
a message's life, one crash at every step of a call; after either the state is one of the initial
shapes with rows in it, so a second one starts where a first already was, and a crash is a loss
that takes the memory too. `RetriesMax` 0 puts the
end of the retries within reach: what counts is that the entry leaves memory and not the table.
Two slots suffice for a pause, a rejoin elsewhere and an unpause; two runs to mix two replays; two
frames for a delta and its base; a third for a frame that belongs to the run before. Three columns
in two blocks make a block with a bit that stands for no byte, as 112 bytes do in 128 bits. Two maps
are the map played and the one left. Six names contain a pro and a nub, a tie on time, an
unsubmitted run and one whose first character a plugin chose. Players of `kz_base` share
nothing but the clock and the map, so one slot, with players that come and go, is enough; the two
maps hold a trigger before its target, a chain of triggers, a trigger whose target shares its name
with a button that is no block, a block that is ground on the other map and something that moves;
four units of time are a touch, the window and a throw. All bounds are guards on named counters, marked
"bound" in the CONSTANTS of each module.

**Deadlock** is checked in the Outbox and Upload runs, whose system never stops. In the others a
state without successor is one where the bounded orders, troubles, names or times are used up or
the process has ended, so `CHECK_DEADLOCK FALSE`.

**Fairness.**
- Threads run: weak fairness of every step a thread takes by itself. In `Outbox` and `Upload` the
  steps that share the game thread with saves, map changes and commands (`Retry`, `LoadAll`,
  `Load`, `RunTask`, `RetryUpload`) get strong fairness: they are disabled again and again while
  the thread is inside another call, and the frame loop returns to them. `LoadAll` also states that
  maps keep changing, which is what brings back an entry whose retries ran out. Nothing is
  promised about the saves of a player's messages or about when a record is written.
- The server answers what reaches it and a lost link comes back (`Answer`, `ServerFile`, `Open`,
  `AnswerRequest`); ixwebsocket retries until it is told not to. Losses, crashes, failures,
  refusals and drops are never forced and always possible within their bounds.
- `Upload`: weak fairness of the upload thread says nothing while it is asleep on a notification
  it missed; `UploadsArrive` names that state (`worker.stage = "missed"`).
- `WsClient`: an attempt ends (connect and handshake have time limits), `Stopped` is strong
  because a message may always arrive first, and the ten seconds a handler waits for room pass. The
  game thread flushes the log between its commands, never inside one; so a callback with a line for
  a full log waits for ever while `kz_ws_stop` joins, which is the exception of `StopEnds`.
- `Workers`: the loops and the steps of a shutdown run, and frames flush the logs while the
  game thread runs frames. No promise that a run, a frame, an upload, a shutdown or a spurious
  wake-up comes; a second passes (`Timeout`), which is what the compress thread relies on.
- `ReplayFetch`: threads run, the server answers, downloads end; map loads, losses, deletions
  and collisions are nobody's duty. A download's end is strong: it waits for room.
- `Playback`: `BotFairSpec` serves only the deviation formula of section 5. `Gameplay`,
  `ReplayFiles`, `Recorder` and `MapDetails` state safety only.

## 4. What is proved

TLAPS proves these for every value of the constants: any number of threads, messages, replays,
players, losses and crashes, any capacity. The assumptions are the named ASSUMEs of the modules
(thread and message sets, tables, natural numbers, and the lag of a player), which TLC evaluates on
the instances, and `Tidy`, which the theorems about `ReplayFiles` state.

| theorem | statement |
|---|---|
| `StorageProofs!IdsAreFresh` | an id is not handed out while it is a stored message's, over deletes, failures and crashes, unless it was handed out twice before its holder was stored |
| `StorageProofs!DiskAndMemoryAgree` | rows and retry entries carry the id their message was given; no two rows share one |
| `StorageProofs!UploadsStay` | map changes and `kz_ws_run_tasks` leave uploads with retries in line |
| `OutboxProofs!RecordsAreKept` | a stored record keeps its row until it is answered or an administrator deletes it, unless its id clashed |
| `OutboxProofs!AnswersAreNotMixedUp` | an answer on its way belongs to an answered message, unless the id clashed |
| `OutboxProofs!OutboxKeepsPromise` | store, link and server implement `Mailbox` |
| `UploadProofs!ReplaysAreKept` | a saved replay is never lost between the writer and the map's folder |
| `UploadProofs!ActiveUploadsAreOnTheirWay` | a replay that `g_active_uploads` blocks is on its way, or its answer was "no" or got lost |
| `UploadProofs!UploadsDoNotMultiply` | a replay whose record is acknowledged once is in one job or task at most, whatever retries and requeues do |
| `UploadProofs!PipelineUsesTheStore`, `PipelineKeepsUploadsInLine` | each step of the pipeline is an atomic piece of a call of `kz_storage.cpp` (`StorageSpec`) or none; so what is proved of the store holds in it |
| `ThreadsProofs!NoSpinReconnect`, `DatabaseIsClosed`, `ConnectedIsTrue` | the client's safety properties |
| `ThreadsProofs!ShutdownLosesNothing` | when `kz_rp_uninit` has returned, every finished run is on disk and every upload was taken off its queue |
| `ThreadsProofs!BotShowsItsMap`, `NoDeletedShown` | the bot shows a replay of the map played, and none that was deleted with its record |
| `ThreadsProofs!LastOrderReachesTheBot` | once parser and frames have nothing left to do, the bot shows the replay that was queued last, if that is still stored and the map still played |
| `ThreadsProofs!NoReplayWaitsUnseen` | a parsed replay that waits is announced to the frames |
| `RecorderLemmas!PlaysBack` | a recorded file that begins with a key frame is compressed without an error, and what is parsed is the same frames in their order and the same events; for every size of a frame and its masks |
| `RecorderProofs!ReplaysAreRuns` | a saved replay, compressed and parsed, shows the frames captured in its run, all of them, in order, and none else; it is its player's |
| `RecorderProofs!CountsAreThoseOfTheReplay` | the counts of a record are those of the replay's header and of the events in it |
| `ReplayProofs!MarksHaveACause` | a map stays marked as being fetched only while something that will unmark it is under way, or was lost in a push or for want of a row |
| `ReplayProofs!TheRecordBecomesKnown` | a connected server that does not know the record of its map is about to hear of it, unless a full queue or two pushes into one place have swallowed the message |
| `ReplayProofs!PruningKeepsTheBest` | two prunes at once remove no file that has not `Max` better ones in the folder |
| `ReplayProofs!PruningBoundsTheFolder` | while the game thread does not prune, no more than `Max` files are in the folder besides those that arrived since the last map change of the map, whatever other maps make of `g_early_mapchange` |
| `GameplayProofs!RestBound` | nobody rests on a block for longer than 0.25 s and two of his moves |
| `GameplayProofs!ThrowTarget` | a throw takes a player to a spot of his own that is not a block |
| `GameplayProofs!CheckpointGround`, `GocheckTarget` | no checkpoint in the air or on a block; gocheck goes to the last one, for any ring |
| `GameplayProofs!DetectionIsSound`, `BlocksOfTheMap` | on every map, `kz_mpbhop_init` finds nothing but blocks, and every block that has a chain of targets without an overlooked link |

and the type correctness of `Storage`, `Outbox`, `Upload`, `Recorder`, `WsClient`, `Workers`,
`Playback`, `ReplayFetch`, `ReplayFiles` and `Gameplay`. Each invariant had to be strengthened:

- **Storage.** `FreshId` alone is not inductive: that an id is new follows from the counter, so
  `StoredBelowSeq` (every stored id is at most `seq` of its table) carries it, `CallsSound` ties
  a half-finished call to the id its message was given, and `EntriesIssued` says that entries
  come from messages that have an id.
- **Outbox.** `StorageInv` plus: frames carry their message's id (`FramesSound`), answers are ids
  of answered messages (`RepliesSound`), and the WebSocket thread deletes only answered ids
  (`WsDeletesAnswered`). The lemma `RowsLeave` lists the ways a row can go; the refinement then
  maps each step to Keep, Settle, Release, Withdraw or a stutter.
- **Upload.** A replay may leave `raw` only after FILE_ACK said yes or the record was rejected, so
  the invariant follows the verdict: `AcceptedIsHad` (a yes on its way means the server has the
  file), `ErrorIsRejection` and `DiscardIsRejection` (the answer and the task that delete the
  file come from a rejection), `WorkerHasJob`. Where an upload may be is a second one, `WayInv`:
  nothing about a replay is under way before its first acknowledgement (`NothingBeforeAck`), a file
  is sent only of an accepted record (`UploadIsOfAccepted`), and of one acknowledged once the
  acknowledgement, the tasks, the jobs and the upload hold it in one place together (`OnePlace`).
  Every action moves the replay between these places in one of a few ways (`Effect`).
- **KrpCodec.** A file `Holds` the frames F when the sections it is taken apart into describe them
  (`Describes`): row r has bytes for some columns, and these with the row before make F[r]. A
  record behind a file adds a row (`HoldsFrame`, `HoldsEvent`); the lengths in the header agree with
  the sections (`SectionsAgree`), the n-th byte of a column is found where the lengths of the
  columns before it say (`BytesFound`), and so the frames are those of F (`FramesFound`). Sums and
  walks are recursive functions, whose values come from lemma `Recursion`.
- **Recorder.** `Sound` is the types, the plugin's bookkeeping (`Plugin`: a run is in one slot or
  parked, and is of the player who is there) and, as long as the queue has not refused the end of
  a run, six parts that tie game thread, queue, writer and files together. `Chain`: every queued
  signal will find its slot's file of the run it expects, and a player has no two files open.
  `Order`: a player's signals are in the order of his runs, and none follows the end of its run.
  `Cover`: a run that is mentioned in the queue, in a slot or parked has its START in the queue or its
  file in .tmp. `Files`: a player's file is his and of one run, a descriptor stands at its end, a
  saved replay is nobody's .tmp. `Frames`: queued frames are in order, and captured if of a run.
  `Contents`: a file holds (in the codec's sense) exactly the captured frames that are not in the
  queue any more, its events are those counted, and its slot's delta base is the last of them.
  `Chain` is the part that a change of slot puts to the test: what a slot will have open after k
  signals (`OpenAfter`) is said of the queue as a whole, because the writer may be a whole run behind.
- **WsClient.** `CallbacksInPlace` (which callback fits which state of the thread), `OneThread`
  (while the game thread starts the client there is no other), `RefusalForbids` (a refusal has
  switched automatic reconnection off), `DatabaseOpen`. `StopEnds` is model-checked only.
- **Workers.** `FinishesWait` (a signalled run is saved or still in the writer's queue),
  `Halfway` (a job that is logged about is still the first in its queue), `SignalsOnly`, and
  `Stopping`/`EndedEmpty`: threads end only after `g_krp_running`
  is false, and then only with an empty queue, which nobody fills any more.
- **Playback.** `HeadIsThere` (the file the parser works on is the head of its queue until it
  pops it), `NotYet` (no bot while the set-up after a load is due), `GoneIsGone`, and `ChosenFits`: a
  replay chosen by a frame is of the map and not deleted until it is taken, though it may be
  pruned. That the order queued last is shown in the end is a second invariant, `AskedIsOnItsWay`: it
  is the last in the parser's queue, then the last of the parsed ones, then the one a frame
  has chosen, then the one that is shown; whatever comes behind it is an order of its own.
- **ReplayFetch.** `SameMap` (the header, the last map loaded and the map played are one at every
  step of the game thread) makes a question name the map, and `OwesAnswer` (the client's thread
  that is about to give a map up still owes the answer to a request for it) keeps the count of
  requests a number. `MarksHaveACause` follows a mark from request to download to callback:
  `Cause` lists them, and of the actions that end one (`Leaves`) each leaves the next or
  removes the mark. `TheRecordBecomesKnown` is the store-then-load argument of two threads: the map
  load stores the header and then reads the connection, the client's thread stores the connection
  and then reads the header (`Coming`); whoever is ignorant of the record (`Ignorant`) is in one of
  these two, or has a question, an answer or a callback before it, or a message of it is among the
  `lost`. Without this exception the statement is false of the code (section 5).
- **ReplayFiles.** Theorems are for `Tidy` names: the class, or what a plugin put there, is not below
  '0' and the time has no more than the padded digits; section 5 has what happens otherwise. For these
  the order of strings is a strict total order (`NameOrder`, `NameTotal`) that never puts a better
  file behind a worse one (`NoWorse`). `Crowded` says that a file on a list has `Max` before it in
  the folder *now*: the pruners remove from the end, so a removal by the other thread does not
  thin out what is in front, unless a record was deleted, and `SameDeletions` says both have seen the
  same deletions. For the bound: no more than `Max` files of a set have fewer than `Max`
  before them (`KeptIsBounded`), and of the files that were there at the last map change of the map
  those that will stay (`Lasting`) only get fewer; while `g_early_mapchange` is set, that leaves out
  what is on the game thread's list.
- **Gameplay.** `LagAssumption` is that a player's moves are never further apart than the
  width of the window, 0.67 s: after a longer lag he passes over it. `Resting` follows the clock
  of who rests, `Frozen` says that whoever stands on a block is known to but for a move under way,
  `Latest` that the slot before the next one holds the last checkpoint, `Spots` that a saved
  spot is on ground of its own. Since players do not touch each other's state, a lemma for the
  bystander (`KeepsOthers`) leaves one proof per action for its own player.
- **BhopBlocks.** The pass over the entities is a recursive function; that it has a value at
  every edict is shown with the least edict that has none (`UpToRecursion`), and so is that
  whatever is found has a chain (`FoundHasChain`) and whatever has a chain in which each link is to
  the first of its name, and to a trigger only if that comes earlier, is found (`ChainIsFound`).
  `NamedIsFirst` makes the search for a name what `Overlooked` says of it.

The modules proved about contain no recursive operator; `set_class_multiple` is a recursive function.
So are the codec's walk over the records (`Split`), its sums and the chain of frames. Induction over
them is done by hand: a set of numbers that holds 0 and with each number the next is all of them.
**Only model-checked:** the two assumptions of `MCRecorder` about `KrpCodec` (`Lossless`: decompressed,
a file is the same to the last cell; `BodiesRoundTrip`: what an arbitrary body that is accepted is
restored to), of which `PlaysBack` proves the half that goes from the recorder to the bot; and every
liveness property (`RecordsArrive`, `UploadsArrive`, `StopEnds`, `ConnectionComesBack`,
`LocalRunsAreArchived`, `ShutdownEnds`, `WrReplayArrives`): liveness under fairness and ENABLED are
out of the prover's reach.

## 5. Where code and text disagree

Three disagreements are runs (the findings of `PROJECT.json`):

- **`outbox_race`** - `kz_replay.cpp:917` and `kz_ws_msgs.cpp:651` take an id on two threads and
  insert later; both get the same one, the record's INSERT fails on the key and no row of it
  exists. `docs/server-integration.md:257`: "Pending messages are stored in SQLite and retried
  automatically."
- **`upload_rejected`** - FILE_ACK with status false leaves the uid in `g_active_uploads`
  (`kz_ws_msgs.cpp:498`); the requeue it posts and the retry both skip active uids.
  `src/README.md:10`: "replay upload with `FILE_ACK` retry on failure".
- **`map_details`** - the task of a map-details answer calls and unregisters the forward it finds
  in `g_plugin_callbacks` and leaves it there (`kz_ws_msgs.cpp:842`). A repeated or late answer then
  calls a number that belongs to another question by now: its handler gets a map it did
  not ask for, and is gone when its own answer comes. `kz_global_api.inc:10`: "Requests map details
  for a specific map." The run shows it with a map change; with `ChangesMax = 0` the second answer
  to a repeated question is enough.

### Known deviations

Further places where the code does less than a text of the repository promises, or than one would
expect of it. Those with a formula can be checked by adding it to a configuration; they are kept
out of the passing runs.

| code | text | what happens | formula |
|---|---|---|---|
| `kz_ws.cpp:62` | `docs/server-integration.md:191` | a reconnect retries nothing whose retries ran out; only a map load reloads the queue | `Outbox!ReconnectRetriesRecords` |
| `kz_replay.cpp:1011` | the same line | an upload broken off by a lost link stays active and is not retried | `Upload!ReconnectRetriesUploads` |
| `kz_ws_msgs.cpp:579` | - | PLAYER_LEAVE and MAP_CHANGE are not answered; their rows are never deleted, and come back with every load | - |
| `kz_replay.cpp:847` | `kz_global_api.inc:61` | `no_submit` is read when FINISH is handled; the slot may be somebody else's then | `Recorder!BarredNeverSubmitted` |
| `main.cpp:401` | `kz_global_api.inc:57` | a drop during a map change leaves `no_submit` set for the slot's next player | `Recorder!CleanRunsAreSubmitted` |
| `kz_replay.cpp:709` | `docs/replay-format.md:105`, `:157` | an event may be written before the first frame; such a replay is compressed and uploaded, and every reader refuses it | `Recorder!OneRunPerReplay` without `Readable` |
| `krp_format.cpp:305` | `docs/replay-format.md:157` | the reader refuses more than 100 MiB, the writer has no limit | - |
| `kz_replay.cpp:881` | - | a crash between the rename and the saved record leaves a `.krpr` that nothing looks for | - |
| `kz_ws.cpp:242` | `kz_util.cpp:71` | Initialized may overwrite Connected | `WsClient!ConnectionIsSeen` |
| `main.cpp:637` | `kz_util.cpp:74` | "disconnected (retrying)" while nobody retries | `WsClient!RetryingIsRetrying` |
| `kz_ws.cpp:246`, `kz_util.cpp:261` | - | `kz_ws_stop` joins for ever a thread that has a line to write to the client's log when that is full | the exception of `WsClient!StopEnds` |
| `kz_replay.cpp:162` | - | a FINISH or REJECT that finds the writer's queue full is dropped: the slot's file stays open, and a later run of the player may share it | the exception of `Recorder!OneRunPerReplay` |
| `kz_replay.cpp:895` | `kz_global_api.inc:58` | local runs may be left uncompressed at the shutdown | `Workers!LastRunsAreArchived` |
| `kz_replay.cpp:1046` | the same line | a local run whose compression or move fails stays as .krpr; nobody tries again | the exception of `Workers!LocalRunsAreArchived` |
| `kz_replay.cpp:606`, `kz_ws_msgs.cpp:1057` | `docs/server-integration.md:187` | the .krpz that FILE_ACK moves into the map's folder may be a truncated one, and the .krpr is deleted | `Upload!StoredIsWhole` |
| `kz_replay.cpp:183` | `kz_global_api.inc:53` | a FINISH wakes nobody; without a later frame it waits | `Workers!FinishesAreHandled` |
| `kz_replay.cpp:381` | `docs/replay-format.md:159` | the upload thread may miss the wake-up of a job | `Workers!QueuedFilesAreUploaded` |
| `kz_replay.cpp:307`, `kz_util.cpp:262` | - | the shutdown joins for ever a thread that missed the notification, or that waits for room in its log | the two exceptions of `Workers!ShutdownEnds` |
| `kz_replay_pb.cpp:583` | `docs/server-integration.md:187` | the parser may miss the wake-up of a file | `Playback!CachedReplayIsPlayed` |
| `kz_replay_pb.cpp:195`, `:202` | - | the bot may begin with a replay that is pruned between the test and the hand-over; it has it in memory | - |
| `kz_replay_pb.cpp:666` | - | the parser logs while it holds `g_pb_data_mtx`: with a full log it waits for the game thread, which may wait for the mutex | - |
| `kz_ws_msgs.cpp:391` | - | download threads and the client's thread push into a queue for one producer; a lost callback leaves its map marked, or unknown, until the next load | the exceptions of `ReplayFetch!PendingHasCause`, `InfoIsComing` |
| `kz_ws.cpp:115` | `docs/server-integration.md:187` | an answer that waited ten seconds for room in `g_incoming_queue` is dropped; HELLO has no id, so it is not asked again, and the record of the map stays unknown until the next load | `ReplayFetch!InfoAlwaysComes` |
| `kz_ws.cpp:277`, `kz_ws_msgs.cpp:579` | the same line | a MAP_CHANGE that finds `g_outgoing_queue` full is only logged, and the retry throws its entry away: the same | `ReplayFetch!InfoAlwaysComes` |
| `kz_ws_msgs.cpp:1140` | `docs/server-integration.md:187` | a "give up" mark set right after a map load outlives it | `ReplayFetch!EveryLoadFetches` |
| `kz_ws_msgs.cpp:1118`, `:718` | the same line | an answer without the map's name leaves the map marked until the next load | - |
| `kz_ws_msgs.cpp:855` | `docs/server-integration.md:191` | a deletion missed while offline is not resynced | `ReplayFetch!MissedDeletionsAreResynced` |
| `kz_ws_msgs.cpp:235` | `configs/kz_global.cfg:23` | the maximum of attempts starts over | `ReplayFetch!RetriesEnd` |
| `kz_ws_msgs.cpp:263` | `docs/server-integration.md:187` | the same map loaded twice is not announced again | - |
| `kz_ws_msgs.cpp:417` | `docs/server-integration.md:189` | a download that ends late brings a deleted replay back | - |
| `kz_replay_uid.cpp:28` | `replay_uid_test.cpp:39` | a name of a class other than 0 and 1 is accepted and may be the best (names with such a character come from plugins) | `ReplayFiles!BestIsProOrNub`, names `DigitNames` |
| `kz_replay.cpp:278` | `docs/replay-format.md:124` | times of 10^8 ms and more sort wrongly as strings, so pruning may remove the best | `ReplayFiles!PruneKeepsTheBest`, names `LongNames` |
| `kz_mpbhop.cpp:376` | `kz_mpbhop.cpp:66` | "The detection does not catch all possible cases": a trigger whose target is a trigger further on, or not the first entity of its name, is skipped | `Gameplay!NoBlockIsSkipped` |
| `kz_mpbhop.cpp:189` | - | a player whose moves are more than 0.67 s apart passes over the window in which he would be thrown, and rests on a block | `Gameplay!RestIsBounded` without `LagAssumption` |
| `kz_base.cpp:91`, `kz_mpbhop.cpp:196` | - | checkpoints and the saved spot of a slot are kept over a leave and a map change: its next player can go to them | the exceptions of `Gameplay!ThrowsOffTheBlocks` |

## 6. What is not modelled, and why

- **Anti-cheat** (`kz_basic_ac.cpp`): counts frames and client settings and only writes log
  lines; no other component reads its state. **Path validation**: a predicate on strings,
  character by character, without state; the models assume names and uids that pass it.
- Data: texts, JSON, zstd, checksums of chunks, the bot's movement and sounds. `Recorder` and
  `KrpCodec` do follow a replay byte by byte, from the frame hook to what the bot is given.
- `Recorder`: failing file operations, invalid Steam ids and map names, crashes.
  `Playback`: decoding (every stored file can be decoded), the parser's log and the bot's forwards to
  plugins. `ReplayFiles`: a removal that fails. The parameter checks of natives.
- The time limits of `kz_global_api` as durations: a limit is a step that may be taken.
- Kicking and `banid`: they end in a server command. Cvars that only change text.
- `kz_base`: view angles, gravity and sounds; its timer fields and the ring of a paused run, which
  are read and never set at this commit.
- SQLite's own locking: a statement is atomic; SQLITE_BUSY is one of the ways `InsertFails`.
  The memory ordering inside a queue; of its single-producer rule, one outcome (`Collide`).
- Vendored code (AMX Mod X, ReHLDS and HLSDK headers, `amxxmodule.cpp`), build files and tests,
  which were read as statements of intent.

## 7. Plan

Done, in this order: `Storage`, `Outbox` with `Mailbox`, `Upload`, `Recorder`, `WsClient`,
`Workers`, `ReplayFetch`, `Playback`, `ReplayFiles`; then `BhopBlocks` and `Gameplay`, `KrpCodec`
under `Recorder`, `MapDetails`, the logs and the shutdown of `Workers`; and the proofs of section 4.

Left, in order of importance:

1. `Recorder`: FINISH in its two steps (rename, save) with crashes in between and failing file
   operations.
2. `Lossless` as a theorem: `build_krpr` writes the very records that `build_krpz_body` read. With
   `Holds`, what is left is that the records of a file, written one behind the other, are the file.
3. An abstract specification of the replay's life (recorded, acknowledged, archived) that
   `Recorder`, `Upload` and `ReplayFiles` each implement a part of.
