------------------------------- MODULE Playback -------------------------------
(***************************************************************************)
(* The SR bot (kz_replay_pb.cpp): the game thread queues .krpz files, the  *)
(* parser thread decodes them into g_pb_data, and a frame of the game      *)
(* thread hands the last one that is still valid to the bot.  Between any  *)
(* two of these steps the map may change, the file may be deleted with its *)
(* record, pruned, or a better one may appear.                             *)
(***************************************************************************)
EXTENDS Naturals, Sequences

CONSTANTS
  Files,        \* replays, [map, rank] records; rank 1 is the fastest
  Maps,
  ProRanks,     \* the ranks that are pro runs, better than all others
  None,
  QueueCap,     \* capacity of g_pb_parse_queue
  OrdersMax     \* bound: map loads, commands, deletions and new replays

ASSUME PlaybackAssumption ==
  /\ Files \subseteq [map: Maps, rank: Nat \ {0}]
  /\ ProRanks \subseteq Nat
  /\ \A p \in ProRanks : \A f \in Files : f.rank \notin ProRanks => p < f.rank
  /\ None \notin Files
  /\ QueueCap \in Nat \ {0}
  /\ OrdersMax \in Nat

VARIABLES
  disk,      \* the .krpz files of all maps
  map,       \* gpGlobals->mapname
  proWR,     \* the map is known to have a pro record
  waiting,   \* g_wait_after_load: the bot is not set up yet
  entity,    \* g_pb_bot_ent exists
  bot,       \* g_pb_bot_id # 0
  playing,   \* g_pb_bot_data->filepath, None: null
  parseQueue,  \* g_pb_parse_queue
  parser,    \* the parser thread: "look", "exists", "push", "pop", "doze",
             \* "asleep"
  data,      \* g_pb_data; None where a replay was erased
  fresh,     \* g_pb_pending_data
  choice,    \* the replay kz_pb_frame has found valid and is about to hand to
             \* the bot, holding g_pb_data_mtx; None outside
  orders,    \* counter of bounded events
  (* History, read by the properties only. *)
  gone,      \* files removed with their record
  asked      \* the file queued last, unless it was removed or a map loaded
             \* since; None: no such file

disks == <<disk, proWR>>
bots == <<entity, bot, playing>>
parsed == <<data, fresh, choice>>
botVars ==
  <<disks, map, waiting, bots, parseQueue, parser, parsed, orders, gone, asked>>

BotInit ==
  /\ disk \in SUBSET Files
  /\ map \in Maps
  /\ proWR = FALSE
  /\ waiting = TRUE
  /\ entity = FALSE
  /\ bot = FALSE
  /\ playing = None
  /\ parseQueue = <<>>
  /\ parser = "look"
  /\ data = <<>>
  /\ fresh = FALSE
  /\ choice = None
  /\ orders = 0
  /\ gone = {}
  /\ asked = None

-----------------------------------------------------------------------------
\* kz_pb_find_fastest
Fastest(m) ==
  LET here == {f \in disk : f.map = m}
  IN  IF here = {} THEN None
      ELSE CHOOSE f \in here : \A g \in here : f.rank <= g.rank

\* kz_pb_find_sr_replay: no other run stands in for a pro record.
SrReplay(m) ==
  LET f == Fastest(m)
  IN  IF f = None THEN None
      ELSE IF proWR /\ f.rank \notin ProRanks THEN None ELSE f

\* kz_pb_parse_file_async: the push, and a notification without the mutex.
Parse(f) ==
  IF f = None \/ Len(parseQueue) = QueueCap
  THEN UNCHANGED <<parseQueue, parser>>
  ELSE /\ parseQueue' = Append(parseQueue, f)
       /\ parser' = IF parser = "asleep" THEN "look" ELSE parser

\* History: what was queued by this step, or what is left of the last order.
Recall(old) ==
  asked' = IF Len(parseQueue') > Len(parseQueue)
           THEN parseQueue'[Len(parseQueue')] ELSE old

Unless(f) == IF asked = f THEN None ELSE asked

Order ==
  /\ orders < OrdersMax
  /\ orders' = orders + 1

-----------------------------------------------------------------------------
(***************************************************************************)
(* The game thread.  It does nothing else while it hands a replay over.    *)
(***************************************************************************)
Free == choice = None

\* kz_pb_server_deactivate_post and the load of the next map, which queues
\* the replay at once when there is no connection.  g_pb_bot_data and
\* g_pb_pending_data keep their values; a map loaded again is not noticed.
LoadMap(m) ==
  /\ Free /\ Order
  /\ map' = m
  /\ waiting' = TRUE
  /\ entity' = FALSE
  /\ bot' = FALSE
  /\ data' = <<>>
  /\ \/ /\ m # map
        /\ proWR' = FALSE
        /\ Parse(Fastest(m))
     \/ /\ proWR' = (proWR /\ m = map)
        /\ UNCHANGED <<parseQueue, parser>>
  /\ Recall(None)
  /\ UNCHANGED <<disk, playing, fresh, choice, gone>>

\* MAP_INFO tells that the map has a pro record.
LearnProRecord ==
  /\ Free
  /\ ~proWR
  /\ proWR' = TRUE
  /\ UNCHANGED <<disk, map, waiting, bots, parseQueue, parser, parsed, orders,
                 gone, asked>>

\* kz_pb_frame, two and a half seconds after the load.
SetUp ==
  /\ Free
  /\ waiting
  /\ waiting' = FALSE
  /\ entity' = TRUE
  /\ Parse(SrReplay(map))
  /\ Recall(asked)
  /\ playing' = IF SrReplay(map) = None THEN None ELSE playing
  /\ UNCHANGED <<disks, map, bot, parsed, orders, gone>>

\* The parsed replays the bot may show: of the map, and still stored.
\* Mutant: replays of another map count.
Valid_AnyMap == {i \in DOMAIN data : data[i] \in disk}

Valid == {i \in DOMAIN data : data[i] \in disk /\ data[i].map = map}

\* kz_pb_frame: the last replay that is valid is chosen...
\* Mutant: the first one is.
Choose_First ==
  /\ Free
  /\ entity
  /\ fresh
  /\ fresh' = FALSE
  /\ IF Valid = {}
     THEN data' = <<>> /\ UNCHANGED choice
     ELSE /\ choice' = data[CHOOSE i \in Valid : \A j \in Valid : i <= j]
          /\ UNCHANGED data
  /\ UNCHANGED <<disks, map, waiting, bots, parseQueue, parser, orders, gone,
                 asked>>

Choose ==
  /\ Free
  /\ entity
  /\ fresh
  /\ fresh' = FALSE
  /\ IF Valid = {}
     THEN data' = <<>> /\ UNCHANGED choice
     ELSE /\ choice' = data[CHOOSE i \in Valid : \A j \in Valid : j <= i]
          /\ UNCHANGED data
  /\ UNCHANGED <<disks, map, waiting, bots, parseQueue, parser, orders, gone,
                 asked>>

\* ... and taken, even if its file has been pruned since; the others are
\* forgotten.  A bot that does not exist yet may fail to be created.
Take ==
  /\ choice # None
  /\ choice' = None
  /\ playing' = choice
  /\ bot' \in {TRUE, bot}
  /\ data' = <<>>
  /\ UNCHANGED <<disks, map, waiting, entity, parseQueue, parser, fresh, orders,
                 gone, asked>>

\* kz_pb_think finds that the bot has left the server.
LoseBot ==
  /\ Free /\ Order
  /\ bot
  /\ bot' = FALSE
  /\ UNCHANGED <<disks, map, waiting, entity, playing, parseQueue, parser,
                 parsed, gone, asked>>

\* A replay was downloaded, or moved to the map's folder by FILE_ACK.
NewReplay(f) ==
  /\ Free /\ Order
  /\ f \notin disk
  /\ disk' = disk \cup {f}
  /\ gone' = gone \ {f}
  /\ UNCHANGED <<proWR, map, waiting, bots, parsed>>
  /\ \/ Parse(f)
     \/ IF f.map = map /\ SrReplay(map)' # playing
        THEN Parse(SrReplay(map)')
        ELSE UNCHANGED <<parseQueue, parser>>
  /\ Recall(asked)

\* kz_pb_drop_parsed_replay
\* Mutant: the flag falls though another replay waits.
Drop_Flag(f) ==
  /\ data' = [i \in DOMAIN data |-> IF data[i] = f THEN None ELSE data[i]]
  /\ fresh' = FALSE

Drop(f) ==
  /\ data' = [i \in DOMAIN data |-> IF data[i] = f THEN None ELSE data[i]]
  /\ fresh' = (fresh /\ \E i \in DOMAIN data : data[i] \notin {f, None})

\* kz_pb_stop_if_playing
\* Mutant: the bot is forgotten and goes on.
StopBot_Forgets(f) == UNCHANGED <<bot, playing>>

StopBot(f) ==
  /\ bot' = (bot /\ playing # f)
  /\ playing' = IF playing = f THEN None ELSE playing

\* kz_ws_delete_record_replay: the file goes, the bot stops showing it, and
\* kz_pb_reload_sr_bot queues the next one.
DeleteRecord(f) ==
  /\ Free /\ Order
  /\ f \in disk
  /\ disk' = disk \ {f}
  /\ gone' = gone \cup {f}
  /\ Drop(f)
  /\ StopBot(f)
  /\ UNCHANGED <<proWR, map, waiting, entity, choice>>
  /\ IF f.map = map /\ SrReplay(map)' # playing'
     THEN Parse(SrReplay(map)')
     ELSE UNCHANGED <<parseQueue, parser>>
  /\ Recall(Unless(f))

\* kz_rp_prune_replays, on another thread, and so even while the game thread
\* hands a replay over: it keeps the first replays.
Prune(f) ==
  /\ Order
  /\ f \in disk
  /\ f # Fastest(f.map)
  /\ disk' = disk \ {f}
  /\ asked' = Unless(f)
  /\ UNCHANGED <<proWR, map, waiting, bots, parseQueue, parser, parsed, gone>>

\* kz_api playback reload, kz_api playback load.
Command(f) ==
  /\ Free /\ Order
  /\ f \in disk
  /\ Parse(f)
  /\ Recall(asked)
  /\ UNCHANGED <<disks, map, waiting, bots, parsed, gone>>

-----------------------------------------------------------------------------
(***************************************************************************)
(* kz_pb_parser_thread                                                     *)
(***************************************************************************)
ParserStep(from) ==
  /\ parser = from
  /\ UNCHANGED <<disks, map, waiting, bots, choice, orders, gone, asked>>

\* The file is read and decoded, or it is gone; an empty queue ends the loop.
Look ==
  /\ ParserStep("look")
  /\ parser' = IF parseQueue = <<>> THEN "doze"
               ELSE IF Head(parseQueue) \in disk THEN "exists" ELSE "pop"
  /\ UNCHANGED <<parseQueue, data, fresh>>

\* A replay deleted while it was decoded is discarded.
Exists ==
  /\ ParserStep("exists")
  /\ parser' = IF Head(parseQueue) \in disk THEN "push" ELSE "pop"
  /\ UNCHANGED <<parseQueue, data, fresh>>

\* Under g_pb_data_mtx.
PushData ==
  /\ ParserStep("push")
  /\ Free
  /\ parser' = "pop"
  /\ data' = Append(data, Head(parseQueue))
  /\ fresh' = TRUE
  /\ UNCHANGED parseQueue

PopFile ==
  /\ ParserStep("pop")
  /\ parser' = "look"
  /\ parseQueue' = Tail(parseQueue)
  /\ UNCHANGED <<data, fresh>>

\* The predicate of the wait was false and the thread falls asleep; a
\* notification that comes between the two is lost.
ParserSleeps ==
  /\ ParserStep("doze")
  /\ parser' = "asleep"
  /\ UNCHANGED <<parseQueue, data, fresh>>

\* A wait may end without a notification.
ParserWakes ==
  /\ ParserStep("asleep")
  /\ parseQueue # <<>>
  /\ parser' = "look"
  /\ UNCHANGED <<parseQueue, data, fresh>>

Parser == Look \/ Exists \/ PushData \/ PopFile \/ ParserSleeps

BotNext ==
  \/ \E m \in Maps : LoadMap(m)
  \/ \E f \in Files :
       NewReplay(f) \/ DeleteRecord(f) \/ Prune(f) \/ Command(f)
  \/ LearnProRecord
  \/ SetUp
  \/ Choose
  \/ Take
  \/ LoseBot
  \/ Parser
  \/ ParserWakes

BotSpec == BotInit /\ [][BotNext]_botVars

\* Frames keep coming and the parser thread runs; nothing wakes it but a
\* notification.
BotFairSpec ==
  /\ BotSpec
  /\ WF_botVars(SetUp) /\ WF_botVars(Choose \/ Take) /\ WF_botVars(Parser)

-----------------------------------------------------------------------------
(***************************************************************************)
(* Properties.                                                             *)
(***************************************************************************)
\* The types; the queue keeps its capacity and the entity that drives the
\* bot is there as long as the bot.
BotTypeOK ==
  /\ disk \subseteq Files
  /\ map \in Maps
  /\ {proWR, waiting, entity, bot, fresh} \subseteq BOOLEAN
  /\ {playing, choice, asked} \subseteq Files \cup {None}
  /\ parseQueue \in Seq(Files)
  /\ Len(parseQueue) <= QueueCap
  /\ parser \in {"look", "exists", "push", "pop", "doze", "asleep"}
  /\ data \in Seq(Files \cup {None})
  /\ bot => entity
  /\ gone \subseteq Files

\* A bot in the game shows a replay of the map being played, whenever the
\* parser finishes with one of the map before.
BotOnItsMap == bot => playing # None /\ playing.map = map

\* A replay that was parsed is announced to the frames: the flag, which is
\* read without the mutex, never stays down over a waiting replay, unless a
\* frame is handing one over.
ParsedIsAnnounced ==
  (\E i \in DOMAIN data : data[i] # None) => fresh \/ choice # None

\* The replay that was queued last is the one the bot shows: when the parser
\* and the frames have nothing left to do, no replay decoded before it, no
\* record deleted or file pruned on the way, and no command in between has
\* kept it from the bot.  (As long as it is stored, is of the map played, and
\* no map was loaded since.)
LastOrderIsShown ==
  /\ entity /\ Free /\ ~fresh /\ parseQueue = <<>>
  /\ asked # None /\ asked.map = map
  => playing = asked

\* The bot does not show a replay that was deleted with its record, unless
\* it was stored again.
DeletedIsNotShown == bot => playing \notin gone

\* docs/server-integration.md:187, "Cached replays load the SR bot from disk
\* without re-downloading": a map that has a replay gets its bot.
CachedReplayIsPlayed ==
  \A m \in Maps :
    <>[](map = m /\ SrReplay(m) # None) => <>(playing # None)
=============================================================================
