----------------------------- MODULE ReplayFetch -----------------------------
(***************************************************************************)
(* How a server keeps in step with the record of the map it plays: the map *)
(* load that announces itself, the MAP_INFO answer, the GET_REPLAY request *)
(* and its download, the retries of failed downloads, and the deletion of  *)
(* records (kz_ws_msgs.cpp).  Four parties share the state: the game       *)
(* thread, the thread of the WebSocket client, one detached thread per     *)
(* download, and the API server.                                           *)
(*                                                                         *)
(* The replays folder is a cache of the server's records that a            *)
(* notification invalidates and a download fills.  A map has at most two   *)
(* replays here, one per run class: "pro" for uids 0_..., "nub" for        *)
(* 1_....  How messages are stored and sent again is module Outbox, how    *)
(* the connection comes and goes is module WsClient.                       *)
(*                                                                         *)
(* Both queues of the game thread may be full: what does not fit is given  *)
(* up, at once (g_outgoing_queue) or after ten seconds (g_incoming_queue). *)
(***************************************************************************)
EXTENDS Naturals, Sequences

CONSTANTS
  Maps,
  Holdings,       \* what the server may hold of a map at first
  Stocks,         \* what the folder of a map may hold at first
  NoMap,          \* no map is loaded yet
  RetriesMax,     \* kz_api_retries_max
  IncomingCap,    \* capacity of g_incoming_queue
  OrdersMax,      \* bound: map loads and requests of plugins
  TroublesMax     \* bound: lost connections, records an administrator deletes,
                  \* failed downloads, answers without a url, messages a full
                  \* queue refuses, requests without a row and callbacks
                  \* that collide, together

Class == {"pro", "nub"}

ASSUME ReplayFetchAssumption ==
  /\ NoMap \notin Maps
  /\ {Holdings, Stocks} \subseteq SUBSET SUBSET Class
  /\ RetriesMax \in Nat
  /\ IncomingCap \in Nat \ {0}
  /\ {OrdersMax, TroublesMax} \subseteq Nat

VARIABLES
  records,    \* the server's records of each map; [external]
  questions,  \* HELLO and MAP_CHANGE on their way, each to be answered
  requests,   \* requests[m]: GET_REPLAY rows of the outbox not answered yet
  link,       \* "down", "open": state stored, no HELLO yet, "up"
  ws,         \* the map whose request the client's thread is about to give up
  downloads,  \* downloads[m][c]: threads fetching that replay
  incoming,   \* g_incoming_queue: what the game thread will run
  map,        \* gpGlobals->mapname
  loaded,     \* s_last_map_loaded
  header,     \* g_header.map.name, which HELLO and MAP_CHANGE carry
  stage,      \* the game thread: "frame", or "notify" in kz_ws_on_map_loaded
  known,      \* g_current_map_info.updated
  proWR,      \* g_current_map_info.szWR_Pro is not empty
  pending,    \* g_replay_fetch_pending
  failed,     \* g_replay_pro_upgrade_failed
  retries,    \* retries[m]: retry_count of the map's entry, 0: no entry
  disk,       \* disk[m]: the .krpz files of the map's folder
  orders,     \* bounded events: map loads and requests of plugins...
  troubles,   \* ... lost connections, deleted records, failed downloads...
  unusable,   \* ... and answers without a url
  lost        \* history: the messages and callbacks that were lost since the
              \* map was loaded, "info" also until the next HELLO

server == <<records, questions, requests>>
client == <<link, ws, downloads>>
level == <<map, loaded, header, stage>>
info == <<known, proWR>>
fetching == <<pending, failed, retries>>
bounds == <<orders, troubles, unusable, lost>>
vars == <<server, client, incoming, level, info, fetching, disk, bounds>>

Question == [msg: {"HELLO", "MAP_CHANGE"}, map: Maps \cup {NoMap}]

Callback ==
  [kind: {"info"}, map: Maps, pro: BOOLEAN]
    \cup [kind: {"downloaded"}, map: Maps, class: Class, ok: BOOLEAN]
    \cup [kind: {"deleted"}, map: Maps, class: Class]

Init ==
  /\ records \in [Maps -> Holdings]
  /\ disk \in [Maps -> Stocks]
  /\ \A m \in Maps : disk[m] \subseteq records[m]
  /\ questions = {}
  /\ requests = [m \in Maps |-> 0]
  /\ link = "down"
  /\ ws = NoMap
  /\ downloads = [m \in Maps |-> [c \in Class |-> 0]]
  /\ incoming = <<>>
  /\ map = NoMap
  /\ loaded = NoMap
  /\ header = NoMap
  /\ stage = "frame"
  /\ known = FALSE
  /\ proWR = FALSE
  /\ pending = {}
  /\ failed = {}
  /\ retries = [m \in Maps |-> 0]
  /\ orders = 0
  /\ troubles = 0
  /\ unusable = 0
  /\ lost = {}

-----------------------------------------------------------------------------
\* g_websocket_state is WSState::Connected.
Connected == link # "down"

\* kz_ws_map_has_pro_wr: of the map being played, whichever map is meant.
HasProWR == known /\ proWR

\* kz_ws_local_replay_is_sufficient.
Sufficient(m) == disk[m] # {} /\ (HasProWR => "pro" \in disk[m])

\* kz_ws_try_fetch_replay, after the changes of the action that calls it.
TryFetch(m) ==
  LET go == Connected /\ m \notin pending /\ m \notin failed /\ ~Sufficient(m)'
  IN  /\ pending' = IF go THEN pending \cup {m} ELSE pending
      /\ requests' = IF go THEN [requests EXCEPT ![m] = @ + 1] ELSE requests

\* kz_ws_schedule_replay_download_retry: one more failure, or the last one.
\* Mutants: the map stays marked until its retry; there is no retry.
Schedule_StaysPending(m) ==
  /\ retries' = [retries EXCEPT
                   ![m] = IF @ > 0 /\ @ + 1 > RetriesMax THEN 0 ELSE @ + 1]
  /\ UNCHANGED pending

Schedule_NoRetry(m) ==
  /\ UNCHANGED retries
  /\ pending' = pending \ {m}

Schedule(m) ==
  /\ retries' = [retries EXCEPT
                   ![m] = IF @ > 0 /\ @ + 1 > RetriesMax THEN 0 ELSE @ + 1]
  /\ pending' = pending \ {m}

-----------------------------------------------------------------------------
(***************************************************************************)
(* The game thread.                                                        *)
(***************************************************************************)
Trouble == troubles + unusable < TroublesMax

InFrame == stage = "frame" /\ map # NoMap

\* A map load up to the look at the connection: kz_ws_on_map_loaded(false).
\* A map that is loaded again is not noticed.
LoadMap(m) ==
  /\ stage = "frame"
  /\ orders < OrdersMax
  /\ orders' = orders + 1
  /\ map' = m
  /\ IF m = loaded
     THEN UNCHANGED <<loaded, header, stage, info, pending, failed, lost>>
     ELSE /\ loaded' = m
          /\ header' = m
          /\ stage' = "notify"
          /\ known' = FALSE
          /\ pending' = pending \cap {m}
          /\ failed' = failed \ {m}
          /\ lost' = lost \cap {<<"downloaded", m>>, <<"request", m>>}
          /\ UNCHANGED proWR
  /\ UNCHANGED <<server, client, incoming, retries, disk, troubles,
                 unusable>>

\* The rest of kz_ws_on_map_loaded: kz_ws_event_map_change if connected.
\* Mutant: only the HELLO of a new connection tells the server the map.
Notify_Never ==
  /\ stage = "notify"
  /\ stage' = "frame"
  /\ UNCHANGED <<server, client, incoming, map, loaded, header, info, fetching,
                 disk, bounds>>

Notify ==
  /\ stage = "notify"
  /\ stage' = "frame"
  /\ questions' = IF Connected
                  THEN questions \cup {[msg |-> "MAP_CHANGE", map |-> header]}
                  ELSE questions
  /\ UNCHANGED <<records, requests, client, incoming, map, loaded, header,
                 info, fetching, disk, bounds>>

\* ... which g_outgoing_queue has no room for.  A MAP_CHANGE has a row in the
\* outbox, but is never sent again.
NotifyRefused ==
  /\ stage = "notify"
  /\ stage' = "frame"
  /\ Connected
  /\ Trouble
  /\ troubles' = troubles + 1
  /\ lost' = lost \cup {<<"info", header>>}
  /\ UNCHANGED <<server, client, incoming, map, loaded, header, info, fetching,
                 disk, orders, unusable>>

\* native kz_api_get_replay
PluginFetch(m) ==
  /\ InFrame
  /\ orders < OrdersMax
  /\ orders' = orders + 1
  /\ UNCHANGED <<records, questions, client, incoming, level, info, failed,
                 retries, disk, troubles, unusable, lost>>
  /\ TryFetch(m)

NextCallback(kind) ==
  /\ InFrame
  /\ incoming # <<>>
  /\ Head(incoming).kind = kind
  /\ incoming' = Tail(incoming)

\* The callback of kz_ws_ack_map_info; an answer for another map is logged.
HandleInfo ==
  /\ NextCallback("info")
  /\ UNCHANGED <<records, questions, client, level, failed, retries, disk,
                 bounds>>
  /\ IF Head(incoming).map = map
     THEN /\ known' = TRUE
          /\ proWR' = Head(incoming).pro
          /\ TryFetch(map)
     ELSE UNCHANGED <<info, pending, requests>>

\* The callback of a download that failed, or whose file cannot be written.
HandleFailure ==
  /\ NextCallback("downloaded")
  /\ LET d == Head(incoming) IN
       \/ /\ ~d.ok
          /\ UNCHANGED troubles
          /\ Schedule(d.map)
       \/ /\ d.ok
          /\ d.map = map
          /\ Trouble
          /\ troubles' = troubles + 1
          /\ Schedule(d.map)
  /\ UNCHANGED <<server, client, level, info, failed, disk, orders, unusable,
                 lost>>

\* The callback of a download that succeeded.
HandleReplay ==
  /\ NextCallback("downloaded")
  /\ LET d == Head(incoming) IN
       /\ d.ok
       /\ pending' = pending \ {d.map}
       /\ IF d.map = map
          THEN /\ disk' = [disk EXCEPT ![map] = @ \cup {d.class}]
               /\ failed' = failed \ {map}
               /\ retries' = [retries EXCEPT ![map] = 0]
          ELSE UNCHANGED <<disk, failed, retries>>
  /\ UNCHANGED <<server, client, level, info, bounds>>

\* The callback of DEL_RECORD_NOTIFY: kz_ws_delete_record_replay, with the
\* kz_pb_reload_sr_bot that asks for what is left.
HandleDeletion ==
  /\ NextCallback("deleted")
  /\ LET d == Head(incoming) IN
       /\ disk' = [disk EXCEPT ![d.map] = @ \ {d.class}]
       /\ UNCHANGED <<records, questions, client, level, info, failed, retries,
                      bounds>>
       /\ IF d.map = map
          THEN TryFetch(map)
          ELSE UNCHANGED <<pending, requests>>

\* kz_ws_process_replay_download_retries, for an entry that is due.
Retry(m) ==
  /\ InFrame
  /\ Connected
  /\ retries[m] > 0
  /\ UNCHANGED <<records, questions, client, incoming, level, info, failed,
                 disk, bounds>>
  /\ IF m # map \/ Sufficient(m)
     THEN /\ retries' = [retries EXCEPT ![m] = 0]
          /\ UNCHANGED <<pending, requests>>
     ELSE /\ UNCHANGED retries
          /\ TryFetch(m)

-----------------------------------------------------------------------------
(***************************************************************************)
(* The client's thread.  It waits ten seconds for room in                  *)
(* g_incoming_queue and then goes on without the callback.                 *)
(***************************************************************************)
\* Mutant: the last place is taken twice.
Room_OneMore == Len(incoming) <= IncomingCap

Room == Len(incoming) < IncomingCap

Listening == link = "up" /\ ws = NoMap

\* The Open event up to the store of WSState::Connected...
Connect ==
  /\ link = "down"
  /\ link' = "open"
  /\ UNCHANGED <<server, ws, downloads, incoming, level, info, fetching, disk,
                 bounds>>

\* ... and the HELLO, whose header is read only now.
SendHello ==
  /\ link = "open"
  /\ link' = "up"
  /\ questions' = questions \cup {[msg |-> "HELLO", map |-> header]}
  /\ lost' = lost \ {<<"info", header>>}
  /\ UNCHANGED <<records, requests, ws, downloads, incoming, level, info,
                 fetching, disk, orders, troubles, unusable>>

\* Close or Error.  A MAP_CHANGE that was not sent yet stays queued.
Disconnect ==
  /\ Connected
  /\ ws = NoMap
  /\ Trouble
  /\ troubles' = troubles + 1
  /\ link' = "down"
  /\ \E unsent \in SUBSET {q \in questions : q.msg = "MAP_CHANGE"} :
       questions' = unsent
  /\ UNCHANGED <<records, requests, ws, downloads, incoming, level, info,
                 fetching, disk, orders, unusable, lost>>

\* HELLO_ACK or MAP_INFO: kz_ws_ack_hello, kz_ws_ack_map_info.
AnswerQuestion(q) ==
  /\ Listening
  /\ q.map # NoMap => Room
  /\ q \in questions
  /\ questions' = questions \ {q}
  /\ incoming' = IF q.map = NoMap
                 THEN incoming
                 ELSE Append(incoming, [kind |-> "info", map |-> q.map,
                                        pro |-> "pro" \in records[q.map]])
  /\ UNCHANGED <<records, requests, client, level, info, fetching, disk,
                 bounds>>

\* Ten seconds without room: HELLO has no id and a MAP_CHANGE is not sent
\* again, so neither is answered a second time.
DropAnswer(q) ==
  /\ Listening
  /\ ~Room
  /\ Trouble
  /\ troubles' = troubles + 1
  /\ q \in questions
  /\ q.map # NoMap
  /\ questions' = questions \ {q}
  /\ lost' = lost \cup {<<"info", q.map>>}
  /\ UNCHANGED <<records, requests, client, incoming, level, info, fetching,
                 disk, orders, unusable>>

Answered(m) == requests' = [requests EXCEPT ![m] = @ - 1]

\* What the server has to offer; a pro run outranks any other.
Offer(m) ==
  IF "pro" \in records[m] THEN "pro"
  ELSE IF "nub" \in records[m] THEN "nub" ELSE "error"

\* The map played has a pro record, the answer brings none.
Disappoints(m) ==
  /\ HasProWR
  /\ Offer(m) = "error" => "pro" \notin disk[m]
  /\ Offer(m) # "pro"

\* GET_REPLAY_ACK or ERROR: kz_ws_ack_get_replay and kz_ws_ack_error, up to
\* the test of g_current_map_info, which belongs to the game thread.
AnswerRequest(m) ==
  /\ Listening
  /\ requests[m] > 0
  /\ IF Disappoints(m)
     THEN /\ ws' = m
          /\ UNCHANGED <<requests, downloads, pending>>
     ELSE /\ Answered(m)
          /\ UNCHANGED ws
          /\ IF Offer(m) = "error"
             THEN /\ pending' = pending \ {m}
                  /\ UNCHANGED downloads
             ELSE /\ downloads' = [downloads EXCEPT ![m][Offer(m)] = @ + 1]
                  /\ UNCHANGED pending
  /\ UNCHANGED <<records, questions, link, incoming, level, info, failed,
                 retries, disk, bounds>>

\* An answer without a url or a uid.
AnswerUnusable(m) ==
  /\ Listening
  /\ requests[m] > 0
  /\ Trouble
  /\ unusable' = unusable + 1
  /\ Answered(m)
  /\ pending' = pending \ {m}
  /\ UNCHANGED <<records, questions, client, incoming, level, info, failed,
                 retries, disk, orders, troubles, lost>>

\* The rest of the two handlers: the map is not to be asked for again.
GiveUp ==
  /\ ws # NoMap
  /\ ws' = NoMap
  /\ failed' = failed \cup {ws}
  /\ pending' = pending \ {ws}
  /\ Answered(ws)
  /\ UNCHANGED <<records, questions, link, downloads, incoming, level, info,
                 retries, disk, bounds>>

\* A request whose INSERT failed has no row: it goes when the retry queue is
\* built anew, and kz_ws_ack_error finds no map for its answer.
LoseRequest(m) ==
  /\ requests[m] > (IF ws = m THEN 1 ELSE 0)
  /\ Trouble
  /\ troubles' = troubles + 1
  /\ Answered(m)
  /\ lost' = lost \cup {<<"request", m>>}
  /\ UNCHANGED <<records, questions, client, incoming, level, info, fetching,
                 disk, orders, unusable>>

\* An administrator deletes a record; DEL_RECORD_NOTIFY reaches the servers
\* that are connected and have room for its callback.
DeleteRecord(m, c) ==
  /\ c \in records[m]
  /\ Trouble
  /\ troubles' = troubles + 1
  /\ records' = [records EXCEPT ![m] = @ \ {c}]
  /\ \/ /\ Listening
        /\ Room
        /\ incoming' = Append(incoming,
                              [kind |-> "deleted", map |-> m, class |-> c])
        /\ UNCHANGED lost
     \/ /\ Listening
        /\ ~Room
        /\ lost' = lost \cup {<<"deleted", m>>}
        /\ UNCHANGED incoming
     \/ /\ link # "up"
        /\ UNCHANGED <<incoming, lost>>
  /\ UNCHANGED <<questions, requests, client, level, info, fetching, disk,
                 orders, unusable>>

-----------------------------------------------------------------------------
(***************************************************************************)
(* The download threads: kz_ws_download_replay_async.                      *)
(***************************************************************************)
Downloaded(m, c) ==
  /\ downloads[m][c] > 0
  /\ downloads' = [downloads EXCEPT ![m][c] = @ - 1]

\* A record that was deleted may or may not be served any more.
EndDownload(m, c) ==
  /\ Downloaded(m, c)
  /\ Room
  /\ \/ /\ incoming' = Append(incoming, [kind |-> "downloaded", map |-> m,
                                         class |-> c, ok |-> TRUE])
        /\ UNCHANGED troubles
     \/ /\ incoming' = Append(incoming, [kind |-> "downloaded", map |-> m,
                                         class |-> c, ok |-> FALSE])
        /\ \/ c \notin records[m] /\ UNCHANGED troubles
           \/ Trouble /\ troubles' = troubles + 1
  /\ UNCHANGED <<server, link, ws, level, info, fetching, disk, orders,
                 unusable, lost>>

\* g_incoming_queue is full: the thread itself schedules the retry.
DropDownload(m, c) ==
  /\ Downloaded(m, c)
  /\ ~Room
  /\ Trouble
  /\ troubles' = troubles + 1
  /\ Schedule(m)
  /\ UNCHANGED <<server, link, ws, incoming, level, info, failed, disk,
                 orders, unusable, lost>>

(***************************************************************************)
(* The queue is made for a single producer, the client's thread.  Of what  *)
(* it and a download thread, or two of these, push at the same time, both  *)
(* into the same place, one is lost.                                       *)
(***************************************************************************)
Collide(m, c) ==
  /\ Downloaded(m, c)
  /\ incoming # <<>>
  /\ Trouble
  /\ troubles' = troubles + 1
  /\ LET n == Len(incoming) IN
       \/ /\ lost' = lost \cup {<<"downloaded", m>>}
          /\ UNCHANGED incoming
       \/ /\ lost' = lost \cup {<<incoming[n].kind, incoming[n].map>>}
          /\ incoming' = [incoming EXCEPT ![n] = [kind |-> "downloaded", map |-> m,
                                                 class |-> c, ok |-> TRUE]]
  /\ UNCHANGED <<server, link, ws, level, info, fetching, disk, orders,
                 unusable>>

-----------------------------------------------------------------------------
Handle == HandleInfo \/ HandleFailure \/ HandleReplay \/ HandleDeletion

Next ==
  \/ \E m \in Maps :
       \/ LoadMap(m)
       \/ PluginFetch(m)
       \/ Retry(m)
       \/ AnswerRequest(m)
       \/ AnswerUnusable(m)
       \/ LoseRequest(m)
       \/ \E c \in Class :
            DeleteRecord(m, c) \/ EndDownload(m, c) \/ DropDownload(m, c) \/ Collide(m, c)
  \/ Notify
  \/ NotifyRefused
  \/ Handle
  \/ Connect
  \/ SendHello
  \/ Disconnect
  \/ GiveUp
  \/ \E q \in questions : AnswerQuestion(q) \/ DropAnswer(q)

Spec == Init /\ [][Next]_vars

(***************************************************************************)
(* Every thread keeps running, the server answers and downloads end.       *)
(* Whether a map is loaded, a connection lost or a record deleted is       *)
(* nobody's duty.                                                          *)
(***************************************************************************)
Fairness ==
  /\ WF_vars(Notify)
  /\ WF_vars(Handle)
  /\ WF_vars(Connect)
  /\ WF_vars(SendHello)
  /\ WF_vars(GiveUp)
  /\ WF_vars(\E q \in questions : AnswerQuestion(q))
  /\ \A m \in Maps :
       /\ WF_vars(Retry(m))
       /\ SF_vars(AnswerRequest(m))
       /\ SF_vars(\E c \in Class : EndDownload(m, c))

FairSpec == Spec /\ Fairness

-----------------------------------------------------------------------------
(***************************************************************************)
(* Properties.                                                             *)
(***************************************************************************)
\* The types, with the limits of g_incoming_queue and of the attempts: an
\* entry that has failed more than kz_api_retries_max times is erased.
TypeOK ==
  /\ records \in [Maps -> SUBSET Class]
  /\ disk \in [Maps -> SUBSET Class]
  /\ questions \subseteq Question
  /\ requests \in [Maps -> Nat]
  /\ link \in {"down", "open", "up"}
  /\ {ws, map, loaded, header} \subseteq Maps \cup {NoMap}
  /\ downloads \in [Maps -> [Class -> Nat]]
  /\ incoming \in Seq(Callback)
  /\ Len(incoming) <= IncomingCap
  /\ stage \in {"frame", "notify"}
  /\ {known, proWR} \subseteq BOOLEAN
  /\ pending \subseteq Maps
  /\ failed \subseteq Maps
  /\ retries \in [Maps -> 0 .. RetriesMax + 1]
  /\ \A m \in Maps : retries[m] <= RetriesMax \/ retries[m] = 1
  /\ lost \subseteq {"info", "request", "downloaded", "deleted"}
                       \X (Maps \cup {NoMap})

CallbackFor(kind, m) ==
  \E i \in DOMAIN incoming : incoming[i].kind = kind /\ incoming[i].map = m

\* A map is marked as being fetched only while a request, a download or a
\* callback that will unmark it is under way, whatever failed and wherever
\* the server has gone meanwhile: a mark that nobody removes would keep
\* kz_ws_try_fetch_replay from ever asking for the map again.  The exceptions
\* are a callback that two threads have pushed into one place, and a request
\* whose row was never inserted.
PendingHasCause ==
  \A m \in pending :
    \/ requests[m] > 0
    \/ \E c \in Class : downloads[m][c] > 0
    \/ CallbackFor("downloaded", m)
    \/ <<"downloaded", m>> \in lost
    \/ <<"request", m>> \in lost

\* A connected server that does not know the record of its map is about to
\* hear of it: a HELLO or a MAP_CHANGE that names the map is on its way, or
\* the answer waits in g_incoming_queue.  The map load writes the header
\* and then looks at the connection, the client's thread stores the
\* connection and then reads the header, so one of them sees the other.
\* The exception is a message that was lost since the map was loaded and the
\* last HELLO sent: a MAP_CHANGE for which g_outgoing_queue had no room
\* (kz_ws.cpp:277), or an answer that found no room in g_incoming_queue for
\* ten seconds (kz_ws.cpp:115) or no place of its own there.  Nobody asks
\* again then, until the next map load or HELLO.
InfoIsComing ==
  link = "up" /\ stage = "frame" /\ map # NoMap /\ ~known =>
    \/ \E q \in questions : q.map = map
    \/ CallbackFor("info", map)
    \/ <<"info", map>> \in lost

\* A server that stays on a map, connected, with a record to show and the
\* map not given up, has a replay to play in the end and gets one again when
\* it was deleted, whichever connections are lost, records deleted and
\* downloads failed on the way, as long as the attempts last, every answer
\* names a url and nothing is lost for good.
WrReplayArrives ==
  <>[](/\ map # NoMap /\ link = "up" /\ records[map] # {}
       /\ map \notin failed /\ unusable = 0
       /\ lost = {})
    => []<>(map # NoMap /\ disk[map] # {})

\* docs/server-integration.md:187, the module "fetches the WR replay via
\* GET_REPLAY when no local .krpz exists": a map given up is one whose
\* server offers no replay of the record it announced.
EveryLoadFetches ==
  \A m \in Maps :
    <>[](map = m /\ link = "up" /\ Offer(m) # "error") => <>(disk[m] # {})

\* docs/server-integration.md:187, "On every map load the module notifies the
\* API (MAP_CHANGE), receives MAP_INFO": a server that stays connected learns
\* the record of the map it stays on, whatever the queues are full of.
InfoAlwaysComes ==
  \A m \in Maps : <>[](map = m /\ link = "up") => <>known

\* docs/server-integration.md:191, "Missed broadcasts while offline are
\* resynced on the next map load or reconnect HELLO/MAP_INFO": when HELLO is
\* answered and nothing is under way, the map has no replay of a deleted
\* record.
MissedDeletionsAreResynced ==
  /\ link = "up" /\ stage = "frame" /\ map # NoMap /\ known
  /\ questions = {} /\ incoming = <<>>
  /\ \A m \in Maps : requests[m] = 0 /\ \A c \in Class : downloads[m][c] = 0
  => disk[map] \subseteq records[map]

\* addons/amxmodx/configs/kz_global.cfg:23, "Maximum number of attempts to
\* resend data": the requests for a map come to an end.
RetriesEnd == \A m \in Maps : <>[](requests[m] = 0)
=============================================================================
