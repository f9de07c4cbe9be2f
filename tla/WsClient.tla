------------------------------ MODULE WsClient ------------------------------
(***************************************************************************)
(* The connection to the API server (kz_ws.cpp): the game thread starts    *)
(* and stops the client when the settings change (KZ_Cvar_DirectSet), on   *)
(* the command "kz_api reconnect" and at shutdown; the WebSocket thread,   *)
(* which belongs to ixwebsocket, connects, retries, and calls              *)
(* kz_ws_onmessage.  A server that refuses the client (close code 1008 or  *)
(* 1003, HTTP 401 or 403) must not be called again and again.              *)
(*                                                                         *)
(* Two bounded queues lead from the WebSocket thread to the game thread:   *)
(* the tasks of g_incoming_queue and the lines of g_ws_log.  A callback    *)
(* waits at most ten seconds for room for a task, and without end for room *)
(* for a line (kz_log).                                                    *)
(***************************************************************************)
EXTENDS Naturals

CONSTANTS
  IncomingCap,  \* capacity of g_incoming_queue (64 in the code)
  ClientLogCap, \* capacity of g_ws_log (64 in the code)
  LinesMax,     \* bound: lines a callback writes in one go
  CommandsMax,  \* bound: settings changes, commands and the shutdown
  TroublesMax   \* bound: failed attempts and lost connections

ASSUME WsClientAssumption ==
  /\ IncomingCap \in Nat /\ ClientLogCap \in Nat /\ LinesMax \in Nat \ {0}
  /\ CommandsMax \in Nat /\ TroublesMax \in Nat

VARIABLES
  state,     \* g_websocket_state
  allowed,   \* g_ws_auto_reconnect_allowed
  auto,      \* automatic reconnection is enabled in g_websocket
  thread,    \* the WebSocket thread: "none", "trying", "open", "lost", "ended"
  handler,   \* the callback it is in, "none" outside kz_ws_onmessage
  db,        \* it has its kz_storage_database
  incoming,  \* length of g_incoming_queue
  clientLog, \* length of g_ws_log
  lines,     \* lines the callback has to write to it before it goes on
  gameThread, \* where the game thread is: "idle", "stop", "start", "store",
              \* "gone"
  order,     \* what it is doing that for
  settings,  \* kz_api_url and kz_api_token
  commands, troubles,  \* counters of the bounded events
  banned     \* history: the last word of the server was a refusal

lib == <<auto, thread, handler>>
adm == <<gameThread, order, settings, commands>>
logging == <<clientLog, lines>>
clientVars == <<state, allowed, lib, db, incoming, logging, adm, troubles,
                banned>>

\* Which callback a disconnection ends in, and which of them are refusals.
Closings == {"Close", "CloseRefused"}
Errors   == {"Error", "ErrorRefused"}
Refusals == {"CloseRefused", "ErrorRefused"}

Settings == {"empty", "bad", "good"}  \* "bad": the url is not wss://

ClientInit ==
  /\ state = "Uninitialized"
  /\ allowed = TRUE
  /\ auto = TRUE
  /\ thread = "none"
  /\ handler = "none"
  /\ db = FALSE
  /\ incoming = 0
  /\ clientLog = 0
  /\ lines = 0
  /\ gameThread = "idle"
  /\ order = "none"
  /\ settings = "empty"
  /\ commands = 0
  /\ troubles = 0
  /\ banned = FALSE

-----------------------------------------------------------------------------
(***************************************************************************)
(* The game thread.                                                        *)
(***************************************************************************)
\* Stop the client if it was ever started, then start it.
Restart(what) ==
  /\ order' = what
  /\ gameThread' = IF state = "Uninitialized" THEN "start" ELSE "stop"

\* KZ_Cvar_DirectSet for kz_api_url or kz_api_token.
ChangeSettings(s) ==
  /\ gameThread = "idle"
  /\ commands < CommandsMax
  /\ commands' = commands + 1
  /\ settings' = s
  /\ IF s = "empty" THEN UNCHANGED <<gameThread, order>> ELSE Restart("change")
  /\ UNCHANGED <<state, allowed, lib, db, incoming, logging, troubles, banned>>

\* kz_api_cmd, "reconnect".
Reconnect ==
  /\ gameThread = "idle"
  /\ commands < CommandsMax
  /\ commands' = commands + 1
  /\ settings # "empty"
  /\ Restart("reconnect")
  /\ UNCHANGED <<state, allowed, lib, db, incoming, logging, settings,
                 troubles, banned>>

\* FN_GameShutdown: the logs are emptied once, then kz_ws_uninit.
Shutdown ==
  /\ gameThread = "idle"
  /\ commands < CommandsMax
  /\ commands' = commands + 1
  /\ gameThread' = "stop"
  /\ order' = "shutdown"
  /\ clientLog' = 0
  /\ UNCHANGED <<state, allowed, lib, db, incoming, lines, settings, troubles,
                 banned>>

\* kz_ws_stop has told the thread to stop, and joins it.
JoinClient ==
  /\ gameThread = "stop"
  /\ thread \in {"none", "ended"}
  /\ handler = "none"
  /\ thread' = "none"
  /\ gameThread' = IF order = "shutdown" THEN "gone" ELSE "start"
  /\ UNCHANGED <<state, allowed, auto, handler, db, incoming, logging, order,
                 settings, commands, troubles, banned>>

\* A settings change lifts a refusal, the command does not; kz_ws_start.
\* Mutant: the command lifts it too.
Start_AlwaysAllowed ==
  /\ gameThread = "start"
  /\ allowed' = TRUE
  /\ banned' = (banned /\ order # "change")
  /\ IF settings = "good"
     THEN /\ auto' = TRUE
          /\ thread' = "trying"
          /\ gameThread' = "store"
     ELSE /\ gameThread' = "idle"
          /\ UNCHANGED <<auto, thread>>
  /\ UNCHANGED <<state, handler, db, incoming, logging, order, settings,
                 commands, troubles>>

Start ==
  /\ gameThread = "start"
  /\ allowed' = (order = "change" \/ allowed)
  /\ banned' = (banned /\ order # "change")
  /\ IF settings = "good"
     THEN /\ auto' = allowed'
          /\ thread' = "trying"
          /\ gameThread' = "store"
     ELSE /\ gameThread' = "idle"
          /\ UNCHANGED <<auto, thread>>
  /\ UNCHANGED <<state, handler, db, incoming, logging, order, settings,
                 commands, troubles>>

\* The last statement of kz_ws_start, while the new thread is running.
StoreInitialized ==
  /\ gameThread = "store"
  /\ state' = "Initialized"
  /\ gameThread' = "idle"
  /\ UNCHANGED <<allowed, lib, db, incoming, logging, order, settings,
                 commands, troubles, banned>>

\* kz_ws_run_tasks: no task runs while the game thread waits in Join.
RunTask ==
  /\ gameThread = "idle"
  /\ incoming > 0
  /\ incoming' = incoming - 1
  /\ UNCHANGED <<state, allowed, lib, db, logging, adm, troubles, banned>>

\* kz_log_flush, which only the frames of a game thread that is free call.
FlushClientLog ==
  /\ gameThread = "idle"
  /\ clientLog > 0
  /\ clientLog' = clientLog - 1
  /\ UNCHANGED <<state, allowed, lib, db, incoming, lines, adm, troubles,
                 banned>>

-----------------------------------------------------------------------------
(***************************************************************************)
(* ixwebsocket's thread: it tries to connect, and after a failure or a     *)
(* lost connection tries again if it may and nobody stops it.              *)
(***************************************************************************)
Connects ==
  /\ thread = "trying"
  /\ thread' = "open"
  /\ handler' = "Open"
  /\ UNCHANGED <<state, allowed, auto, db, incoming, logging, adm, troubles,
                 banned>>

\* A callback for a connection that ended.  It begins with kz_storage_uninit
\* of the thread's own database, and with a line.
\* Mutant: a database that was open stays open unless the client is refused.
Disconnects_KeepsDatabase(reasons) ==
  \E r \in reasons :
    /\ handler' = r
    /\ thread' = "lost"
    /\ banned' = (banned \/ r \in Refusals)
    /\ db' = (db /\ r \notin Refusals)
    /\ lines' = 1
    /\ UNCHANGED <<state, allowed, auto, incoming, clientLog, adm>>

Disconnects(reasons) ==
  \E r \in reasons :
    /\ handler' = r
    /\ thread' = "lost"
    /\ banned' = (banned \/ r \in Refusals)
    /\ db' = FALSE
    /\ lines' = 1
    /\ UNCHANGED <<state, allowed, auto, incoming, clientLog, adm>>

ConnectFails ==
  /\ thread = "trying"
  /\ troubles < TroublesMax
  /\ troubles' = troubles + 1
  /\ Disconnects(Errors)

ConnectionLost ==
  /\ thread = "open"
  /\ handler = "none"
  /\ troubles < TroublesMax
  /\ troubles' = troubles + 1
  /\ Disconnects(Closings)

\* stop() closes an open connection, or breaks off an attempt.
Stopped ==
  /\ gameThread = "stop"
  /\ handler = "none"
  /\ \/ thread = "open" /\ Disconnects({"Close"})
     \/ thread = "trying" /\ Disconnects({"Error"})
  /\ UNCHANGED troubles

TriesAgain ==
  /\ thread = "lost"
  /\ handler = "none"
  /\ auto
  /\ gameThread # "stop"
  /\ thread' = "trying"
  /\ UNCHANGED <<state, allowed, auto, handler, db, incoming, logging, adm,
                 troubles, banned>>

Ends ==
  /\ thread = "lost"
  /\ handler = "none"
  /\ ~auto \/ gameThread = "stop"
  /\ thread' = "ended"
  /\ UNCHANGED <<state, allowed, auto, handler, db, incoming, logging, adm,
                 troubles, banned>>

\* The received text and what is wrong with it may be lines of the log.
Receives ==
  /\ thread = "open"
  /\ handler = "none"
  /\ handler' = "Message"
  /\ lines' \in 0 .. LinesMax
  /\ UNCHANGED <<state, allowed, auto, thread, db, incoming, clientLog, adm,
                 troubles, banned>>

-----------------------------------------------------------------------------
(***************************************************************************)
(* kz_ws_onmessage.  A step ends where the callback has written the lines  *)
(* that come next.                                                         *)
(***************************************************************************)
\* kz_log: the thread tries again and again until there is room.
WriteLine ==
  /\ lines > 0
  /\ clientLog < ClientLogCap
  /\ clientLog' = clientLog + 1
  /\ lines' = lines - 1
  /\ UNCHANGED <<state, allowed, lib, db, incoming, adm, troubles, banned>>

\* Mutant: a connection that comes up does not allow reconnecting again.
OnOpen_StaysForbidden ==
  /\ handler = "Open"
  /\ db' = TRUE
  /\ banned' = FALSE
  /\ handler' = "Opened"
  /\ lines' \in 1 .. LinesMax
  /\ UNCHANGED <<state, allowed, auto, thread, incoming, clientLog, adm,
                 troubles>>

OnOpen ==
  /\ handler = "Open"
  /\ allowed' = TRUE
  /\ auto' = TRUE
  /\ db' = TRUE
  /\ banned' = FALSE
  /\ handler' = "Opened"
  /\ lines' \in 1 .. LinesMax
  /\ UNCHANGED <<state, thread, incoming, clientLog, adm, troubles>>

\* ... then the state, and the HELLO.
OnOpenStore ==
  /\ handler = "Opened"
  /\ lines = 0
  /\ state' = "Connected"
  /\ handler' = "Done"
  /\ lines' \in 0 .. LinesMax
  /\ UNCHANGED <<allowed, auto, thread, db, incoming, clientLog, adm, troubles,
                 banned>>

\* Mutant: the queue may grow by one more.
OnMessage_Overfull ==
  /\ handler = "Message"
  /\ lines = 0
  /\ incoming <= IncomingCap
  /\ incoming' = incoming + 1
  /\ handler' = "Done"
  /\ lines' \in 0 .. LinesMax
  /\ UNCHANGED <<state, allowed, auto, thread, db, clientLog, adm, troubles,
                 banned>>

OnMessage ==
  /\ handler = "Message"
  /\ lines = 0
  /\ incoming < IncomingCap
  /\ incoming' = incoming + 1
  /\ handler' = "Done"
  /\ lines' \in 0 .. LinesMax
  /\ UNCHANGED <<state, allowed, auto, thread, db, clientLog, adm, troubles,
                 banned>>

\* A message without a task, or one for which there was no room for 10 s.
\* Mutant: the WebSocket thread waits until there is room.
OnMessageDropped_Waits ==
  /\ handler = "Message"
  /\ lines = 0
  /\ incoming < IncomingCap
  /\ handler' = "Done"
  /\ lines' \in 0 .. LinesMax
  /\ UNCHANGED <<state, allowed, auto, thread, db, incoming, clientLog, adm,
                 troubles, banned>>

OnMessageDropped ==
  /\ handler = "Message"
  /\ lines = 0
  /\ handler' = "Done"
  /\ lines' \in 0 .. LinesMax
  /\ UNCHANGED <<state, allowed, auto, thread, db, incoming, clientLog, adm,
                 troubles, banned>>

Forbid(r) ==
  /\ allowed' = (allowed /\ r \notin Refusals)
  /\ auto' = (auto /\ r \notin Refusals)

\* Mutant: only a refusal is a disconnection, as in OnError.
OnClose_StateOfRefusal ==
  /\ handler \in Closings
  /\ lines = 0
  /\ Forbid(handler)
  /\ state' = IF handler = "CloseRefused" THEN "Disconnected" ELSE state
  /\ handler' = "none"
  /\ UNCHANGED <<thread, db, incoming, logging, adm, troubles, banned>>

OnClose ==
  /\ handler \in Closings
  /\ lines = 0
  /\ Forbid(handler)
  /\ state' = "Disconnected"
  /\ handler' = "none"
  /\ UNCHANGED <<thread, db, incoming, logging, adm, troubles, banned>>

OnError ==
  /\ handler \in Errors
  /\ lines = 0
  /\ Forbid(handler)
  /\ state' = IF handler = "ErrorRefused" THEN "Disconnected"
              ELSE "DisconnectedButWorthRetrying"
  /\ handler' = "none"
  /\ UNCHANGED <<thread, db, incoming, logging, adm, troubles, banned>>

\* The last lines are written and the callback returns.
Returns ==
  /\ handler = "Done"
  /\ lines = 0
  /\ handler' = "none"
  /\ UNCHANGED <<state, allowed, auto, thread, db, incoming, logging, adm,
                 troubles, banned>>

OnEvent == WriteLine \/ OnOpen \/ OnOpenStore \/ OnMessage
             \/ OnMessageDropped \/ OnClose \/ OnError \/ Returns

-----------------------------------------------------------------------------
ClientNext ==
  \/ \E s \in Settings : ChangeSettings(s)
  \/ Reconnect \/ Shutdown
  \/ JoinClient \/ Start \/ StoreInitialized \/ RunTask \/ FlushClientLog
  \/ Connects \/ ConnectFails \/ ConnectionLost \/ Stopped
  \/ TriesAgain \/ Ends \/ Receives
  \/ OnEvent

ClientSpec == ClientInit /\ [][ClientNext]_clientVars

(***************************************************************************)
(* Fairness: both threads run, and a game thread that is free empties the  *)
(* log in its frames; an attempt ends (connect and handshake have time     *)
(* limits), a connection that is told to close does so between two         *)
(* messages (SF), and the ten seconds of a full g_incoming_queue pass.     *)
(***************************************************************************)
ClientFairness ==
  /\ WF_clientVars(JoinClient) /\ WF_clientVars(Start)
  /\ WF_clientVars(StoreInitialized) /\ WF_clientVars(FlushClientLog)
  /\ WF_clientVars(Connects \/ ConnectFails)
  /\ SF_clientVars(Stopped)
  /\ WF_clientVars(TriesAgain \/ Ends)
  /\ WF_clientVars(OnEvent)

ClientFairSpec == ClientSpec /\ ClientFairness

-----------------------------------------------------------------------------
\* Every variable has its type.
ClientTypeOK ==
  /\ state \in {"Uninitialized", "Initialized", "Connected", "Disconnected",
                "DisconnectedButWorthRetrying"}
  /\ allowed \in BOOLEAN
  /\ auto \in BOOLEAN
  /\ thread \in {"none", "trying", "open", "lost", "ended"}
  /\ handler \in {"none", "Open", "Opened", "Message", "Done"}
                  \cup Closings \cup Errors
  /\ db \in BOOLEAN
  /\ incoming \in 0 .. IncomingCap
  /\ clientLog \in 0 .. ClientLogCap
  /\ lines \in 0 .. LinesMax
  /\ gameThread \in {"idle", "stop", "start", "store", "gone"}
  /\ order \in {"none", "change", "reconnect", "shutdown"}
  /\ settings \in Settings
  /\ commands \in Nat
  /\ troubles \in Nat
  /\ banned \in BOOLEAN

(***************************************************************************)
(* kz_ws.cpp: "do not spin-reconnect".  Once the server has refused the    *)
(* client, each further attempt is one the game thread was told to make,   *)
(* until a connection is accepted or the settings change; an attempt that  *)
(* fails for another reason in between is not repeated either.             *)
(***************************************************************************)
RefusalRespected == [][ TriesAgain => ~banned ]_clientVars

(***************************************************************************)
(* The WebSocket thread has its own database connection exactly while it   *)
(* may get messages: it is there for each of them, and the thread never    *)
(* ends with it (a new thread would open another one and leak this one).   *)
(***************************************************************************)
DatabaseFollowsLink ==
  /\ handler = "Message" => db
  /\ thread \in {"none", "ended", "trying"} => ~db

(***************************************************************************)
(* kz_ws_run_tasks, the replay fetches and the SR bot act on Connected.    *)
(* Once the handler of a disconnection is done, the state is not Connected *)
(* any more, whatever the game thread stored meanwhile.                    *)
(***************************************************************************)
ConnectedIsConnected ==
  state = "Connected" => thread = "open" \/ handler \in Closings \cup Errors

(***************************************************************************)
(* kz_ws_stop ends, although the game thread, which waits for the          *)
(* WebSocket thread, empties neither queue meanwhile: a callback gives up  *)
(* a task after ten seconds.  Except (kz_util.cpp:261): it never gives up  *)
(* a line of the log, so a callback that has one to write to a full log    *)
(* and the game thread in the join wait for each other for good.           *)
(***************************************************************************)
StopEnds ==
  gameThread = "stop"
    ~> gameThread # "stop" \/ (lines > 0 /\ clientLog = ClientLogCap)

(***************************************************************************)
(* A connection that is lost comes back, unless the server refuses it or   *)
(* somebody stops the client.                                              *)
(***************************************************************************)
ConnectionComesBack ==
  thread = "lost" /\ ~banned
    ~> thread = "open" \/ banned \/ gameThread = "stop"

(***************************************************************************)
(* kz_util.cpp: the state Initialized is "initialized (connecting)".  When *)
(* the client is connected and neither thread is busy, it is Connected.    *)
(***************************************************************************)
ConnectionIsSeen ==
  thread = "open" /\ handler = "none" /\ gameThread = "idle"
    => state = "Connected"

(***************************************************************************)
(* kz_util.cpp: the state DisconnectedButWorthRetrying is "disconnected    *)
(* (retrying)".  In this state somebody retries, as long as the settings   *)
(* are in order.                                                           *)
(***************************************************************************)
RetryingIsRetrying ==
  state = "DisconnectedButWorthRetrying" /\ gameThread = "idle"
    /\ settings = "good" => thread # "ended"
=============================================================================
