----------------------------- MODULE MapDetails -----------------------------
(***************************************************************************)
(* kz_api_get_map_details: a plugin asks for the details of a map, and a   *)
(* handler of its own is called with the answer (kz_natives.cpp,           *)
(* kz_ws_ack_map_info of kz_ws_msgs.cpp, kz_storage_clear).                *)
(*                                                                         *)
(* The handler becomes a forward of AMX Mod X, a number that is free again *)
(* once the handler was called; g_plugin_callbacks keeps the forward of    *)
(* each question until the map changes.  The question itself is a message  *)
(* of Outbox, in a table, in the retry queue and on the link, which does   *)
(* not fail here; a late answer is enough for a question to be sent twice. *)
(***************************************************************************)
EXTENDS Naturals, Sequences, FiniteSets, FiniteSetsExt

CONSTANTS
  Maps,        \* the names plugins ask for, the current map's among them
  QueueCap,    \* capacity of g_incoming_queue (64 in the code)
  RetriesMax,  \* kz_api_retries_max
  AsksMax,     \* bound: how many questions are asked
  ChangesMax   \* bound: how often the map changes

VARIABLES
  map,        \* STRING(gpGlobals->mapname)
  updated,    \* g_current_map_info.updated
  forward,    \* AMX Mod X: the map the handler of a forward asked for
  callbacks,  \* g_plugin_callbacks: the forward of a question, 0 for none
  rows,       \* the questions in outgoing_queue
  retries,    \* retries[id]: retry_count of an entry of g_retry_queue
  toServer,   \* questions on their way: ids
  deleting,   \* the id the client's thread is about to delete, 0 for none
  tasks,      \* g_incoming_queue
  asked,      \* asked[id]: the map a question is about
  changes,    \* how often the map changed
  given       \* the last call of a handler: what it asked, what it got

vars == <<map, updated, forward, callbacks, rows, retries, toServer, deleting,
          tasks, asked, changes, given>>

Ids      == 1..AsksMax
Forwards == 1..AsksMax
NoMap    == "none"
NotInQueue == RetriesMax + 2

Init ==
  /\ map \in Maps
  /\ updated = FALSE
  /\ forward = [h \in Forwards |-> NoMap]
  /\ callbacks = [id \in Ids |-> 0]
  /\ rows = {}
  /\ retries = [id \in Ids |-> NotInQueue]
  /\ toServer = <<>>
  /\ deleting = 0
  /\ tasks = <<>>
  /\ asked = <<>>
  /\ changes = 0
  /\ given = {}

-----------------------------------------------------------------------------
\* AMX Mod X gives out the number of a forward again once it is unregistered;
\* which one, of several, does not matter here.
FreeForward == Min({h \in Forwards : forward[h] = NoMap})

\* kz_call_map_info_forward: a forward that is not registered calls nobody.
CallForward(h, m) ==
  /\ given' = IF forward[h] = NoMap THEN given ELSE {[asked |-> forward[h], got |-> m]}
  /\ forward' = [forward EXCEPT ![h] = NoMap]

(***************************************************************************)
(* kz_api_get_map_details.  The current map is answered at once when its   *)
(* details are known; else the question is stored and sent.                *)
(***************************************************************************)
AnswerAtOnce(m) ==
  /\ m = map
  /\ updated
  /\ \E h \in Forwards : forward[h] = NoMap
  /\ given' = {[asked |-> m, got |-> map]}
  /\ UNCHANGED <<map, updated, forward, callbacks, rows, retries, toServer,
                 deleting, tasks, asked, changes>>

Ask(m) ==
  LET id == Len(asked) + 1 IN
  /\ ~(m = map /\ updated)
  /\ id \in Ids
  /\ asked' = Append(asked, m)
  /\ forward' = [forward EXCEPT ![FreeForward] = m]
  /\ callbacks' = [callbacks EXCEPT ![id] = FreeForward]
  /\ rows' = rows \cup {id}
  /\ retries' = [retries EXCEPT ![id] = 0]
  /\ toServer' = Append(toServer, id)
  /\ UNCHANGED <<map, updated, deleting, tasks, changes, given>>

\* kz_ws_run_tasks, an entry whose delay is over: sent again, or given up.
Retry(id) ==
  /\ retries[id] <= RetriesMax
  /\ retries' = [retries EXCEPT ![id] = @ + 1]
  /\ toServer' = Append(toServer, id)
  /\ UNCHANGED <<map, updated, forward, callbacks, rows, deleting, tasks, asked,
                 changes, given>>

GiveUp(id) ==
  /\ retries[id] = RetriesMax + 1
  /\ retries' = [retries EXCEPT ![id] = NotInQueue]
  /\ UNCHANGED <<map, updated, forward, callbacks, rows, toServer, deleting,
                 tasks, asked, changes, given>>

-----------------------------------------------------------------------------
\* The server answers every question it is sent; kz_ws_onmessage leaves a task
\* for the game thread, then deletes the message.  A full queue drops the answer.
Answer ==
  /\ toServer # <<>>
  /\ deleting = 0
  /\ LET id == Head(toServer) IN
     IF Len(tasks) < QueueCap
     THEN /\ tasks' = Append(tasks, [id |-> id, map |-> asked[id]])
          /\ deleting' = id
     ELSE UNCHANGED <<tasks, deleting>>
  /\ toServer' = Tail(toServer)
  /\ UNCHANGED <<map, updated, forward, callbacks, rows, retries, asked, changes,
                 given>>

Delete ==
  /\ deleting # 0
  /\ rows' = rows \ {deleting}
  /\ retries' = [retries EXCEPT ![deleting] = NotInQueue]
  /\ deleting' = 0
  /\ UNCHANGED <<map, updated, forward, callbacks, toServer, tasks, asked,
                 changes, given>>

\* The details that come with HELLO are no answer to a question.
Hello ==
  /\ Len(tasks) < QueueCap
  /\ deleting = 0
  /\ tasks' = Append(tasks, [id |-> 0, map |-> map])
  /\ UNCHANGED <<map, updated, forward, callbacks, rows, retries, toServer,
                 deleting, asked, changes, given>>

(***************************************************************************)
(* kz_ws_ack_map_info's task.  The entry of the question is left where it  *)
(* is.                                                                     *)
(***************************************************************************)
RunTask ==
  /\ tasks # <<>>
  /\ LET t == Head(tasks) IN
     IF t.id # 0 /\ callbacks[t.id] # 0
     THEN /\ CallForward(callbacks[t.id], t.map)
          /\ UNCHANGED updated
     ELSE /\ updated' = (updated \/ t.map = map)
          /\ UNCHANGED <<forward, given>>
  /\ tasks' = Tail(tasks)
  /\ UNCHANGED <<map, callbacks, rows, retries, toServer, deleting, asked,
                 changes>>

(***************************************************************************)
(* A map change: kz_storage_clear drops the questions in the retry queue,  *)
(* with their entries, AMX Mod X drops every forward, kz_ws_on_map_loaded  *)
(* forgets the details and kz_storage_load reads the table.                *)
(***************************************************************************)
InQueue == {id \in Ids : retries[id] # NotInQueue}

ChangeMap(m) ==
  /\ changes < ChangesMax
  /\ changes' = changes + 1
  /\ callbacks' = [id \in Ids |-> IF id \in InQueue THEN 0 ELSE callbacks[id]]
  /\ rows' = rows \ InQueue
  /\ retries' = [id \in Ids |-> IF id \in rows' THEN 0 ELSE NotInQueue]
  /\ forward' = [h \in Forwards |-> NoMap]
  /\ map' = m
  /\ updated' = FALSE
  /\ UNCHANGED <<toServer, deleting, tasks, asked, given>>

Next ==
  \/ \E m \in Maps : AnswerAtOnce(m) \/ Ask(m) \/ ChangeMap(m)
  \/ \E id \in Ids : Retry(id) \/ GiveUp(id)
  \/ Answer \/ Delete \/ Hello \/ RunTask

Spec == Init /\ [][Next]_vars

-----------------------------------------------------------------------------
\* Every variable has its type.
TypeOK ==
  /\ map \in Maps
  /\ updated \in BOOLEAN
  /\ forward \in [Forwards -> Maps \cup {NoMap}]
  /\ callbacks \in [Ids -> 0..AsksMax]
  /\ rows \subseteq Ids
  /\ retries \in [Ids -> 0..NotInQueue]
  /\ toServer \in Seq(Ids)
  /\ deleting \in 0..AsksMax
  /\ tasks \in Seq([id : 0..AsksMax, map : Maps])
  /\ asked \in Seq(Maps)
  /\ changes \in Nat

(***************************************************************************)
(* kz_global_api.inc: "Requests map details for a specific map", "handler: *)
(* The public callback function to receive the data".  A handler is called *)
(* with the details of the map it asked for.                               *)
(***************************************************************************)
HandlersGetTheirMap == \A call \in given : call.got = call.asked
=============================================================================
