------------------------------- MODULE Storage -------------------------------
(***************************************************************************)
(* The message store of the KZ module: kz_storage.cpp.                     *)
(*                                                                         *)
(* Two SQLite tables hold what the module still owes the API server:       *)
(* outgoing_queue (protocol messages) and upload_queue (replay files).     *)
(* Beside them g_retry_queue, a vector under g_retry_mtx, is the part of   *)
(* the tables the game thread retransmits from.  Several threads call the  *)
(* store (game thread, replay writer, WebSocket thread), each over a       *)
(* database handle of its own, and a call that touches both memory and     *)
(* disk is not atomic: the actions below are its atomic pieces, `call[t]`  *)
(* says how far thread t has come.                                         *)
(*                                                                         *)
(* A message is a model value, saved at most once.  TypeOf is the msg_type *)
(* column: a WSMsgOut number for outgoing_queue, 0 for upload_queue.       *)
(* TextOf is the text column.                                              *)
(***************************************************************************)
EXTENDS Naturals

CONSTANTS
  Threads,     \* the threads that call the store
  GameThread,  \* the one that loads, clears and runs the admin's commands
  Msgs,        \* the messages and uploads that may be saved
  NoMsg,       \* no message
  Saver,       \* Saver[m]: the thread that saves m
  TableOf,     \* TableOf[m]: the table m is saved in
  TypeOf,      \* TypeOf[m]: its msg_type column
  TextOf,      \* TextOf[m]: its text column
  RetriesMax,  \* cvar kz_api_retries_max
  DbMayFail    \* may a database call throw (disk full, busy for 5 s)?

Tables == {"outgoing_queue", "upload_queue"}

\* WSMsgOut, the message types of the protocol's client side.
MAP_CHANGE    == 2
PLAYER_JOIN   == 3
PLAYER_LEAVE  == 4
WANT_MAP_INFO == 5
ADD_RECORD    == 8
GET_REPLAY    == 9

ASSUME StorageAssumption ==
  /\ NoMsg \notin Msgs
  /\ GameThread \in Threads
  /\ Saver \in [Msgs -> Threads]
  /\ TableOf \in [Msgs -> Tables]
  /\ TypeOf \in [Msgs -> Nat]
  /\ \A m \in Msgs : TableOf[m] = "upload_queue" => TypeOf[m] = 0
  /\ RetriesMax \in Nat
  /\ DbMayFail \in BOOLEAN

VARIABLES
  rows,      \* the rows on disk: a set of [table, id, msg]
  seq,       \* sqlite_sequence: the largest id ever inserted, per table
  retryQ,    \* g_retry_queue: a set of [table, id, msg, retries]
  call,      \* call[t]: the store call thread t is inside
  (* History, read by the properties only. *)
  idOf,      \* idOf[m]: the id m was given, 0 when it has none
  stored,    \* the messages whose INSERT succeeded
  clashed    \* the <<table, id>> handed out again while a holder was unsaved,
             \* or made up by the error path of kz_storage_get_next_id

svars == <<rows, seq, retryQ, call, idOf, stored, clashed>>

Row   == [table : Tables, id : Nat, msg : Msgs]
Entry == [table : Tables, id : Nat, msg : Msgs, retries : Nat]
Call  == [op : {"idle", "push", "insert", "post", "delete", "delete_all"},
          table : Tables, id : Nat, msg : Msgs \cup {NoMsg}]

Idle == [op |-> "idle", table |-> "outgoing_queue", id |-> 0, msg |-> NoMsg]

EntryOf(r) == [table |-> r.table, id |-> r.id, msg |-> r.msg, retries |-> 0]

HasId(x, tb, id) == x.table = tb /\ x.id = id

\* The messages that hold an id without a row of their own to show for it.
Unsaved == {m \in Msgs : idOf[m] # 0 /\ m \notin stored}

Clashed(m) == <<TableOf[m], idOf[m]>> \in clashed

HasRow(m) == \E r \in rows : r.msg = m

-----------------------------------------------------------------------------
\* A process starts with an empty database and an empty queue.
StorageInit ==
  /\ rows = {}
  /\ seq = [tb \in Tables |-> 0]
  /\ retryQ = {}
  /\ call = [t \in Threads |-> Idle]
  /\ idOf = [m \in Msgs |-> 0]
  /\ stored = {}
  /\ clashed = {}

(***************************************************************************)
(* kz_storage_get_next_id: the id after the largest one ever inserted.     *)
(* Nothing reserves it, so a second thread that asks before the first has  *)
(* inserted is given the same id.  When the SELECT throws, the id is 1.    *)
(***************************************************************************)
NextIds(tb) == {seq[tb] + 1} \cup (IF DbMayFail THEN {1} ELSE {})

GetNextId(t, m) ==
  LET tb == TableOf[m] IN
  /\ call[t] = Idle
  /\ Saver[m] = t
  /\ idOf[m] = 0
  /\ \E id \in NextIds(tb) :
       /\ idOf' = [idOf EXCEPT ![m] = id]
       /\ call' = [call EXCEPT ![t] =
                     [op |-> "push", table |-> tb, id |-> id, msg |-> m]]
       /\ clashed' = IF \/ id # seq[tb] + 1
                        \/ \E n \in Unsaved : TableOf[n] = tb /\ idOf[n] = id
                     THEN clashed \cup {<<tb, id>>}
                     ELSE clashed
  /\ UNCHANGED <<rows, seq, retryQ, stored>>

(***************************************************************************)
(* kz_storage_save: the entry joins g_retry_queue first, under the mutex;  *)
(* the row is inserted after the mutex is released.                        *)
(***************************************************************************)
Push(t) ==
  /\ call[t].op = "push"
  /\ retryQ' = retryQ \cup {EntryOf(call[t])}
  /\ call' = [call EXCEPT ![t].op = "insert"]
  /\ UNCHANGED <<rows, seq, idOf, stored, clashed>>

\* Mutant: the id column is no primary key.
InsertOk_NoKey(t) ==
  LET c == call[t] IN
  /\ c.op = "insert"
  /\ rows' = rows \cup {[table |-> c.table, id |-> c.id, msg |-> c.msg]}
  /\ seq' = [seq EXCEPT ![c.table] = IF c.id > @ THEN c.id ELSE @]
  /\ stored' = stored \cup {c.msg}
  /\ call' = [call EXCEPT ![t].op = "post"]
  /\ UNCHANGED <<retryQ, idOf, clashed>>

InsertOk(t) ==
  LET c == call[t] IN
  /\ c.op = "insert"
  /\ \A r \in rows : ~HasId(r, c.table, c.id)
  /\ rows' = rows \cup {[table |-> c.table, id |-> c.id, msg |-> c.msg]}
  /\ seq' = [seq EXCEPT ![c.table] = IF c.id > @ THEN c.id ELSE @]
  /\ stored' = stored \cup {c.msg}
  /\ call' = [call EXCEPT ![t].op = "post"]
  /\ UNCHANGED <<retryQ, idOf, clashed>>

\* The primary key is taken, or the database throws: caught and logged.
InsertFails(t) ==
  LET c == call[t] IN
  /\ c.op = "insert"
  /\ DbMayFail \/ \E r \in rows : HasId(r, c.table, c.id)
  /\ call' = [call EXCEPT ![t].op = "post"]
  /\ UNCHANGED <<rows, seq, retryQ, idOf, stored, clashed>>

\* The save has returned; its caller goes on (to send the message).
Return(t) ==
  /\ call[t].op = "post"
  /\ call' = [call EXCEPT ![t] = Idle]
  /\ UNCHANGED <<rows, seq, retryQ, idOf, stored, clashed>>

(***************************************************************************)
(* kz_storage_delete and kz_storage_delete_all: entries under the mutex,   *)
(* then rows.                                                              *)
(***************************************************************************)
EraseEntry(t, tb, id) ==
  /\ call[t] = Idle
  /\ retryQ' = {e \in retryQ : ~HasId(e, tb, id)}
  /\ call' = [call EXCEPT ![t] =
                [op |-> "delete", table |-> tb, id |-> id, msg |-> NoMsg]]
  /\ UNCHANGED <<rows, seq, idOf, stored, clashed>>

EraseTable(t, tb) ==
  /\ call[t] = Idle
  /\ retryQ' = {e \in retryQ : e.table # tb}
  /\ call' = [call EXCEPT ![t] =
                [op |-> "delete_all", table |-> tb, id |-> 0, msg |-> NoMsg]]
  /\ UNCHANGED <<rows, seq, idOf, stored, clashed>>

\* Mutant: emptying a table starts its ids anew.
DeleteRows_ResetsIds(t) ==
  LET c == call[t] IN
  /\ c.op \in {"delete", "delete_all"}
  /\ rows' = {r \in rows : \/ r.table # c.table
                           \/ c.op = "delete" /\ r.id # c.id}
  /\ seq' = IF c.op = "delete_all" THEN [seq EXCEPT ![c.table] = 0] ELSE seq
  /\ call' = [call EXCEPT ![t] = Idle]
  /\ UNCHANGED <<retryQ, idOf, stored, clashed>>

DeleteRows(t) ==
  LET c == call[t] IN
  /\ c.op \in {"delete", "delete_all"}
  /\ \/ rows' = {r \in rows : \/ r.table # c.table
                              \/ c.op = "delete" /\ r.id # c.id}
     \/ DbMayFail /\ rows' = rows
  /\ call' = [call EXCEPT ![t] = Idle]
  /\ UNCHANGED <<seq, retryQ, idOf, stored, clashed>>

\* kz_storage_delete_by_value: rows of upload_queue only, no entry.
DeleteByValue(t, text) ==
  /\ call[t] = Idle
  /\ \/ rows' = {r \in rows : r.table # "upload_queue" \/ TextOf[r.msg] # text}
     \/ DbMayFail /\ rows' = rows
  /\ UNCHANGED <<seq, retryQ, call, idOf, stored, clashed>>

\* The clean-up after an accepted upload: one entry of it, under the mutex.
EraseByValue(t, text) ==
  /\ call[t] = Idle
  /\ LET mine == {e \in retryQ : e.table = "upload_queue" /\ TextOf[e.msg] = text} IN
     \/ mine = {} /\ UNCHANGED retryQ
     \/ \E e \in mine : retryQ' = retryQ \ {e}
  /\ UNCHANGED <<rows, seq, call, idOf, stored, clashed>>

(***************************************************************************)
(* kz_storage_load, at every map start: the queue is what the tables hold, *)
(* or as much as was read when the database throws.                        *)
(***************************************************************************)
\* Mutant: a map start keeps the queue it finds.
Load_KeepsQueue(t) == call[t] = Idle /\ UNCHANGED svars

Load(t) ==
  /\ call[t] = Idle
  /\ \/ retryQ' = {EntryOf(r) : r \in rows}
     \/ DbMayFail /\ \E R \in SUBSET rows : retryQ' = {EntryOf(r) : r \in R}
  /\ UNCHANGED <<rows, seq, call, idOf, stored, clashed>>

(***************************************************************************)
(* kz_storage_clear, at a map change: messages about a map or a player     *)
(* that are moot on the next map are dropped.  The type is tested in both  *)
(* tables, the rows are deleted in outgoing_queue only.  The mutex is held *)
(* throughout, batch delete included.                                      *)
(***************************************************************************)
\* Mutants: every type from PLAYER_JOIN on is moot; so is any that is not
\* about a record; the rows of all entries go.
Moot_TooMany(e) == TypeOf[e.msg] >= PLAYER_JOIN
Moot_Others(e) == TypeOf[e.msg] \notin {ADD_RECORD, GET_REPLAY}
MootRow_All(r) == \E e \in retryQ : HasId(r, e.table, e.id)

Moot(e) == TypeOf[e.msg] \in {WANT_MAP_INFO, PLAYER_JOIN, PLAYER_LEAVE}

MootRow(r) ==
  \E e \in retryQ : /\ Moot(e)
                    /\ e.table = "outgoing_queue"
                    /\ HasId(r, e.table, e.id)

Clear(t) ==
  /\ call[t] = Idle
  /\ retryQ' = {e \in retryQ : ~Moot(e)}
  /\ \/ rows' = {r \in rows : ~MootRow(r)}
     \/ DbMayFail /\ rows' = rows
  /\ UNCHANGED <<seq, call, idOf, stored, clashed>>

\* kz_storage_requeue_all_pending: every entry is due now, with no retry used.
RequeueAll(t) ==
  /\ call[t] = Idle
  /\ retryQ' = {[e EXCEPT !.retries = 0] : e \in retryQ}
  /\ UNCHANGED <<rows, seq, call, idOf, stored, clashed>>

\* The administrator's "storage requeue <id>": entries of either table.
RequeueId(t, id) ==
  /\ call[t] = Idle
  /\ retryQ' = {IF e.id = id THEN [e EXCEPT !.retries = 0] ELSE e : e \in retryQ}
  /\ UNCHANGED <<rows, seq, call, idOf, stored, clashed>>

(***************************************************************************)
(* What kz_ws_run_tasks does to an entry that is due: it is taken out of   *)
(* the queue, row left alone, when its retries are used up or its type is  *)
(* one the server does not answer (in either table); else it is resent and *)
(* counted.                                                                *)
(***************************************************************************)
NoAnswerExpected(e) == TypeOf[e.msg] \in {PLAYER_LEAVE, MAP_CHANGE}

GivenUp(e) == e.retries > RetriesMax \/ NoAnswerExpected(e)

GiveUp(e) ==
  /\ GivenUp(e)
  /\ retryQ' = retryQ \ {e}
  /\ UNCHANGED <<rows, seq, call, idOf, stored, clashed>>

\* Mutant: the retries are counted down.
Resent_Down(e) == [e EXCEPT !.retries = @ - 1]

Resent(e) == [e EXCEPT !.retries = @ + 1]

Resend(e) ==
  /\ ~GivenUp(e)
  /\ retryQ' = (retryQ \ {e}) \cup {Resent(e)}
  /\ UNCHANGED <<rows, seq, call, idOf, stored, clashed>>

(***************************************************************************)
(* The process dies and is started again: memory is gone, SQLite is not.   *)
(* A message that was not stored is as if it had never been made.          *)
(***************************************************************************)
Crash ==
  /\ retryQ' = {}
  /\ call' = [t \in Threads |-> Idle]
  /\ idOf' = [m \in Msgs |-> IF m \in stored THEN idOf[m] ELSE 0]
  /\ UNCHANGED <<rows, seq, stored, clashed>>

StorageNext ==
  \/ \E t \in Threads :
       \/ \E m \in Msgs : GetNextId(t, m)
       \/ Push(t) \/ InsertOk(t) \/ InsertFails(t) \/ Return(t)
       \/ \E m \in Msgs : idOf[m] # 0 /\ EraseEntry(t, TableOf[m], idOf[m])
       \/ DeleteRows(t)
       \/ RequeueAll(t)
  \/ \E tb \in Tables : EraseTable(GameThread, tb)
  \/ \E t \in Threads, m \in Msgs : \/ DeleteByValue(t, TextOf[m])
                                    \/ EraseByValue(t, TextOf[m])
  \/ Load(GameThread)
  \/ Clear(GameThread)
  \/ \E m \in Msgs : RequeueId(GameThread, idOf[m])
  \/ call[GameThread] = Idle /\ \E e \in retryQ : GiveUp(e) \/ Resend(e)
  \/ Crash

StorageSpec == StorageInit /\ [][StorageNext]_svars

-----------------------------------------------------------------------------
\* Every variable has its type.
StorageTypeOK ==
  /\ rows \subseteq Row
  /\ seq \in [Tables -> Nat]
  /\ retryQ \subseteq Entry
  /\ call \in [Threads -> Call]
  /\ idOf \in [Msgs -> Nat]
  /\ stored \subseteq Msgs
  /\ clashed \subseteq Tables \X Nat

(***************************************************************************)
(* An id names one message for ever: over deletes, failed inserts, map     *)
(* changes and restarts, two messages of a table share an id only if it    *)
(* was handed out a second time before its first holder was stored.  The   *)
(* server answers with the id alone and the answer deletes the row, so a   *)
(* reused id would delete a message nobody received.                       *)
(***************************************************************************)
FreshId ==
  \A m, n \in Msgs :
    /\ m # n
    /\ TableOf[m] = TableOf[n]
    /\ idOf[m] = idOf[n]
    /\ idOf[m] # 0
    => Clashed(m)

(***************************************************************************)
(* Disk and memory agree on who an id belongs to: a row carries the id its *)
(* message was given (the one inside the text the server answers to), no   *)
(* two rows of a table have the same id, and an entry of the retry queue   *)
(* retransmits its message under that id too, whatever the interleaving of *)
(* saves, deletes and reloads.                                             *)
(***************************************************************************)
SameIdEverywhere ==
  /\ \A r \in rows : /\ r.msg \in stored
                     /\ HasId(r, TableOf[r.msg], idOf[r.msg])
  /\ \A r, s \in rows : HasId(r, s.table, s.id) => r = s
  /\ \A e \in retryQ : HasId(e, TableOf[e.msg], idOf[e.msg])

(***************************************************************************)
(* Neither a map change nor kz_ws_run_tasks takes an upload with retries   *)
(* left out of line: uploads share the queue, and the tests on the message *)
(* type, with protocol messages, but are never moot and always answered.   *)
(***************************************************************************)
UploadsStayInLine ==
  [][ Clear(GameThread) \/ (\E e \in retryQ : GiveUp(e)) =>
        \A e \in retryQ :
          e.table = "upload_queue" /\ e.retries <= RetriesMax
          => \E f \in retryQ' : f.msg = e.msg ]_svars
=============================================================================
