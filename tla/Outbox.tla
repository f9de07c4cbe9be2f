------------------------------- MODULE Outbox -------------------------------
(***************************************************************************)
(* The delivery of protocol messages to the API server: the store          *)
(* (module Storage) composed with the WebSocket link, the game thread's    *)
(* kz_ws_run_tasks and the server's answers (kz_ws.cpp, kz_ws_msgs.cpp).   *)
(*                                                                         *)
(* A message is saved, then posted: the game thread puts it in             *)
(* g_outgoing_queue, any other thread writes it to the socket itself.      *)
(* Until the server answers, kz_ws_run_tasks retransmits it from           *)
(* g_retry_queue; the answer carries only the message's id, and the        *)
(* WebSocket thread deletes that id from the store.                        *)
(***************************************************************************)
EXTENDS Storage, Sequences, FiniteSets

CONSTANTS
  WsThread,    \* the WebSocket thread, on which kz_ws_onmessage runs
  QueueCap,    \* capacity of g_outgoing_queue (64 in the code)
  TroublesMax  \* bound: how often the link may be lost or the process die

ASSUME OutboxAssumption ==
  /\ WsThread \in Threads \ {GameThread}
  /\ TableOf = [m \in Msgs |-> "outgoing_queue"]
  /\ QueueCap \in Nat
  /\ TroublesMax \in Nat

VARIABLES
  link,      \* "up": WSState::Connected and ReadyState::Open
  outq,      \* g_outgoing_queue: a sequence of frames
  net,       \* frames on their way to the server: a set of [id, msg]
  replies,   \* answers on their way back: a set of ids
  losses,    \* how often the link was lost
  crashes,   \* how often the process died
  (* History, read by the properties only. *)
  answered,  \* messages the server has processed and answered
  purged     \* messages whose row an administrator had deleted

wvars == <<link, outq, net, replies, losses, crashes, answered, purged>>
vars  == <<svars, wvars>>

Frame == [id : Nat, msg : Msgs]

FrameOf(x) == [id |-> x.id, msg |-> x.msg]

-----------------------------------------------------------------------------
Init ==
  /\ StorageInit
  /\ link = "down"
  /\ outq = <<>>
  /\ net = {}
  /\ replies = {}
  /\ losses = 0
  /\ crashes = 0
  /\ answered = {}
  /\ purged = {}

(***************************************************************************)
(* Steps of the store that the link does not see.                          *)
(***************************************************************************)
StoreStep ==
  /\ \/ \E t \in Threads : \/ \E m \in Msgs : GetNextId(t, m)
                           \/ Push(t) \/ InsertOk(t) \/ InsertFails(t)
     \/ Load(GameThread)
     \/ Clear(GameThread)
     \/ DeleteRows(WsThread)
  /\ UNCHANGED wvars

\* kz_api_cmd "storage requeue": all entries, or those with an id.
AdminRequeue ==
  /\ \/ RequeueAll(GameThread)
     \/ \E m \in Msgs : RequeueId(GameThread, idOf[m])
  /\ UNCHANGED wvars

\* kz_api_cmd "storage delete" and "storage clear".
AdminDelete ==
  /\ \/ \E m \in Msgs : idOf[m] # 0 /\ EraseEntry(GameThread, TableOf[m], idOf[m])
     \/ EraseTable(GameThread, "outgoing_queue")
  /\ UNCHANGED wvars

AdminDeleteRows ==
  /\ DeleteRows(GameThread)
  /\ purged' = purged \cup {r.msg : r \in rows \ rows'}
  /\ UNCHANGED <<link, outq, net, replies, losses, crashes, answered>>

(***************************************************************************)
(* The caller of kz_storage_save posts the message, stored or not.  A full *)
(* queue or a closed socket is logged and the frame is gone.               *)
(***************************************************************************)
Send(f) == net' = IF link = "up" THEN net \cup {f} ELSE net

Post(t) ==
  /\ Return(t)
  /\ IF t = GameThread
     THEN /\ outq' = IF Len(outq) < QueueCap
                     THEN Append(outq, FrameOf(call[t])) ELSE outq
          /\ UNCHANGED net
     ELSE /\ Send(FrameOf(call[t]))
          /\ UNCHANGED outq
  /\ UNCHANGED <<link, replies, losses, crashes, answered, purged>>

(***************************************************************************)
(* kz_ws_run_tasks, one turn of its two loops: queued frames first; when   *)
(* none is left, one entry of the retry queue whose delay is over.  Which  *)
(* entry is due is left open.                                              *)
(***************************************************************************)
SendQueued ==
  /\ link = "up"
  /\ outq # <<>>
  /\ Send(Head(outq))
  /\ outq' = Tail(outq)
  /\ UNCHANGED <<svars, link, replies, losses, crashes, answered, purged>>

RetryEntry(e) ==
  /\ link = "up"
  /\ outq = <<>>
  /\ call[GameThread] = Idle
  /\ \/ GiveUp(e) /\ UNCHANGED net
     \/ Resend(e) /\ Send(FrameOf(e))
  /\ UNCHANGED <<link, outq, replies, losses, crashes, answered, purged>>

Retry(m) == \E e \in retryQ : e.msg = m /\ RetryEntry(e)

(***************************************************************************)
(* The server processes a frame; it answers with the frame's id.           *)
(***************************************************************************)
Answer(f) ==
  /\ net' = net \ {f}
  /\ answered' = answered \cup {f.msg}
  /\ replies' = IF NoAnswerExpected(f) THEN replies ELSE replies \cup {f.id}
  /\ UNCHANGED <<svars, link, outq, losses, crashes, purged>>

(***************************************************************************)
(* kz_ws_onmessage, Message: when the handler's task does not fit into     *)
(* g_incoming_queue for 10 s the answer is dropped and the message kept.   *)
(***************************************************************************)
HandleReply(id) ==
  /\ call[WsThread] = Idle
  /\ replies' = replies \ {id}
  /\ \/ EraseEntry(WsThread, "outgoing_queue", id)
     \/ UNCHANGED svars
  /\ UNCHANGED <<link, outq, net, losses, crashes, answered, purged>>

\* kz_ws_onmessage, Open: every entry is due again before anything is sent.
Open ==
  /\ link = "down"
  /\ link' = "up"
  /\ RequeueAll(WsThread)
  /\ UNCHANGED <<outq, net, replies, losses, crashes, answered, purged>>

\* kz_ws_onmessage, Close and Error: what was in flight is lost.
Lost ==
  /\ link = "up"
  /\ call[WsThread] = Idle
  /\ losses + crashes < TroublesMax
  /\ losses' = losses + 1
  /\ link' = "down"
  /\ net' = {}
  /\ replies' = {}
  /\ UNCHANGED <<svars, outq, crashes, answered, purged>>

ProcessDies ==
  /\ Crash
  /\ losses + crashes < TroublesMax
  /\ crashes' = crashes + 1
  /\ link' = "down"
  /\ outq' = <<>>
  /\ net' = {}
  /\ replies' = {}
  /\ UNCHANGED <<losses, answered, purged>>

Next ==
  \/ StoreStep \/ AdminRequeue \/ AdminDelete \/ AdminDeleteRows
  \/ \E t \in Threads : Post(t)
  \/ SendQueued
  \/ \E m \in Msgs : Retry(m)
  \/ \E f \in net : Answer(f)
  \/ \E id \in replies : HandleReply(id)
  \/ Open \/ Lost \/ ProcessDies

Spec == Init /\ [][Next]_vars

(***************************************************************************)
(* Fairness: the threads that share the retry queue run, the server        *)
(* answers what reaches it, a lost link comes back (ixwebsocket            *)
(* reconnects), maps keep changing and the database does not fail at every *)
(* one of them.  A map start may wait behind the administrator's commands, *)
(* hence SF.                                                               *)
(***************************************************************************)
\* What a map change may drop and what is never retransmitted is not among them.
MustArrive(m) == TypeOf[m] \in {ADD_RECORD, GET_REPLAY}

Records == {m \in Msgs : MustArrive(m)}

LoadAll == Load(GameThread) /\ retryQ' = {EntryOf(r) : r \in rows} /\ UNCHANGED wvars

\* The next step of the call the game thread is in.
FinishCall ==
  \/ /\ Push(GameThread) \/ InsertOk(GameThread) \/ InsertFails(GameThread)
     /\ UNCHANGED wvars
  \/ Post(GameThread)
  \/ AdminDeleteRows

Fairness ==
  /\ WF_vars(FinishCall)
  /\ WF_vars(DeleteRows(WsThread) /\ UNCHANGED wvars)
  /\ WF_vars(SendQueued)
  /\ \A m \in Records : /\ SF_vars(Retry(m))
                        /\ WF_vars(\E f \in net : f.msg = m /\ Answer(f))
                        /\ WF_vars(idOf[m] \in replies /\ HandleReply(idOf[m]))
  /\ WF_vars(Open)
  /\ SF_vars(LoadAll)

FairSpec == Spec /\ Fairness

-----------------------------------------------------------------------------
\* Every variable of the link has its type.
TypeOK ==
  /\ StorageTypeOK
  /\ link \in {"up", "down"}
  /\ outq \in Seq(Frame)
  /\ net \subseteq Frame
  /\ replies \subseteq Nat
  /\ losses \in Nat
  /\ crashes \in Nat
  /\ answered \subseteq Msgs
  /\ purged \subseteq Msgs

(***************************************************************************)
(* A record that was stored stays on disk until the server has answered it *)
(* or an administrator deletes it, whatever happens to the link, the map   *)
(* and the process, unless its id was handed out twice.                    *)
(***************************************************************************)
KeptUntilAnswered ==
  \A m \in stored :
    MustArrive(m) => HasRow(m) \/ m \in answered \cup purged \/ Clashed(m)

(***************************************************************************)
(* An answer in flight, and the delete it sets off, name an id whose       *)
(* holder the server did answer: an answer is never taken for another      *)
(* message's, not even after a restart, while ids do not clash.            *)
(***************************************************************************)
AnswersHitTheirMessage ==
  \A m \in Msgs :
    /\ ~Clashed(m)
    /\ \/ idOf[m] \in replies
       \/ /\ call[WsThread].op = "delete"
          /\ call[WsThread].id = idOf[m]
    => m \in answered \/ idOf[m] = 0

(***************************************************************************)
(* A stored record is eventually answered (or deleted by the               *)
(* administrator, or its id clashed), although the link drops, the process *)
(* dies, the queue is full and the retries run out: the map loads that     *)
(* follow put it back in line.                                             *)
(***************************************************************************)
RecordsArrive ==
  \A m \in Msgs :
    (m \in stored /\ MustArrive(m))
      ~> (m \in answered \cup purged \/ Clashed(m))

(***************************************************************************)
(* docs/server-integration.md: "Pending messages are stored in SQLite and  *)
(* retried automatically".  A record whose kz_storage_save has returned    *)
(* and that nobody answered or deleted has a row.                          *)
(***************************************************************************)
PendingRecordsAreStored ==
  \A m \in Msgs :
    /\ TypeOf[m] = ADD_RECORD
    /\ idOf[m] # 0
    /\ m \notin answered \cup purged
    /\ \A t \in Threads : call[t].msg # m
    => HasRow(m)

(***************************************************************************)
(* docs/server-integration.md, Reconnect: "pending record submissions and  *)
(* replay uploads are retried immediately".  When a lost link is back and no *)
(* save or delete is in progress, every stored record is in line.          *)
(***************************************************************************)
ReconnectRetriesRecords ==
  [][ Open /\ losses > 0 => \A r \in rows :
        MustArrive(r.msg) /\ (\A t \in Threads : call[t] = Idle)
          => EntryOf(r) \in retryQ' ]_vars

-----------------------------------------------------------------------------
(***************************************************************************)
(* The promise, without threads, ids and frames: see module Mailbox.       *)
(***************************************************************************)
Kept      == {m \in Records : HasRow(m)}
Settled   == {m \in Records : m \in answered \/ (m \in stored /\ Clashed(m))}
Withdrawn == {m \in Records : m \in purged}

Promise == INSTANCE Mailbox WITH
  Letters <- Records, kept <- Kept, settled <- Settled, withdrawn <- Withdrawn

KeepsPromise == Promise!Spec
=============================================================================
