------------------------------- MODULE Upload -------------------------------
(***************************************************************************)
(* The upload of replays: kz_ws_msgs.cpp (RECORD_ACK, FILE_ACK, ERROR, the *)
(* upload branch of kz_ws_run_tasks) and kz_rp_upload_thread of            *)
(* kz_replay.cpp, over the upload_queue of module Storage.                 *)
(*                                                                         *)
(* The writer leaves a raw replay <uid>.krpr.  When the server accepts the *)
(* record, the WebSocket thread puts the uid into g_active_uploads, saves  *)
(* an upload row and posts a task; the game thread hands the file to the   *)
(* upload thread, which compresses it to <uid>.krpz and sends it.  The     *)
(* server's FILE_ACK moves the .krpz to the map's folder and deletes the   *)
(* .krpr.  Until then the retry queue starts the upload anew, unless the   *)
(* uid is in g_active_uploads.                                             *)
(***************************************************************************)
EXTENDS Storage, Sequences, FiniteSets

CONSTANTS
  WsThread,        \* the WebSocket thread, on which kz_ws_onmessage runs
  Uids,            \* replays
  NoUid,           \* no replay
  UploadQueueCap,  \* capacity of g_replay_upload_queue (64 in the code)
  TasksMayDrop,    \* may g_incoming_queue be full for 10 s?
  FaultsMax,       \* bound: how many file operations may fail
  SendsMax,        \* bound: how often the server sees a record
  LossesMax,       \* bound: how often the link may be lost
  CrashesMax       \* bound: how often the process may die

ASSUME UploadAssumption ==
  /\ Threads = {GameThread, WsThread}
  /\ GameThread # WsThread
  /\ TableOf = [m \in Msgs |-> "upload_queue"]
  /\ TextOf \in [Msgs -> Uids]
  /\ NoUid \notin Uids
  /\ UploadQueueCap \in Nat
  /\ TasksMayDrop \in BOOLEAN
  /\ FaultsMax \in Nat
  /\ SendsMax \in Nat
  /\ LossesMax \in Nat
  /\ CrashesMax \in Nat

VARIABLES
  raw,       \* the uids with a .krpr in replays/
  zip,       \* zip[u]: the .krpz in replays/: "none", "part" or "whole"
  moved,     \* moved[u]: the .krpz in the map's folder, likewise
  active,    \* g_active_uploads
  tasks,     \* g_incoming_queue: a sequence of [kind, uid]
  jobs,      \* g_replay_upload_queue: a sequence of [uid, ext]
  worker,    \* the upload thread, at work on Head(jobs): [stage, whole, intact];
             \* "missed": asleep although there are jobs
  acking,    \* the FILE_ACK the WebSocket thread is cleaning up after
  link,      \* "up": WSState::Connected and ReadyState::Open
  arrived,   \* files that reached the server complete: a set of [uid, whole]
  acks,      \* answers on their way back: a set of [type, uid]
  faults, sends, losses, crashes,  \* counters of the bounded events
  (* History, read by the properties and the server only. *)
  recorded,  \* the replays the writer has saved
  verdict,   \* verdict[u]: what the server said of the record
  has,       \* the replays the server has accepted
  broken     \* active uploads whose answer will not come or was "no"

files  == <<raw, zip, moved>>
server == <<verdict, has, arrived>>
count  == <<faults, sends, losses, crashes>>
uvars  == <<files, active, tasks, jobs, worker, acking, link, acks,
            server, count, recorded, broken>>
vars   == <<svars, uvars>>

Resting == [stage |-> "idle", whole |-> FALSE, intact |-> FALSE]

NoAck == [uid |-> NoUid, step |-> "none"]

TaskSet == [kind : {"upload", "requeue", "discard"}, uid : Uids]
JobSet  == [uid : Uids, ext : {"krpr", "krpz"}]

Task(kind, u) == [kind |-> kind, uid |-> u]
Ack(type, u)  == [type |-> type, uid |-> u]

\* Which of the two files an upload takes: the compressed one if there is one.
FileExists(u) == u \in raw \/ zip[u] # "none"

JobOf(u) == [uid |-> u, ext |-> IF zip[u] # "none" THEN "krpz" ELSE "krpr"]

UploadRows(u) == {r \in rows : TextOf[r.msg] = u}

-----------------------------------------------------------------------------
Init ==
  /\ StorageInit
  /\ raw = {}
  /\ zip = [u \in Uids |-> "none"]
  /\ moved = [u \in Uids |-> "none"]
  /\ active = {}
  /\ tasks = <<>>
  /\ jobs = <<>>
  /\ worker = Resting
  /\ acking = NoAck
  /\ link = "down"
  /\ arrived = {}
  /\ acks = {}
  /\ faults = 0
  /\ sends = [u \in Uids |-> 0]
  /\ losses = 0
  /\ crashes = 0
  /\ recorded = {}
  /\ verdict = [u \in Uids |-> "none"]
  /\ has = {}
  /\ broken = {}

\* KRP_SIGNAL_FINISH on the writer thread: the replay is in replays/.
Finish(u) ==
  /\ u \notin recorded
  /\ recorded' = recorded \cup {u}
  /\ raw' = raw \cup {u}
  /\ UNCHANGED <<svars, zip, moved, active, tasks, jobs, worker, acking, link,
                 acks, server, count, broken>>

(***************************************************************************)
(* The server: one verdict per record, however often it is submitted; an   *)
(* answer to every complete file, never "yes" to a truncated one.          *)
(***************************************************************************)
ServerRecord(u) ==
  /\ link = "up"
  /\ u \in recorded
  /\ sends[u] < SendsMax
  /\ sends' = [sends EXCEPT ![u] = @ + 1]
  /\ \E v \in {"accepted", "rejected"} :
       /\ verdict[u] \in {"none", v}
       /\ verdict' = [verdict EXCEPT ![u] = v]
       /\ acks' = acks \cup
            {Ack(IF v = "accepted" THEN "RECORD_ACK" ELSE "ERROR", u)}
  /\ UNCHANGED <<svars, files, active, tasks, jobs, worker, acking, link,
                 arrived, has, faults, losses, crashes, recorded, broken>>

ServerFile(a) ==
  /\ arrived' = arrived \ {a}
  /\ \/ /\ a.whole
        /\ has' = has \cup {a.uid}
        /\ acks' = acks \cup {Ack("FILE_OK", a.uid)}
     \/ /\ acks' = acks \cup {Ack("FILE_BAD", a.uid)}
        /\ UNCHANGED has
  /\ UNCHANGED <<svars, files, active, tasks, jobs, worker, acking, link,
                 verdict, count, recorded, broken>>

(***************************************************************************)
(* The WebSocket thread handles one answer after the other.                *)
(***************************************************************************)
Receive(type, u) ==
  /\ call[WsThread] = Idle
  /\ acking = NoAck
  /\ Ack(type, u) \in acks
  /\ acks' = acks \ {Ack(type, u)}

\* The handler's task goes to the game thread; dropped if there is no room.
PostTask(kind, u) ==
  \/ tasks' = Append(tasks, Task(kind, u)) /\ UNCHANGED broken
  \/ TasksMayDrop /\ UNCHANGED tasks /\ broken' = broken \cup ({u} \cap active)

(***************************************************************************)
(* kz_ws_ack_record_ack: the uid is active before its row can be retried.  *)
(***************************************************************************)
\* Mutant: the uid becomes active only when the upload thread gets it.
RecordAck_LateActive(u, m) ==
  /\ Receive("RECORD_ACK", u)
  /\ u \in raw
  /\ TextOf[m] = u
  /\ GetNextId(WsThread, m)
  /\ UNCHANGED <<files, active, tasks, jobs, worker, acking, link, server,
                 count, recorded, broken>>

RecordAck(u, m) ==
  /\ Receive("RECORD_ACK", u)
  /\ u \in raw
  /\ active' = active \cup {u}
  /\ TextOf[m] = u
  /\ GetNextId(WsThread, m)
  /\ UNCHANGED <<files, tasks, jobs, worker, acking, link, server, count,
                 recorded, broken>>

RecordAckNoFile(u) ==
  /\ Receive("RECORD_ACK", u)
  /\ u \notin raw
  /\ UNCHANGED <<svars, files, active, tasks, jobs, worker, acking, link,
                 server, count, recorded, broken>>

RecordAckPost ==
  /\ Return(WsThread)
  /\ PostTask("upload", TextOf[call[WsThread].msg])
  /\ UNCHANGED <<files, active, jobs, worker, acking, link, acks, server,
                 count, recorded>>

(***************************************************************************)
(* kz_ws_ack_file_ack, status true: the file moves to the map's folder (or *)
(* stays, when a file operation fails or it was moved before); then one    *)
(* retry entry, the active uid and the rows go.                            *)
(***************************************************************************)
\* Mutant: the raw file is deleted before the compressed one is moved.
Move_RemoveFirst(u) ==
  \/ /\ u \in raw
     /\ zip[u] # "none"
     /\ moved' = [moved EXCEPT ![u] = zip[u]]
     /\ zip' = [zip EXCEPT ![u] = "none"]
     /\ raw' = raw \ {u}
     /\ UNCHANGED faults
  \/ /\ faults < FaultsMax
     /\ faults' = faults + 1
     /\ raw' = raw \ {u}
     /\ UNCHANGED <<zip, moved>>
  \/ /\ u \notin raw \/ zip[u] = "none"
     /\ UNCHANGED <<files, faults>>

Move(u) ==
  \/ /\ u \in raw
     /\ zip[u] # "none"
     /\ moved' = [moved EXCEPT ![u] = zip[u]]
     /\ zip' = [zip EXCEPT ![u] = "none"]
     /\ \/ raw' = raw \ {u} /\ UNCHANGED faults
        \/ faults < FaultsMax /\ faults' = faults + 1 /\ UNCHANGED raw
  \/ faults < FaultsMax /\ faults' = faults + 1 /\ UNCHANGED files
  \/ /\ u \notin raw \/ zip[u] = "none"
     /\ UNCHANGED <<files, faults>>

FileAccepted(u) ==
  /\ Receive("FILE_OK", u)
  /\ Move(u)
  /\ acking' = [uid |-> u, step |-> "erase"]
  /\ UNCHANGED <<svars, active, tasks, jobs, worker, link, server, sends,
                 losses, crashes, recorded, broken>>

EraseUpload ==
  /\ acking.step = "erase"
  /\ EraseByValue(WsThread, acking.uid)
  /\ active' = active \ {acking.uid}
  /\ acking' = [acking EXCEPT !.step = "rows"]
  /\ UNCHANGED <<files, tasks, jobs, worker, link, acks, server, count,
                 recorded, broken>>

DeleteUploadRows ==
  /\ acking.step = "rows"
  /\ DeleteByValue(WsThread, acking.uid)
  /\ acking' = NoAck
  /\ UNCHANGED <<files, active, tasks, jobs, worker, link, acks, server,
                 count, recorded, broken>>

\* kz_ws_ack_file_ack, status false: the game thread is to upload it again.
FileRejected(u) ==
  /\ Receive("FILE_BAD", u)
  /\ \/ tasks' = Append(tasks, Task("requeue", u))
     \/ TasksMayDrop /\ UNCHANGED tasks
  /\ broken' = broken \cup ({u} \cap active)
  /\ UNCHANGED <<svars, files, active, jobs, worker, acking, link, server,
                 count, recorded>>

\* kz_ws_ack_error for a record: nothing if its row is not found.
RecordRejected(u) ==
  /\ Receive("ERROR", u)
  /\ tasks' \in {tasks, Append(tasks, Task("discard", u))}
  /\ UNCHANGED <<svars, files, active, jobs, worker, acking, link, server,
                 count, recorded, broken>>

(***************************************************************************)
(* kz_rp_compress_and_upload_async: a full queue refuses the job, and the  *)
(* caller takes the uid out of the active ones again.  The notification is *)
(* sent without the mutex: a thread that has looked at the queue and is    *)
(* about to sleep misses it, and sleeps until the next one (see Workers).  *)
(***************************************************************************)
Enqueue(job) ==
  /\ jobs' = Append(jobs, job)
  /\ \/ worker' = [worker EXCEPT !.stage = IF @ = "missed" THEN "idle" ELSE @]
     \/ jobs = <<>> /\ worker' = [worker EXCEPT !.stage = "missed"]

HandOver(u) ==
  IF Len(jobs) < UploadQueueCap
  THEN Enqueue(JobOf(u)) /\ active' = active \cup {u}
  ELSE UNCHANGED <<jobs, worker>> /\ active' = active \ {u}

NextTask(kind, u) ==
  /\ call[GameThread] = Idle
  /\ tasks # <<>>
  /\ Head(tasks) = Task(kind, u)
  /\ tasks' = Tail(tasks)

\* The task of RECORD_ACK; its path was fixed when the raw file was seen.
RunUpload(u) ==
  /\ NextTask("upload", u)
  /\ IF Len(jobs) < UploadQueueCap
     THEN /\ Enqueue([uid |-> u, ext |-> "krpr"])
          /\ UNCHANGED active
     ELSE /\ active' = active \ {u}
          /\ UNCHANGED <<jobs, worker>>
  /\ UNCHANGED <<svars, files, acking, link, acks, server, count,
                 recorded, broken>>

(***************************************************************************)
(* kz_ws_requeue_replay_upload, the task of FILE_ACK false.                *)
(***************************************************************************)
RunRequeue(u, m) ==
  /\ NextTask("requeue", u)
  /\ FileExists(u)
  /\ u \notin active
  /\ active' = active \cup {u}
  /\ TextOf[m] = u
  /\ GetNextId(GameThread, m)
  /\ UNCHANGED <<files, jobs, worker, acking, link, acks, server, count,
                 recorded, broken>>

RunRequeueRefused(u) ==
  /\ NextTask("requeue", u)
  /\ ~FileExists(u) \/ u \in active
  /\ UNCHANGED <<svars, files, active, jobs, worker, acking, link, acks,
                 server, count, recorded, broken>>

RequeuePost ==
  /\ Return(GameThread)
  /\ HandOver(TextOf[call[GameThread].msg])
  /\ UNCHANGED <<files, tasks, acking, link, acks, server, count,
                 recorded, broken>>

\* The task of ERROR: files, rows and the active uid go; entries stay.
RunDiscard(u) ==
  /\ NextTask("discard", u)
  /\ raw' = raw \ {u}
  /\ zip' = [zip EXCEPT ![u] = "none"]
  /\ DeleteByValue(GameThread, u)
  /\ active' = active \ {u}
  /\ UNCHANGED <<moved, jobs, worker, acking, link, acks, server, count,
                 recorded, broken>>

(***************************************************************************)
(* kz_ws_run_tasks, one entry of the retry queue whose delay is over.      *)
(***************************************************************************)
RetryUpload(u) ==
  /\ link = "up"
  /\ call[GameThread] = Idle
  /\ \E e \in retryQ :
       /\ TextOf[e.msg] = u
       /\ \/ GiveUp(e) /\ UNCHANGED <<jobs, worker, active>>
          \/ /\ Resend(e)
             /\ IF u \notin active /\ FileExists(u)
                THEN HandOver(u)
                ELSE UNCHANGED <<jobs, worker, active>>
  /\ UNCHANGED <<files, tasks, acking, link, acks, server, count,
                 recorded, broken>>

(***************************************************************************)
(* kz_rp_upload_thread.  kz_rp_compress_file reads and compresses in       *)
(* memory, then opens and writes the .krpz, even if FILE_ACK has moved it  *)
(* meanwhile; a short write goes unnoticed.                                *)
(* The file is sent chunk by chunk, and the results of sendBinary are      *)
(* ignored: it arrives if the link stays up from the first to the last.    *)
(***************************************************************************)
Sending(whole) == [stage |-> "send", whole |-> whole, intact |-> link = "up"]

TakeRaw ==
  /\ worker.stage = "idle"
  /\ jobs # <<>>
  /\ Head(jobs).ext = "krpr"
  /\ Head(jobs).uid \in raw
  /\ worker' = [worker EXCEPT !.stage = "compress"]
  /\ UNCHANGED <<svars, files, active, tasks, jobs, acking, link, acks,
                 server, count, recorded, broken>>

TakeZip ==
  /\ worker.stage = "idle"
  /\ jobs # <<>>
  /\ Head(jobs).ext = "krpz"
  /\ zip[Head(jobs).uid] # "none"
  /\ worker' = Sending(zip[Head(jobs).uid] = "whole")
  /\ UNCHANGED <<svars, files, active, tasks, jobs, acking, link, acks,
                 server, count, recorded, broken>>

CreateZip ==
  /\ worker.stage = "compress"
  /\ zip' = [zip EXCEPT ![Head(jobs).uid] = "part"]
  /\ worker' = [worker EXCEPT !.stage = "write"]
  /\ UNCHANGED <<svars, raw, moved, active, tasks, jobs, acking, link, acks,
                 server, count, recorded, broken>>

WriteZip ==
  LET u == Head(jobs).uid IN
  /\ worker.stage = "write"
  /\ \/ /\ zip' = [zip EXCEPT ![u] = IF @ = "part" THEN "whole" ELSE @]
        /\ moved' = [moved EXCEPT ![u] =
                      IF @ = "part" /\ zip[u] = "none" THEN "whole" ELSE @]
        /\ worker' = Sending(TRUE)
        /\ UNCHANGED faults
     \/ /\ faults < FaultsMax
        /\ faults' = faults + 1
        /\ worker' = Sending(FALSE)
        /\ UNCHANGED <<zip, moved>>
  /\ UNCHANGED <<svars, raw, active, tasks, jobs, acking, link, acks,
                 server, sends, losses, crashes, recorded, broken>>

\* The file cannot be opened, read or compressed.
\* Mutant: the uid stays active.
UploadFails_KeepsActive ==
  /\ \/ worker.stage = "idle"
     \/ worker.stage = "compress"
  /\ jobs # <<>>
  /\ faults < FaultsMax
  /\ faults' = faults + 1
  /\ jobs' = Tail(jobs)
  /\ worker' = Resting
  /\ UNCHANGED <<svars, files, active, tasks, acking, link, acks, server,
                 sends, losses, crashes, recorded, broken>>

UploadFails ==
  /\ jobs # <<>>
  /\ \/ /\ worker.stage = "idle"
        /\ IF Head(jobs).ext = "krpr" THEN Head(jobs).uid \notin raw
                                      ELSE zip[Head(jobs).uid] = "none"
        /\ UNCHANGED faults
     \/ /\ worker.stage \in {"idle", "compress"}
        /\ faults < FaultsMax
        /\ faults' = faults + 1
  /\ active' = active \ {Head(jobs).uid}
  /\ jobs' = Tail(jobs)
  /\ worker' = Resting
  /\ UNCHANGED <<svars, files, tasks, acking, link, acks, server, sends,
                 losses, crashes, recorded, broken>>

Sent ==
  LET u == Head(jobs).uid IN
  /\ worker.stage = "send"
  /\ jobs' = Tail(jobs)
  /\ worker' = Resting
  /\ IF worker.intact
     THEN /\ arrived' = arrived \cup {[uid |-> u, whole |-> worker.whole]}
          /\ UNCHANGED broken
     ELSE /\ broken' = broken \cup ({u} \cap active)
          /\ UNCHANGED arrived
  /\ UNCHANGED <<svars, files, active, tasks, acking, link, acks, verdict,
                 has, count, recorded>>

-----------------------------------------------------------------------------
\* kz_ws_onmessage, Open: every entry is due again.
Open ==
  /\ link = "down"
  /\ acking = NoAck
  /\ link' = "up"
  /\ RequeueAll(WsThread)
  /\ UNCHANGED <<files, active, tasks, jobs, worker, acking, acks, server,
                 count, recorded, broken>>

\* The server has the file of an upload, or has answered it.
AwaitsAnswer(u) ==
  \/ \E a \in arrived : a.uid = u
  \/ \E a \in acks : a.uid = u /\ a.type \in {"FILE_OK", "FILE_BAD"}
  \/ acking = [uid |-> u, step |-> "erase"]

\* kz_ws_onmessage, Close and Error: what was in flight is lost.
Lost ==
  /\ link = "up"
  /\ call[WsThread] = Idle
  /\ acking = NoAck
  /\ losses < LossesMax
  /\ losses' = losses + 1
  /\ link' = "down"
  /\ worker' = [worker EXCEPT !.intact = FALSE]
  /\ arrived' = {}
  /\ acks' = {}
  /\ broken' = broken \cup {u \in active : AwaitsAnswer(u)}
  /\ UNCHANGED <<svars, files, active, tasks, jobs, acking, verdict, has,
                 faults, sends, crashes, recorded>>

\* Steps of the store the pipeline does not see: saves, map starts, map ends.
StoreStep ==
  /\ \/ \E t \in Threads : Push(t) \/ InsertOk(t) \/ InsertFails(t)
     \/ Load(GameThread)
     \/ Clear(GameThread)
  /\ UNCHANGED uvars

\* The process dies and is started again on the same files and tables.
ProcessDies ==
  /\ Crash
  /\ crashes < CrashesMax
  /\ crashes' = crashes + 1
  /\ active' = {}
  /\ tasks' = <<>>
  /\ jobs' = <<>>
  /\ worker' = Resting
  /\ acking' = NoAck
  /\ link' = "down"
  /\ arrived' = {}
  /\ acks' = {}
  /\ broken' = {}
  /\ UNCHANGED <<files, verdict, has, faults, sends, losses, recorded>>

RunTask(u) ==
  \/ RunUpload(u)
  \/ \E m \in Msgs : RunRequeue(u, m)
  \/ RunRequeueRefused(u)
  \/ RunDiscard(u)

Handle(u) ==
  \/ \E m \in Msgs : RecordAck(u, m)
  \/ RecordAckNoFile(u)
  \/ FileAccepted(u)
  \/ FileRejected(u)
  \/ RecordRejected(u)

Worker == TakeRaw \/ TakeZip \/ CreateZip \/ WriteZip \/ UploadFails \/ Sent

Next ==
  \/ \E u \in Uids : \/ Finish(u) \/ ServerRecord(u)
                     \/ Handle(u) \/ RunTask(u) \/ RetryUpload(u)
  \/ \E a \in arrived : ServerFile(a)
  \/ RecordAckPost \/ RequeuePost
  \/ EraseUpload \/ DeleteUploadRows
  \/ Worker
  \/ Open \/ Lost \/ StoreStep \/ ProcessDies

Spec == Init /\ [][Next]_vars

(***************************************************************************)
(* Fairness: the threads run, the server answers, a lost link comes back.  *)
(* The game thread's tasks and retries share a thread with its saves and   *)
(* map changes, hence SF; which entry is due is up to the clock.           *)
(***************************************************************************)
Fairness ==
  /\ \A t \in Threads : /\ WF_vars(Push(t) /\ UNCHANGED uvars)
                        /\ WF_vars((InsertOk(t) \/ InsertFails(t))
                                     /\ UNCHANGED uvars)
  /\ WF_vars(RecordAckPost) /\ WF_vars(RequeuePost)
  /\ WF_vars(EraseUpload) /\ WF_vars(DeleteUploadRows)
  /\ WF_vars(Worker)
  /\ WF_vars(Open)
  /\ SF_vars(Load(GameThread) /\ UNCHANGED uvars)
  /\ \A u \in Uids : /\ SF_vars(RunTask(u)) /\ SF_vars(RetryUpload(u))
                     /\ SF_vars(Handle(u))
                     /\ WF_vars(\E a \in arrived : a.uid = u /\ ServerFile(a))

FairSpec == Spec /\ Fairness

-----------------------------------------------------------------------------
\* Every variable of the pipeline has its type.
TypeOK ==
  /\ StorageTypeOK
  /\ raw \subseteq Uids
  /\ zip \in [Uids -> {"none", "part", "whole"}]
  /\ moved \in [Uids -> {"none", "part", "whole"}]
  /\ active \subseteq Uids
  /\ tasks \in Seq(TaskSet)
  /\ jobs \in Seq(JobSet)
  /\ worker \in [stage : {"idle", "missed", "compress", "write", "send"},
                 whole : BOOLEAN, intact : BOOLEAN]
  /\ acking \in [uid : Uids \cup {NoUid}, step : {"none", "erase", "rows"}]
  /\ link \in {"up", "down"}
  /\ arrived \subseteq [uid : Uids, whole : BOOLEAN]
  /\ acks \subseteq [type : {"RECORD_ACK", "ERROR", "FILE_OK", "FILE_BAD"},
                     uid : Uids]
  /\ faults \in Nat
  /\ sends \in [Uids -> Nat]
  /\ losses \in Nat
  /\ crashes \in Nat
  /\ recorded \subseteq Uids
  /\ verdict \in [Uids -> {"none", "accepted", "rejected"}]
  /\ has \subseteq Uids
  /\ broken \subseteq Uids

(***************************************************************************)
(* No replay is lost: whatever fails or crashes, a replay the writer saved *)
(* is there as a raw file until its record was rejected, or until the      *)
(* server has the file and the compressed copy is in the map's folder.     *)
(***************************************************************************)
NoReplayLost ==
  \A u \in recorded :
    \/ u \in raw
    \/ u \in has /\ moved[u] # "none"
    \/ verdict[u] = "rejected"

(***************************************************************************)
(* Not so of the code, docs/server-integration.md:187, "Cached replays     *)
(* load the SR bot from disk": what is left here of an accepted replay may *)
(* be a truncated file.  The server accepts one upload; before its answer  *)
(* is handled a second one writes the .krpz anew, and is cut short; the    *)
(* answer moves that file and deletes the raw one.                         *)
(***************************************************************************)
StoredIsWhole ==
  \A u \in recorded :
    u \in raw \/ moved[u] = "whole" \/ verdict[u] = "rejected"

\* Where an active upload may be.
Queued(u) ==
  \/ \E t \in Threads : call[t].msg # NoMsg /\ TextOf[call[t].msg] = u
  \/ \E i \in DOMAIN tasks : tasks[i] = Task("upload", u)
  \/ \E i \in DOMAIN jobs : jobs[i].uid = u

(***************************************************************************)
(* g_active_uploads blocks the retry of a replay.  So a replay is in it    *)
(* only while it is on its way: being saved, queued, sent or answered.     *)
(* (The exceptions are in `broken`: the answer was "no", or it, the file   *)
(* or the task got lost; such an upload is blocked until a restart.)       *)
(***************************************************************************)
ActiveIsOnItsWay ==
  \A u \in active : Queued(u) \/ AwaitsAnswer(u) \/ u \in broken

(***************************************************************************)
(* One upload of a replay at a time: as long as the server acknowledges    *)
(* its record once, neither the retries nor a requeue start a second while *)
(* one is on its way, although the row is saved and due for retry before   *)
(* the upload thread gets the file.                                        *)
(***************************************************************************)
OneUploadAtATime ==
  \A u \in Uids :
    sends[u] <= 1 =>
      Cardinality({i \in DOMAIN jobs : jobs[i].uid = u})
        + Cardinality({i \in DOMAIN tasks : tasks[i] = Task("upload", u)}) <= 1

(***************************************************************************)
(* An upload with a row reaches the server, although files cannot be read, *)
(* queues are full, retries run out and the process dies, unless it is one *)
(* of those that ActiveIsOnItsWay excepts, or the upload thread sleeps on  *)
(* a notification it missed.                                               *)
(***************************************************************************)
UploadsArrive ==
  \A u \in Uids :
    UploadRows(u) # {} ~> (u \in has \cup broken \/ worker.stage = "missed")

(***************************************************************************)
(* README.md: "replay upload with FILE_ACK retry on failure".  When the    *)
(* game thread runs the task of a FILE_ACK that said no, a replay that is  *)
(* there is uploaded again, or its upload is already on its way.           *)
(***************************************************************************)
RejectedUploadIsRetried ==
  [][ \A u \in Uids :
        RunRequeueRefused(u) /\ FileExists(u) => Queued(u) \/ AwaitsAnswer(u)
    ]_vars

(***************************************************************************)
(* docs/server-integration.md, Reconnect: "pending record submissions and  *)
(* replay uploads are retried immediately".  When a lost link is back, a   *)
(* stored upload whose file is there is on its way or free to be retried.  *)
(***************************************************************************)
ReconnectRetriesUploads ==
  [][ \A u \in Uids :
        Open /\ UploadRows(u) # {} /\ FileExists(u)
        => u \notin active \/ Queued(u) ]_vars
=============================================================================
