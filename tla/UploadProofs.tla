---------------------------- MODULE UploadProofs ----------------------------
(***************************************************************************)
(* Uploads, for any replays, saves, queue lengths and bounds on what goes  *)
(* wrong: the types, that no replay is lost, that the pipeline uses the    *)
(* store as Storage says, and where the upload of a replay can be.         *)
(***************************************************************************)
EXTENDS Upload, StorageProofs, FiniteSetTheorems

USE UploadAssumption

(***************************************************************************)
(* The strengthening.  A raw file is deleted in two places: by FILE_ACK    *)
(* true, so that answer must mean that the server has the file, and by the *)
(* task of ERROR, so that answer and that task must mean a rejection.      *)
(***************************************************************************)
AcceptedIsHad == \A u \in Uids : Ack("FILE_OK", u) \in acks => u \in has

ErrorIsRejection ==
  \A u \in Uids : Ack("ERROR", u) \in acks => verdict[u] = "rejected"

DiscardIsRejection ==
  \A i \in DOMAIN tasks :
    tasks[i].kind = "discard" => verdict[tasks[i].uid] = "rejected"

WorkerHasJob == worker.stage # "idle" => jobs # <<>>

Inv ==
  /\ StorageInv
  /\ TypeOK
  /\ AcceptedIsHad
  /\ ErrorIsRejection
  /\ DiscardIsRejection
  /\ WorkerHasJob
  /\ NoReplayLost

\* Both threads of the pipeline are threads of the store.
LEMMA TwoThreads == GameThread \in Threads /\ WsThread \in Threads
  OBVIOUS

\* The initial states satisfy the invariant.
LEMMA UploadInitInv == Init => Inv
<1> SUFFICES ASSUME Init PROVE Inv
  OBVIOUS
<1>1. StorageInv
  BY StorageInitInv DEF Init
<1>2. TypeOK
  BY <1>1 DEF Init, TypeOK, StorageInv, Resting, NoAck
<1>3. AcceptedIsHad /\ ErrorIsRejection /\ DiscardIsRejection /\ WorkerHasJob
      /\ NoReplayLost
  BY DEF Init, AcceptedIsHad, ErrorIsRejection, DiscardIsRejection, WorkerHasJob,
     NoReplayLost, Resting
<1> QED BY <1>1, <1>2, <1>3 DEF Inv

\* Deleting rows by a text that no message has deletes nothing.
LEMMA DeleteByValueIsStorageStep ==
  ASSUME StorageInv, NEW t \in Threads, NEW u,
         DeleteByValue(t, u) \/ EraseByValue(t, u)
  PROVE  [StorageNext]_svars
<1>1. CASE \E m \in Msgs : TextOf[m] = u
  BY <1>1 DEF StorageNext
<1>2. CASE \A m \in Msgs : TextOf[m] # u
  <2>1. \A r \in rows : TextOf[r.msg] # u
    BY <1>2 DEF StorageInv, StorageTypeOK, Row
  <2>2. \A e \in retryQ : TextOf[e.msg] # u
    BY <1>2 DEF StorageInv, StorageTypeOK, Entry
  <2> QED BY <2>1, <2>2 DEF DeleteByValue, EraseByValue, svars
<1> QED BY <1>1, <1>2

(***************************************************************************)
(* Every step of the pipeline is a step of the store or leaves it be.      *)
(***************************************************************************)
LEMMA StepIsStorageStep ==
  ASSUME Inv, [Next]_vars
  PROVE  [StorageNext]_svars
<1>1. ASSUME NEW u \in Uids, Finish(u) \/ ServerRecord(u)
      PROVE  [StorageNext]_svars
  BY <1>1 DEF Finish, ServerRecord
<1>2. ASSUME NEW u \in Uids, Handle(u)
      PROVE  [StorageNext]_svars
  BY <1>2, TwoThreads DEF Handle, RecordAck, RecordAckNoFile, FileAccepted,
     FileRejected, RecordRejected, StorageNext
<1>3. ASSUME NEW u \in Uids, RunTask(u)
      PROVE  [StorageNext]_svars
  <2>1. CASE RunDiscard(u)
    BY <2>1, TwoThreads, DeleteByValueIsStorageStep DEF RunDiscard, Inv
  <2>2. CASE RunUpload(u) \/ RunRequeueRefused(u)
    BY <2>2 DEF RunUpload, RunRequeueRefused
  <2>3. ASSUME NEW m \in Msgs, RunRequeue(u, m) PROVE [StorageNext]_svars
    BY <2>3, TwoThreads DEF RunRequeue, StorageNext
  <2> QED BY <1>3, <2>1, <2>2, <2>3 DEF RunTask
<1>4. ASSUME NEW u \in Uids, RetryUpload(u)
      PROVE  [StorageNext]_svars
  BY <1>4 DEF RetryUpload, StorageNext
<1>5. ASSUME NEW a \in arrived, ServerFile(a)
      PROVE  [StorageNext]_svars
  BY <1>5 DEF ServerFile
<1>6. CASE RecordAckPost \/ RequeuePost
  BY <1>6, TwoThreads DEF RecordAckPost, RequeuePost, StorageNext
<1>7. CASE EraseUpload \/ DeleteUploadRows
  BY <1>7, TwoThreads, DeleteByValueIsStorageStep DEF EraseUpload,
     DeleteUploadRows, Inv
<1>8. CASE Worker
  BY <1>8 DEF Worker, TakeRaw, TakeZip, CreateZip, WriteZip, UploadFails, Sent
<1>9. CASE Open \/ Lost
  BY <1>9, TwoThreads DEF Open, Lost, StorageNext
<1>10. CASE StoreStep
  BY <1>10 DEF StoreStep, StorageNext
<1>11. CASE ProcessDies
  BY <1>11 DEF ProcessDies, StorageNext
<1>12. CASE UNCHANGED vars
  BY <1>12 DEF vars
<1> QED BY <1>1, <1>2, <1>3, <1>4, <1>5, <1>6, <1>7, <1>8, <1>9, <1>10, <1>11,
           <1>12 DEF Next

\* The message a thread posts is one it saved.
LEMMA PostedMessage ==
  ASSUME StorageInv, NEW t \in Threads, Return(t)
  PROVE  TextOf[call[t].msg] \in Uids
<1>1. call[t].msg \in Msgs
  BY DEF StorageInv, CallsSound, Saving, Return
<1> QED BY <1>1

\* A sequence over S extended by a member of S is one.
LEMMA AppendTyped ==
  ASSUME NEW S, NEW s \in Seq(S), NEW x \in S
  PROVE  Append(s, x) \in Seq(S)
  OBVIOUS

\* A sequence something was appended to is not empty.
LEMMA AppendNonempty ==
  ASSUME NEW S, NEW s \in Seq(S), NEW x
  PROVE  Append(s, x) # <<>>
<1>1. Len(Append(s, x)) = Len(s) + 1 /\ Len(s) \in Nat
  OBVIOUS
<1>2. Len(<<>>) = 0
  OBVIOUS
<1> QED BY <1>1, <1>2

\* The head and the rest of a sequence that is not empty.
LEMMA TailTyped ==
  ASSUME NEW S, NEW s \in Seq(S), s # <<>>
  PROVE  Head(s) \in S /\ Tail(s) \in Seq(S)
  OBVIOUS

\* The frame the upload thread sends is well formed.
LEMMA SendingTyped ==
  ASSUME NEW whole \in BOOLEAN
  PROVE  Sending(whole) \in [stage : {"idle", "missed", "compress", "write", "send"},
                             whole : BOOLEAN, intact : BOOLEAN]
<1>1. (link = "up") \in BOOLEAN
  OBVIOUS
<1> QED BY <1>1 DEF Sending

\* A fresh upload job is well formed.
LEMMA JobIsTyped ==
  ASSUME NEW u \in Uids
  PROVE  JobOf(u) \in JobSet
  BY DEF JobOf, JobSet

WorkerSet == [stage : {"idle", "missed", "compress", "write", "send"},
              whole : BOOLEAN, intact : BOOLEAN]

\* Pushing a job keeps the types of the queue and of the upload thread.
LEMMA EnqueueTyped ==
  ASSUME TypeOK, NEW job \in JobSet, Enqueue(job)
  PROVE  jobs' \in Seq(JobSet) /\ worker' \in WorkerSet
<1>1. jobs \in Seq(JobSet) /\ worker \in WorkerSet
  BY DEF TypeOK, WorkerSet
<1>2. Append(jobs, job) \in Seq(JobSet)
  BY <1>1, AppendTyped
<1>3. worker' \in WorkerSet
  <2>1. PICK st \in {"idle", "missed", "compress", "write", "send"} :
          worker' = [worker EXCEPT !.stage = st]
    BY <1>1 DEF Enqueue, WorkerSet
  <2> QED BY <1>1, <2>1 DEF WorkerSet
<1> QED BY <1>2, <1>3 DEF Enqueue

\* kz_ws_upload_file_async keeps the types of what it changes.
LEMMA HandOverTyped ==
  ASSUME TypeOK, NEW u \in Uids, HandOver(u)
  PROVE  /\ jobs' \in Seq(JobSet)
         /\ active' \subseteq Uids
         /\ worker' \in WorkerSet
<1>1. jobs \in Seq(JobSet) /\ active \subseteq Uids /\ worker \in WorkerSet
  BY DEF TypeOK, WorkerSet
<1> QED BY <1>1, JobIsTyped, EnqueueTyped DEF HandOver

\* A task for the game thread is well formed.
LEMMA TaskIsTyped ==
  ASSUME NEW u \in Uids, NEW k \in {"upload", "requeue", "discard"}
  PROVE  Task(k, u) \in TaskSet
  BY DEF Task, TaskSet

\* Posting a task keeps the type of the queue.
LEMMA PostTaskTyped ==
  ASSUME TypeOK, NEW u \in Uids, NEW k \in {"upload", "requeue", "discard"},
         PostTask(k, u)
  PROVE  tasks' \in Seq(TaskSet) /\ broken' \subseteq Uids
<1>1. tasks \in Seq(TaskSet) /\ broken \subseteq Uids
  BY DEF TypeOK
<1>2. Append(tasks, Task(k, u)) \in Seq(TaskSet)
  BY <1>1, TaskIsTyped, AppendTyped
<1> QED BY <1>1, <1>2 DEF PostTask

(***************************************************************************)
(* Types.  The store's are known; the rest is one case per action.         *)
(***************************************************************************)
LEMMA TypeStep ==
  ASSUME Inv, [Next]_vars
  PROVE  TypeOK'
<1> USE DEF files, server, count
<1>s. StorageTypeOK'
  BY StepIsStorageStep, StorageStepInv DEF Inv, StorageInv
<1>t. TypeOK /\ StorageInv
  BY DEF Inv
<1>0. CASE UNCHANGED uvars
  BY <1>0, <1>s, <1>t DEF TypeOK, uvars
<1>1. ASSUME NEW u \in Uids, Finish(u) PROVE TypeOK'
  BY <1>1, <1>s, <1>t DEF TypeOK, Finish
<1>2. ASSUME NEW u \in Uids, ServerRecord(u) PROVE TypeOK'
  BY <1>2, <1>s, <1>t DEF TypeOK, ServerRecord, Ack
<1>3. ASSUME NEW a \in arrived, ServerFile(a) PROVE TypeOK'
  BY <1>3, <1>s, <1>t DEF TypeOK, ServerFile, Ack
<1>4. ASSUME NEW u \in Uids, Handle(u) PROVE TypeOK'
  <2>1. ASSUME NEW m \in Msgs, RecordAck(u, m) PROVE TypeOK'
    BY <2>1, <1>s, <1>t DEF TypeOK, RecordAck, Receive
  <2>2. CASE RecordAckNoFile(u)
    BY <2>2, <1>s, <1>t DEF TypeOK, RecordAckNoFile, Receive
  <2>3. CASE FileAccepted(u)
    <3>0. Move(u)
      BY <2>3 DEF FileAccepted
    <3>1. /\ raw' \subseteq Uids
          /\ moved' \in [Uids -> {"none", "part", "whole"}]
          /\ faults' \in Nat
          /\ zip' \in [Uids -> {"none", "part", "whole"}]
      <4>1. /\ faults' \in Nat
            /\ zip' \in [Uids -> {"none", "part", "whole"}]
        <5>1. /\ zip \in [Uids -> {"none", "part", "whole"}]
              /\ faults \in Nat
          BY <1>t DEF TypeOK
        <5>2. zip' = zip \/ zip' = [zip EXCEPT ![u] = "none"]
          BY <3>0 DEF Move
        <5>3. faults' = faults \/ faults' = faults + 1
          BY <3>0 DEF Move
        <5> QED BY <5>1, <5>2, <5>3
      <4>2. raw' \subseteq raw /\ moved' \in {moved, [moved EXCEPT ![u] = zip[u]]}
        BY <3>0 DEF Move, files
      <4>3. moved' \in [Uids -> {"none", "part", "whole"}]
        BY <4>2, <1>t DEF TypeOK
      <4> QED BY <4>1, <4>2, <4>3, <1>t DEF TypeOK
    <3> QED BY <3>1, <2>3, <1>s, <1>t DEF TypeOK, FileAccepted, Receive
  <2>4. CASE FileRejected(u)
    <3>1. tasks' \in Seq(TaskSet)
      <4>1. tasks \in Seq(TaskSet)
        BY <1>t DEF TypeOK
      <4>2. Append(tasks, Task("requeue", u)) \in Seq(TaskSet)
        BY <4>1, TaskIsTyped, AppendTyped
      <4> QED BY <4>1, <4>2, <2>4 DEF FileRejected
    <3> QED BY <3>1, <2>4, <1>s, <1>t DEF TypeOK, FileRejected, Receive
  <2>5. CASE RecordRejected(u)
    <3>1. tasks' \in Seq(TaskSet)
      <4>1. tasks \in Seq(TaskSet)
        BY <1>t DEF TypeOK
      <4>2. Append(tasks, Task("discard", u)) \in Seq(TaskSet)
        BY <4>1, TaskIsTyped, AppendTyped
      <4> QED BY <4>1, <4>2, <2>5 DEF RecordRejected
    <3> QED BY <3>1, <2>5, <1>s, <1>t DEF TypeOK, RecordRejected, Receive
  <2> QED BY <1>4, <2>1, <2>2, <2>3, <2>4, <2>5 DEF Handle
<1>5. ASSUME NEW u \in Uids, RunTask(u) PROVE TypeOK'
  <2>0. ASSUME NEW k, NextTask(k, u) PROVE tasks' \in Seq(TaskSet)
    BY <2>0, <1>t, TailTyped DEF TypeOK, NextTask
  <2>1. CASE RunUpload(u)
    <3>1. [uid |-> u, ext |-> "krpr"] \in JobSet
      BY DEF JobSet
    <3>2. jobs' \in Seq(JobSet) /\ active' \subseteq Uids /\ worker' \in WorkerSet
      <4>1. jobs \in Seq(JobSet) /\ active \subseteq Uids /\ worker \in WorkerSet
        BY <1>t DEF TypeOK, WorkerSet
      <4> QED BY <4>1, <3>1, <1>t, EnqueueTyped, <2>1 DEF RunUpload
    <3> QED BY <3>2, <2>0, <2>1, <1>s, <1>t DEF TypeOK, RunUpload, WorkerSet
  <2>2. ASSUME NEW m \in Msgs, RunRequeue(u, m) PROVE TypeOK'
    BY <2>0, <2>2, <1>s, <1>t DEF TypeOK, RunRequeue
  <2>3. CASE RunRequeueRefused(u)
    BY <2>0, <2>3, <1>s, <1>t DEF TypeOK, RunRequeueRefused
  <2>4. CASE RunDiscard(u)
    BY <2>0, <2>4, <1>s, <1>t DEF TypeOK, RunDiscard
  <2> QED BY <1>5, <2>1, <2>2, <2>3, <2>4 DEF RunTask
<1>6. ASSUME NEW u \in Uids, RetryUpload(u) PROVE TypeOK'
  <2>1. /\ jobs' \in Seq(JobSet)
        /\ active' \subseteq Uids
        /\ worker' \in WorkerSet
    <3>1. jobs \in Seq(JobSet) /\ active \subseteq Uids /\ worker \in WorkerSet
      BY <1>t DEF TypeOK, WorkerSet
    <3>2. HandOver(u) \/ UNCHANGED <<jobs, worker, active>>
      BY <1>6 DEF RetryUpload
    <3> QED BY <3>1, <3>2, <1>t, HandOverTyped
  <2> QED BY <2>1, <1>6, <1>s, <1>t DEF TypeOK, RetryUpload, WorkerSet
<1>7. CASE RecordAckPost
  <2>1. tasks' \in Seq(TaskSet) /\ broken' \subseteq Uids
    BY <1>7, <1>t, TwoThreads, PostedMessage, PostTaskTyped DEF RecordAckPost
  <2> QED BY <2>1, <1>7, <1>s, <1>t DEF TypeOK, RecordAckPost
<1>8. CASE RequeuePost
  <2>1. /\ jobs' \in Seq(JobSet)
        /\ active' \subseteq Uids
        /\ worker' \in WorkerSet
    BY <1>8, <1>t, TwoThreads, PostedMessage, HandOverTyped DEF RequeuePost
  <2> QED BY <2>1, <1>8, <1>s, <1>t DEF TypeOK, RequeuePost, WorkerSet
<1>9. CASE EraseUpload
  BY <1>9, <1>s, <1>t DEF TypeOK, EraseUpload
<1>10. CASE DeleteUploadRows
  BY <1>10, <1>s, <1>t DEF TypeOK, DeleteUploadRows, NoAck
<1>11. CASE TakeRaw
  BY <1>11, <1>s, <1>t DEF TypeOK, TakeRaw
<1>12. CASE TakeZip
  BY <1>12, <1>s, <1>t DEF TypeOK, TakeZip, Sending
<1>13. CASE CreateZip
  BY <1>13, <1>s, <1>t DEF TypeOK, CreateZip
<1>14. CASE WriteZip
  <2>1. zip' \in [Uids -> {"none", "part", "whole"}] /\ faults' \in Nat
    <3>1. /\ zip \in [Uids -> {"none", "part", "whole"}]
          /\ faults \in Nat
      BY <1>t DEF TypeOK
    <3>2. PICK u : zip' = zip \/ zip' = [zip EXCEPT ![u] = IF @ = "part" THEN "whole" ELSE @]
      BY <1>14 DEF WriteZip
    <3>3. faults' = faults \/ faults' = faults + 1
      BY <1>14 DEF WriteZip
    <3> QED BY <3>1, <3>2, <3>3
  <2>2. worker' \in [stage : {"idle", "missed", "compress", "write", "send"},
                     whole : BOOLEAN, intact : BOOLEAN]
    BY <1>14, SendingTyped DEF WriteZip
  <2>3. moved' \in [Uids -> {"none", "part", "whole"}]
    <3>1. moved \in [Uids -> {"none", "part", "whole"}]
      BY <1>t DEF TypeOK
    <3>2. moved' = moved \/
          moved' = [moved EXCEPT ![Head(jobs).uid] =
                      IF @ = "part" /\ zip[Head(jobs).uid] = "none" THEN "whole" ELSE @]
      BY <1>14 DEF WriteZip
    <3> QED BY <3>1, <3>2
  <2> QED BY <2>1, <2>2, <2>3, <1>14, <1>s, <1>t DEF TypeOK, WriteZip
<1>15. CASE UploadFails
  <2>1. jobs' \in Seq(JobSet)
    BY <1>15, <1>t, TailTyped DEF TypeOK, UploadFails
  <2> QED BY <2>1, <1>15, <1>s, <1>t DEF TypeOK, UploadFails, Resting
<1>16. CASE Sent
  <2>0. jobs \in Seq(JobSet) /\ jobs # <<>>
    BY <1>16, <1>t DEF Inv, WorkerHasJob, Sent, TypeOK
  <2>1. Head(jobs).uid \in Uids
    <3>1. Head(jobs) \in JobSet
      BY <2>0, TailTyped
    <3> QED BY <3>1 DEF JobSet
  <2>2. [uid |-> Head(jobs).uid, whole |-> worker.whole] \in [uid : Uids, whole : BOOLEAN]
    BY <2>1, <1>t DEF TypeOK
  <2>3. arrived' \subseteq [uid : Uids, whole : BOOLEAN] /\ broken' \subseteq Uids
    <3>1. arrived \subseteq [uid : Uids, whole : BOOLEAN] /\ broken \subseteq Uids
      BY <1>t DEF TypeOK
    <3> QED BY <3>1, <2>1, <2>2, <1>16 DEF Sent
  <2>4. jobs' \in Seq(JobSet)
    BY <2>0, <1>16, TailTyped DEF Sent
  <2> QED BY <2>3, <2>4, <1>16, <1>s, <1>t DEF TypeOK, Sent, Resting
<1>17. CASE Open
  BY <1>17, <1>s, <1>t DEF TypeOK, Open
<1>18. CASE Lost
  <2>1. worker' \in [stage : {"idle", "missed", "compress", "write", "send"},
                     whole : BOOLEAN, intact : BOOLEAN]
    BY <1>18, <1>t DEF TypeOK, Lost
  <2>2. broken' \subseteq Uids
    BY <1>18, <1>t DEF TypeOK, Lost
  <2>3. /\ link' \in {"up", "down"}
        /\ losses' \in Nat
        /\ arrived' \subseteq [uid : Uids, whole : BOOLEAN]
        /\ acks' \subseteq [type : {"RECORD_ACK", "ERROR", "FILE_OK", "FILE_BAD"},
                           uid : Uids]
    BY <1>18, <1>t DEF TypeOK, Lost
  <2>4. UNCHANGED <<svars, files, active, tasks, jobs, acking, verdict, has,
                    faults, sends, crashes, recorded>>
    BY <1>18 DEF Lost
  <2> HIDE DEF TaskSet, JobSet
  <2> QED BY <2>1, <2>2, <2>3, <2>4, <1>s, <1>t DEF TypeOK, files
<1>19. CASE ProcessDies
  <2>1. /\ tasks' \in Seq(TaskSet)
        /\ jobs' \in Seq(JobSet)
    BY <1>19 DEF ProcessDies
  <2> QED BY <2>1, <1>19, <1>s, <1>t DEF TypeOK, ProcessDies, Resting, NoAck
<1> QED
  BY <1>0, <1>1, <1>2, <1>3, <1>4, <1>5, <1>6, <1>7, <1>8, <1>9, <1>10, <1>11, <1>12,
     <1>13, <1>14, <1>15, <1>16, <1>17, <1>18, <1>19 DEF Next, Worker, StoreStep, vars

(***************************************************************************)
(* A verdict stands, and the server keeps what it has.                     *)
(***************************************************************************)
VerdictsStand ==
  /\ has \subseteq has'
  /\ \A u \in Uids : verdict[u] # "none" => verdict'[u] = verdict[u]

\* No step takes back what the server answered to a record.
LEMMA StepVerdicts ==
  ASSUME Inv, [Next]_vars
  PROVE  VerdictsStand
<1>1. ASSUME NEW u \in Uids, ServerRecord(u) PROVE VerdictsStand
  <2>1. verdict \in [Uids -> {"none", "accepted", "rejected"}]
    BY DEF Inv, TypeOK
  <2> QED BY <2>1, <1>1 DEF ServerRecord, VerdictsStand
<1>2. ASSUME NEW a \in arrived, ServerFile(a) PROVE VerdictsStand
  BY <1>2 DEF ServerFile, VerdictsStand
<1>3. CASE UNCHANGED <<verdict, has>>
  BY <1>3 DEF VerdictsStand
<1>4. ASSUME NEW u \in Uids,
             Finish(u) \/ Handle(u) \/ RunTask(u) \/ RetryUpload(u)
      PROVE  UNCHANGED <<verdict, has>>
  BY <1>4 DEF Finish, Handle, RecordAck, RecordAckNoFile, FileAccepted, FileRejected,
     RecordRejected, RunTask, RunUpload, RunRequeue, RunRequeueRefused, RunDiscard,
     RetryUpload, server
<1>5. ASSUME RecordAckPost \/ RequeuePost \/ EraseUpload \/ DeleteUploadRows \/ Worker
      PROVE  UNCHANGED <<verdict, has>>
  BY <1>5 DEF RecordAckPost, RequeuePost, EraseUpload, DeleteUploadRows, Worker,
     TakeRaw, TakeZip, CreateZip, WriteZip, UploadFails, Sent, server
<1>6. ASSUME Open \/ Lost \/ StoreStep \/ ProcessDies \/ UNCHANGED vars
      PROVE  UNCHANGED <<verdict, has>>
  BY <1>6 DEF Open, Lost, StoreStep, ProcessDies, vars, uvars, server
<1> QED BY <1>1, <1>2, <1>3, <1>4, <1>5, <1>6 DEF Next

(***************************************************************************)
(* Answers.  Only the server makes new ones.                               *)
(***************************************************************************)
LEMMA AnswersStep ==
  ASSUME Inv, [Next]_vars
  PROVE  AcceptedIsHad' /\ ErrorIsRejection'
<1>v. VerdictsStand
  BY StepVerdicts
<1>1. CASE acks' \subseteq acks
  BY <1>v, <1>1 DEF Inv, AcceptedIsHad, ErrorIsRejection, VerdictsStand, Ack
<1>2. ASSUME NEW u \in Uids, ServerRecord(u)
      PROVE  AcceptedIsHad' /\ ErrorIsRejection'
  <2>1. verdict \in [Uids -> {"none", "accepted", "rejected"}]
    BY DEF Inv, TypeOK
  <2>2. PICK v \in {"accepted", "rejected"} :
          /\ verdict' = [verdict EXCEPT ![u] = v]
          /\ acks' = acks \cup {Ack(IF v = "accepted" THEN "RECORD_ACK" ELSE "ERROR", u)}
    BY <1>2 DEF ServerRecord
  <2>3. \A w \in Uids : Ack("FILE_OK", w) \in acks' => Ack("FILE_OK", w) \in acks
    BY <2>2 DEF Ack
  <2>4. AcceptedIsHad'
    BY <2>3, <1>v DEF Inv, AcceptedIsHad, VerdictsStand, Ack
  <2>5. ASSUME NEW w \in Uids, Ack("ERROR", w) \in acks' PROVE verdict'[w] = "rejected"
    <3>1. CASE Ack("ERROR", w) \in acks
      BY <3>1, <1>v DEF Inv, ErrorIsRejection, VerdictsStand
    <3>2. CASE Ack("ERROR", w) \notin acks
      <4>1. w = u /\ v = "rejected"
        BY <3>2, <2>5, <2>2 DEF Ack
      <4> QED BY <4>1, <2>1, <2>2
    <3> QED BY <3>1, <3>2
  <2> QED BY <2>4, <2>5 DEF ErrorIsRejection, Ack
<1>3. ASSUME NEW a \in arrived, ServerFile(a)
      PROVE  AcceptedIsHad' /\ ErrorIsRejection'
  <2>1. a.uid \in Uids
    BY DEF Inv, TypeOK
  <2>2. ASSUME NEW w \in Uids, Ack("FILE_OK", w) \in acks' PROVE w \in has'
    <3>1. CASE Ack("FILE_OK", w) \in acks
      BY <3>1, <1>v DEF Inv, AcceptedIsHad, VerdictsStand
    <3>2. CASE Ack("FILE_OK", w) \notin acks
      BY <3>2, <2>2, <1>3 DEF ServerFile, Ack
    <3> QED BY <3>1, <3>2
  <2>3. \A w \in Uids : Ack("ERROR", w) \in acks' => Ack("ERROR", w) \in acks
    BY <1>3 DEF ServerFile, Ack
  <2>4. ErrorIsRejection'
    BY <2>3, <1>v DEF Inv, ErrorIsRejection, VerdictsStand, Ack
  <2> QED BY <2>2, <2>4 DEF AcceptedIsHad, Ack
<1>4. ASSUME NEW u \in Uids,
             Finish(u) \/ Handle(u) \/ RunTask(u) \/ RetryUpload(u)
      PROVE  acks' \subseteq acks
  BY <1>4 DEF Finish, Handle, RecordAck, RecordAckNoFile, FileAccepted, FileRejected,
     RecordRejected, Receive, RunTask, RunUpload, RunRequeue, RunRequeueRefused,
     RunDiscard, RetryUpload
<1>5. ASSUME RecordAckPost \/ RequeuePost \/ EraseUpload \/ DeleteUploadRows \/ Worker
      PROVE  acks' \subseteq acks
  BY <1>5 DEF RecordAckPost, RequeuePost, EraseUpload, DeleteUploadRows, Worker,
     TakeRaw, TakeZip, CreateZip, WriteZip, UploadFails, Sent
<1>6. ASSUME Open \/ Lost \/ StoreStep \/ ProcessDies \/ UNCHANGED vars
      PROVE  acks' \subseteq acks
  BY <1>6 DEF Open, Lost, StoreStep, ProcessDies, vars, uvars
<1> QED BY <1>1, <1>2, <1>3, <1>4, <1>5, <1>6 DEF Next

(***************************************************************************)
(* Tasks.  Only the answer ERROR makes a task that discards.               *)
(***************************************************************************)
Discards(s) == \A i \in DOMAIN s : s[i].kind = "discard" => verdict[s[i].uid] = "rejected"

\* Running a task leaves the tasks behind it as they were.
LEMMA TailDiscards ==
  ASSUME NEW s \in Seq(TaskSet), s # <<>>, Discards(s)
  PROVE  Discards(Tail(s))
  BY DEF Discards

\* A posted task keeps the queue sound if it is sound itself.
LEMMA AppendDiscards ==
  ASSUME NEW s \in Seq(TaskSet), NEW t \in TaskSet, Discards(s),
         t.kind = "discard" => verdict[t.uid] = "rejected"
  PROVE  Discards(Append(s, t))
  BY DEF Discards

\* A step keeps every discarding task the consequence of a rejection.
LEMMA TasksStep ==
  ASSUME Inv, [Next]_vars
  PROVE  DiscardIsRejection'
<1>t. tasks \in Seq(TaskSet) /\ tasks' \in Seq(TaskSet) /\ Discards(tasks)
  BY TypeStep DEF Inv, TypeOK, DiscardIsRejection, Discards
<1>v. VerdictsStand
  BY StepVerdicts
<1>q. ASSUME Discards(tasks') PROVE DiscardIsRejection'
  <2>1. \A i \in DOMAIN tasks' : tasks'[i].uid \in Uids
    <3>1. \A s \in Seq(TaskSet) : \A i \in DOMAIN s : s[i] \in TaskSet
      OBVIOUS
    <3>2. \A t \in TaskSet : t.uid \in Uids
      BY DEF TaskSet
    <3> QED BY <3>1, <3>2, <1>t
  <2> QED BY <1>q, <1>v, <2>1 DEF Discards, DiscardIsRejection, VerdictsStand
<1>1. CASE UNCHANGED tasks
  BY <1>1, <1>t, <1>q
<1>2. ASSUME NEW k, NEW u, NextTask(k, u) PROVE DiscardIsRejection'
  BY <1>2, <1>t, <1>q, TailDiscards DEF NextTask
<1>3. ASSUME NEW u \in Uids, NEW k \in {"upload", "requeue"}, PostTask(k, u)
      PROVE  DiscardIsRejection'
  <2>1. Task(k, u) \in TaskSet /\ Task(k, u).kind # "discard"
    BY DEF Task, TaskSet
  <2>2. Discards(Append(tasks, Task(k, u)))
    BY <2>1, <1>t, AppendDiscards
  <2> QED BY <2>2, <1>1, <1>q, <1>3 DEF PostTask
<1>4. ASSUME NEW u \in Uids, Handle(u) PROVE DiscardIsRejection'
  <2>1. CASE FileRejected(u)
    <3>1. Task("requeue", u) \in TaskSet /\ Task("requeue", u).kind # "discard"
      BY DEF Task, TaskSet
    <3>2. Discards(Append(tasks, Task("requeue", u)))
      BY <3>1, <1>t, AppendDiscards
    <3> QED BY <3>2, <1>1, <1>q, <2>1 DEF FileRejected
  <2>2. CASE RecordRejected(u)
    <3>1. /\ Task("discard", u) \in TaskSet
          /\ verdict[Task("discard", u).uid] = "rejected"
      <4>1. Ack("ERROR", u) \in acks
        BY <2>2 DEF RecordRejected, Receive
      <4>2. verdict[u] = "rejected"
        BY <4>1 DEF Inv, ErrorIsRejection
      <4> QED BY <4>2 DEF Task, TaskSet
    <3>2. Discards(Append(tasks, Task("discard", u)))
      BY <3>1, <1>t, AppendDiscards
    <3> QED BY <3>2, <1>1, <1>q, <2>2 DEF RecordRejected
  <2>3. ASSUME \/ \E m \in Msgs : RecordAck(u, m)
               \/ RecordAckNoFile(u) \/ FileAccepted(u)
        PROVE  UNCHANGED tasks
    BY <2>3 DEF RecordAck, RecordAckNoFile, FileAccepted
  <2> QED BY <1>1, <1>4, <2>1, <2>2, <2>3 DEF Handle
<1>5. ASSUME NEW u \in Uids, RunTask(u) PROVE DiscardIsRejection'
  BY <1>5, <1>2 DEF RunTask, RunUpload, RunRequeue, RunRequeueRefused, RunDiscard
<1>6. CASE RecordAckPost
  <2>1. TextOf[call[WsThread].msg] \in Uids
    BY <1>6, PostedMessage, TwoThreads DEF RecordAckPost, Inv
  <2> QED BY <2>1, <1>3, <1>6 DEF RecordAckPost
<1>7. CASE ProcessDies
  BY <1>7 DEF ProcessDies, DiscardIsRejection
<1>8. ASSUME NEW u \in Uids, Finish(u) \/ ServerRecord(u) \/ RetryUpload(u)
      PROVE  UNCHANGED tasks
  BY <1>8 DEF Finish, ServerRecord, RetryUpload
<1>9. ASSUME NEW a \in arrived, ServerFile(a) PROVE UNCHANGED tasks
  BY <1>9 DEF ServerFile
<1>10. ASSUME RequeuePost \/ EraseUpload \/ DeleteUploadRows \/ Worker
       PROVE  UNCHANGED tasks
  BY <1>10 DEF RequeuePost, EraseUpload, DeleteUploadRows, Worker,
     TakeRaw, TakeZip, CreateZip, WriteZip, UploadFails, Sent
<1>11. ASSUME Open \/ Lost \/ StoreStep \/ UNCHANGED vars
       PROVE  UNCHANGED tasks
  BY <1>11 DEF Open, Lost, StoreStep, vars, uvars
<1> QED BY <1>1, <1>4, <1>5, <1>6, <1>7, <1>8, <1>9, <1>10, <1>11 DEF Next

\* A step keeps the upload thread at work only on a job it has.
LEMMA WorkerStep ==
  ASSUME Inv, [Next]_vars
  PROVE  WorkerHasJob'
<1>w. worker.stage # "idle" => jobs # <<>>
  BY DEF Inv, WorkerHasJob
<1>j. jobs \in Seq(JobSet)
  BY DEF Inv, TypeOK
<1>1. CASE UNCHANGED worker /\ (jobs # <<>> => jobs' # <<>>)
  BY <1>1, <1>w DEF WorkerHasJob
<1>e. ASSUME NEW job \in JobSet, Enqueue(job) PROVE WorkerHasJob'
  <2>1. Append(jobs, job) # <<>>
    BY <1>j, AppendNonempty
  <2> QED BY <2>1, <1>e DEF Enqueue, WorkerHasJob
<1>2. ASSUME NEW u \in Uids, HandOver(u) PROVE WorkerHasJob'
  BY <1>2, <1>1, <1>e, JobIsTyped DEF HandOver
<1>3. ASSUME NEW u \in Uids, RunUpload(u) PROVE WorkerHasJob'
  <2>1. [uid |-> u, ext |-> "krpr"] \in JobSet
    BY DEF JobSet
  <2> QED BY <2>1, <1>3, <1>1, <1>e DEF RunUpload
<1>4. ASSUME NEW u \in Uids, RunTask(u) PROVE WorkerHasJob'
  BY <1>4, <1>1, <1>3 DEF RunTask, RunRequeue, RunRequeueRefused, RunDiscard
<1>5. ASSUME NEW u \in Uids, RetryUpload(u) PROVE WorkerHasJob'
  BY <1>5, <1>1, <1>2 DEF RetryUpload
<1>6. CASE RequeuePost
  <2>1. TextOf[call[GameThread].msg] \in Uids
    BY <1>6, PostedMessage, TwoThreads DEF RequeuePost, Inv
  <2> QED BY <2>1, <1>1, <1>2, <1>6 DEF RequeuePost
<1>7. CASE Worker
  <2>1. CASE TakeRaw \/ TakeZip \/ CreateZip \/ WriteZip
    BY <2>1, <1>w DEF TakeRaw, TakeZip, CreateZip, WriteZip, WorkerHasJob
  <2>2. CASE UploadFails \/ Sent
    BY <2>2 DEF UploadFails, Sent, WorkerHasJob, Resting
  <2> QED BY <1>7, <2>1, <2>2 DEF Worker
<1>8. CASE ProcessDies
  BY <1>8 DEF ProcessDies, WorkerHasJob, Resting
<1>9. CASE Lost
  <2>1. worker'.stage = worker.stage
    BY <1>9 DEF Lost, Inv, TypeOK
  <2> QED BY <2>1, <1>w, <1>9 DEF Lost, WorkerHasJob
<1>10. ASSUME NEW u \in Uids, Finish(u) \/ ServerRecord(u) \/ Handle(u)
       PROVE  UNCHANGED <<worker, jobs>>
  BY <1>10 DEF Finish, ServerRecord, Handle, RecordAck, RecordAckNoFile, FileAccepted,
     FileRejected, RecordRejected
<1>11. ASSUME NEW a \in arrived, ServerFile(a) PROVE UNCHANGED <<worker, jobs>>
  BY <1>11 DEF ServerFile
<1>12. ASSUME \/ RecordAckPost \/ EraseUpload \/ DeleteUploadRows \/ Open
              \/ StoreStep \/ UNCHANGED vars
       PROVE  UNCHANGED <<worker, jobs>>
  BY <1>12 DEF RecordAckPost, EraseUpload, DeleteUploadRows, Open, StoreStep, vars, uvars
<1> QED
  BY <1>1, <1>4, <1>5, <1>6, <1>7, <1>8, <1>9, <1>10, <1>11, <1>12 DEF Next

(***************************************************************************)
(* Files.  FILE_ACK true deletes a raw file the server has, after moving   *)
(* the compressed one; the task of ERROR deletes that of a rejected record.*)
(***************************************************************************)
LEMMA FilesStep ==
  ASSUME Inv, [Next]_vars
  PROVE  NoReplayLost'
<1>v. VerdictsStand
  BY StepVerdicts
<1>r. recorded \subseteq Uids
  BY DEF Inv, TypeOK
<1> DEFINE MovedStay == \A v \in Uids : moved[v] # "none" => moved'[v] # "none"
<1>1. CASE raw \subseteq raw' /\ MovedStay /\ recorded' = recorded
  BY <1>1, <1>v, <1>r DEF Inv, NoReplayLost, VerdictsStand
<1>2. ASSUME NEW u \in Uids, Finish(u) PROVE NoReplayLost'
  BY <1>2, <1>v, <1>r DEF Finish, Inv, NoReplayLost, VerdictsStand
<1>3. ASSUME NEW u \in Uids, Handle(u) PROVE NoReplayLost'
  <2>1. CASE FileAccepted(u)
    <3>1. u \in has
      BY <2>1 DEF FileAccepted, Receive, Inv, AcceptedIsHad
    <3>2. /\ raw \ {u} \subseteq raw'
          /\ MovedStay
          /\ raw \subseteq raw' \/ moved'[u] # "none"
      <4>1. moved \in [Uids -> {"none", "part", "whole"}]
        BY DEF Inv, TypeOK
      <4> QED BY <4>1, <2>1 DEF FileAccepted, Move, files
    <3>3. recorded' = recorded /\ has' = has /\ verdict' = verdict
      BY <2>1 DEF FileAccepted, server
    <3> QED BY <3>1, <3>2, <3>3, <1>r DEF Inv, NoReplayLost
  <2>2. ASSUME \/ \E m \in Msgs : RecordAck(u, m)
               \/ RecordAckNoFile(u) \/ FileRejected(u) \/ RecordRejected(u)
        PROVE  UNCHANGED <<raw, moved, recorded>>
    BY <2>2 DEF RecordAck, RecordAckNoFile, FileRejected, RecordRejected, files
  <2> QED BY <1>1, <1>3, <2>1, <2>2 DEF Handle
<1>4. ASSUME NEW u \in Uids, RunTask(u) PROVE NoReplayLost'
  <2>1. CASE RunDiscard(u)
    <3>1. tasks \in Seq(TaskSet) /\ tasks # <<>> /\ Head(tasks) = Task("discard", u)
      BY <2>1 DEF RunDiscard, NextTask, Inv, TypeOK
    <3>2. verdict[u] = "rejected"
      <4>1. 1 \in DOMAIN tasks /\ tasks[1] = Task("discard", u)
        BY <3>1
      <4> QED BY <4>1 DEF Inv, DiscardIsRejection, Task
    <3>3. /\ raw \ {u} \subseteq raw'
          /\ UNCHANGED <<moved, recorded, has, verdict>>
      BY <2>1 DEF RunDiscard, server
    <3> QED BY <3>2, <3>3, <1>r DEF Inv, NoReplayLost
  <2>2. ASSUME \/ RunUpload(u) \/ RunRequeueRefused(u)
               \/ \E m \in Msgs : RunRequeue(u, m)
        PROVE  UNCHANGED <<raw, moved, recorded>>
    BY <2>2 DEF RunUpload, RunRequeueRefused, RunRequeue, files
  <2> QED BY <1>1, <1>4, <2>1, <2>2 DEF RunTask
<1>5. ASSUME NEW u \in Uids, ServerRecord(u) \/ RetryUpload(u)
      PROVE  UNCHANGED <<raw, moved, recorded>>
  BY <1>5 DEF ServerRecord, RetryUpload, files
<1>6. ASSUME NEW a \in arrived, ServerFile(a) PROVE UNCHANGED <<raw, moved, recorded>>
  BY <1>6 DEF ServerFile, files
<1>7. ASSUME \/ RecordAckPost \/ RequeuePost \/ EraseUpload \/ DeleteUploadRows
             \/ (Worker /\ ~WriteZip) \/ Open \/ Lost \/ StoreStep \/ ProcessDies
             \/ UNCHANGED vars
      PROVE  UNCHANGED <<raw, moved, recorded>>
  BY <1>7 DEF RecordAckPost, RequeuePost, EraseUpload, DeleteUploadRows, Worker, TakeRaw,
     TakeZip, CreateZip, UploadFails, Sent, Open, Lost, StoreStep, ProcessDies,
     vars, uvars, files
<1>8. CASE WriteZip
  <2>1. moved \in [Uids -> {"none", "part", "whole"}]
    BY DEF Inv, TypeOK
  <2>2. MovedStay
    BY <1>8, <2>1 DEF WriteZip
  <2>3. UNCHANGED <<raw, recorded>>
    BY <1>8 DEF WriteZip
  <2> QED BY <1>1, <2>2, <2>3
<1> QED BY <1>1, <1>2, <1>3, <1>4, <1>5, <1>6, <1>7, <1>8 DEF Next

\* The invariant is inductive.
LEMMA UploadStepInv ==
  ASSUME Inv, [Next]_vars
  PROVE  Inv'
  BY TypeStep, AnswersStep, TasksStep, WorkerStep, FilesStep, StepIsStorageStep,
     StorageStepInv DEF Inv

\* The invariant holds in every reachable state.
LEMMA Invariant == Spec => []Inv
<1>1. Inv /\ [Next]_vars => Inv'
  BY UploadStepInv
<1> QED BY <1>1, UploadInitInv, PTL DEF Spec

(***************************************************************************)
(* The pipeline's variables keep their types.                              *)
(***************************************************************************)
THEOREM UploadTypeCorrect == Spec => []TypeOK
  BY Invariant, PTL DEF Inv

(***************************************************************************)
(* No replay is lost between the writer and the map's folder, for any      *)
(* number of replays, faults, losses and crashes.                          *)
(***************************************************************************)
THEOREM ReplaysAreKept == Spec => []NoReplayLost
  BY Invariant, PTL DEF Inv

-----------------------------------------------------------------------------
(***************************************************************************)
(* Where an upload is.  A replay on its way is at one of six places: in a  *)
(* call of the store, among the tasks, among the jobs, at the server,      *)
(* among the answers, or being cleaned up after.                           *)
(***************************************************************************)
Has(s, P)  == \E i \in DOMAIN s : s[i] \in P
Once(s, P) == \A i, j \in DOMAIN s : s[i] \in P /\ s[j] \in P => i = j
Single(S)  == \A x, y \in S : x = y

CallsOf(u)    == {t \in Threads : call[t].msg # NoMsg /\ TextOf[call[t].msg] = u}
UploadTask(u) == {Task("upload", u)}
JobsOf(u)     == {j \in JobSet : j.uid = u}
ArrivedOf(u)  == {a \in arrived : a.uid = u}
AnswersOf(u)  == {a \in acks : a.uid = u /\ a.type \in {"FILE_OK", "FILE_BAD"}}
Erasing(u)    == acking = [uid |-> u, step |-> "erase"]

Places == {"call", "task", "job", "server", "answer", "erase"}

At(p, u) ==
  \/ p = "call" /\ CallsOf(u) # {}
  \/ p = "task" /\ Has(tasks, UploadTask(u))
  \/ p = "job" /\ Has(jobs, JobsOf(u))
  \/ p = "server" /\ ArrivedOf(u) # {}
  \/ p = "answer" /\ AnswersOf(u) # {}
  \/ p = "erase" /\ Erasing(u)

AtOnce(p, u) ==
  /\ p = "call" => Single(CallsOf(u))
  /\ p = "task" => Once(tasks, UploadTask(u))
  /\ p = "job" => Once(jobs, JobsOf(u))
  /\ p = "server" => Single(ArrivedOf(u))
  /\ p = "answer" => Single(AnswersOf(u))

OnWay(u) == \E p \in Places : At(p, u)

\* At most one of the places, and there once.
Alone(u) == /\ \A p \in Places : AtOnce(p, u)
            /\ \A p, q \in Places : At(p, u) /\ At(q, u) => p = q

\* What may bring an upload back: its rows and entries, and the game thread's task.
Stored(u) == \/ \E r \in rows : TextOf[r.msg] = u
             \/ \E e \in retryQ : TextOf[e.msg] = u

Requeued(u) == Has(tasks, {Task("requeue", u)})

Untouched(u) == ~OnWay(u) /\ ~Stored(u) /\ ~Requeued(u)

(***************************************************************************)
(* The strengthening.  An upload starts three ways: RECORD_ACK starts one  *)
(* without a look at the active ones, so before the one acknowledgement of *)
(* a record there must be nothing of its upload; a retry and a requeue     *)
(* start one for a replay that is not active, so what is on its way must   *)
(* be active; and the task of ERROR takes a replay out of the active ones, *)
(* so a replay with an upload must be one the server accepted.             *)
(***************************************************************************)
NothingBeforeAck ==
  \A u \in Uids :
    /\ sends[u] = 0 => Ack("RECORD_ACK", u) \notin acks
    /\ sends[u] <= 1 /\ (sends[u] = 0 \/ Ack("RECORD_ACK", u) \in acks)
         => Untouched(u)

UploadIsOfAccepted ==
  \A u \in Uids :
    Ack("RECORD_ACK", u) \in acks \/ ~Untouched(u) => verdict[u] = "accepted"

OnePlace ==
  \A u \in Uids :
    sends[u] <= 1 => Alone(u) /\ (OnWay(u) => u \in active)

WayInv ==
  /\ ActiveIsOnItsWay
  /\ NothingBeforeAck
  /\ UploadIsOfAccepted
  /\ OnePlace

\* What a sequence has after something was appended.
LEMMA AppendHas ==
  ASSUME NEW S, NEW s \in Seq(S), NEW x \in S, NEW P
  PROVE  /\ Has(Append(s, x), P) <=> Has(s, P) \/ x \in P
         /\ Once(s, P) /\ (x \in P => ~Has(s, P)) => Once(Append(s, x), P)
<1>1. /\ DOMAIN s = 1..Len(s) /\ Len(s) \in Nat
      /\ DOMAIN Append(s, x) = 1..(Len(s) + 1)
      /\ \A i \in 1..Len(s) : Append(s, x)[i] = s[i]
      /\ Append(s, x)[Len(s) + 1] = x
  OBVIOUS
<1>2. \A i \in 1..(Len(s) + 1) : i \in 1..Len(s) \/ i = Len(s) + 1
  BY <1>1
<1> QED BY <1>1, <1>2 DEF Has, Once

\* What a sequence has after its head was taken.
LEMMA TailHas ==
  ASSUME NEW S, NEW s \in Seq(S), s # <<>>, NEW P
  PROVE  /\ Has(s, P) <=> Head(s) \in P \/ Has(Tail(s), P)
         /\ Once(s, P) => Once(Tail(s), P)
         /\ Once(s, P) /\ Head(s) \in P => ~Has(Tail(s), P)
<1>1. /\ DOMAIN s = 1..Len(s) /\ Len(s) \in Nat /\ Len(s) > 0
      /\ DOMAIN Tail(s) = 1..(Len(s) - 1)
      /\ \A i \in 1..(Len(s) - 1) : Tail(s)[i] = s[i + 1] /\ i + 1 \in 1..Len(s)
      /\ Head(s) = s[1]
  OBVIOUS
<1>2. ASSUME NEW i \in 1..Len(s), i # 1
      PROVE  i - 1 \in 1..(Len(s) - 1) /\ Tail(s)[i - 1] = s[i]
  BY <1>1, <1>2
<1>3. 1 \in DOMAIN s
  BY <1>1
<1>4. Has(s, P) <=> Head(s) \in P \/ Has(Tail(s), P)
  <2>1. ASSUME Has(s, P), Head(s) \notin P PROVE Has(Tail(s), P)
    <3>1. PICK i \in 1..Len(s) : s[i] \in P
      BY <1>1, <2>1 DEF Has
    <3> QED BY <1>1, <1>2, <2>1, <3>1 DEF Has
  <2>2. ASSUME Has(Tail(s), P) PROVE Has(s, P)
    BY <1>1, <2>2 DEF Has
  <2>3. ASSUME Head(s) \in P PROVE Has(s, P)
    BY <1>1, <1>3, <2>3 DEF Has
  <2> QED BY <2>1, <2>2, <2>3
<1>5. Once(s, P) => Once(Tail(s), P)
  <2> SUFFICES ASSUME Once(s, P), NEW i \in 1..(Len(s) - 1), NEW j \in 1..(Len(s) - 1),
                      Tail(s)[i] \in P, Tail(s)[j] \in P
               PROVE  i = j
    BY <1>1 DEF Once
  <2>1. i + 1 = j + 1
    BY <1>1 DEF Once
  <2> QED BY <1>1, <2>1
<1>6. Once(s, P) /\ Head(s) \in P => ~Has(Tail(s), P)
  <2> SUFFICES ASSUME Once(s, P), s[1] \in P, NEW i \in 1..(Len(s) - 1), s[i + 1] \in P
               PROVE  FALSE
    BY <1>1 DEF Has
  <2>1. i + 1 = 1
    BY <1>1, <1>3 DEF Once
  <2> QED BY <1>1, <2>1
<1> QED BY <1>4, <1>5, <1>6

\* The places are those the model names.
LEMMA PlacesAreThose ==
  TypeOK => \A u \in Uids : OnWay(u) <=> Queued(u) \/ AwaitsAnswer(u)
<1> SUFFICES ASSUME TypeOK, NEW u \in Uids
             PROVE  OnWay(u) <=> Queued(u) \/ AwaitsAnswer(u)
  OBVIOUS
<1>1. jobs \in Seq(JobSet)
  BY DEF TypeOK
<1>2. At("job", u) <=> \E i \in DOMAIN jobs : jobs[i].uid = u
  <2>1. \A i \in DOMAIN jobs : jobs[i] \in JobSet
    BY <1>1
  <2> QED BY <2>1 DEF At, Has, JobsOf
<1>3. At("task", u) <=> \E i \in DOMAIN tasks : tasks[i] = Task("upload", u)
  BY DEF At, Has, UploadTask
<1>4. At("call", u) <=> \E t \in Threads : call[t].msg # NoMsg /\ TextOf[call[t].msg] = u
  BY DEF At, CallsOf
<1>5. At("server", u) <=> \E a \in arrived : a.uid = u
  BY DEF At, ArrivedOf
<1>6. At("answer", u) <=> \E a \in acks : a.uid = u /\ a.type \in {"FILE_OK", "FILE_BAD"}
  BY DEF At, AnswersOf
<1>7. At("erase", u) <=> acking = [uid |-> u, step |-> "erase"]
  BY DEF At, Erasing
<1>8. OnWay(u) <=> \/ At("call", u) \/ At("task", u) \/ At("job", u)
                   \/ At("server", u) \/ At("answer", u) \/ At("erase", u)
  BY DEF OnWay, Places
<1> QED BY <1>2, <1>3, <1>4, <1>5, <1>6, <1>7, <1>8 DEF Queued, AwaitsAnswer

\* A step of a save, and what it does to the calls of each replay.
LEMMA SaveKeepsCalls ==
  ASSUME StorageInv, NEW u, NEW t \in Threads,
         Push(t) \/ InsertOk(t) \/ InsertFails(t)
  PROVE  CallsOf(u)' = CallsOf(u)
<1>1. call \in [Threads -> Call]
  BY DEF StorageInv, StorageTypeOK
<1>2. \A s \in Threads : call'[s].msg = call[s].msg
  BY <1>1 DEF Push, InsertOk, InsertFails, Call
<1> QED BY <1>2 DEF CallsOf

\* The save that returns leaves its replay.
LEMMA ReturnEndsCall ==
  ASSUME StorageInv, NEW u, NEW t \in Threads, Return(t)
  PROVE  CallsOf(u)' = CallsOf(u) \ {t}
<1>1. call \in [Threads -> Call]
  BY DEF StorageInv, StorageTypeOK
<1>2. call' = [call EXCEPT ![t] = Idle] /\ Idle.msg = NoMsg
  BY DEF Return, Idle
<1> QED BY <1>1, <1>2 DEF CallsOf

\* It was a save of the replay it is posted for.
LEMMA ReturnWasCall ==
  ASSUME StorageInv, NEW t \in Threads, Return(t)
  PROVE  t \in CallsOf(TextOf[call[t].msg])
<1>1. call[t].msg \in Msgs
  BY DEF StorageInv, CallsSound, Saving, Return
<1> QED BY <1>1, StorageAssumption DEF CallsOf

\* A thread that takes an id begins a save.
LEMMA NextIdBeginsCall ==
  ASSUME StorageInv, NEW u, NEW t \in Threads, NEW m \in Msgs, GetNextId(t, m)
  PROVE  CallsOf(u)' = CallsOf(u) \cup (IF TextOf[m] = u THEN {t} ELSE {})
<1>1. call \in [Threads -> Call]
  BY DEF StorageInv, StorageTypeOK
<1>2. PICK id : call' = [call EXCEPT ![t] =
                          [op |-> "push", table |-> TableOf[m], id |-> id, msg |-> m]]
  BY DEF GetNextId
<1>3. call[t].msg = NoMsg /\ m # NoMsg
  BY StorageAssumption DEF GetNextId, Idle
<1>4. ASSUME NEW s \in Threads
      PROVE  s \in CallsOf(u)' <=> s \in CallsOf(u) \/ (s = t /\ TextOf[m] = u)
  <2>1. CASE s = t
    BY <1>1, <1>2, <1>3, <2>1 DEF CallsOf
  <2>2. CASE s # t
    BY <1>1, <1>2, <2>2 DEF CallsOf
  <2> QED BY <2>1, <2>2
<1>5. CallsOf(u) \subseteq Threads /\ CallsOf(u)' \subseteq Threads
  BY DEF CallsOf
<1> QED BY <1>4, <1>5

\* A row or an entry of a replay comes from a call, a row or an entry of it.
LEMMA StoredFromCall ==
  ASSUME StorageInv, NEW u, [StorageNext]_svars, ~Stored(u), CallsOf(u) = {}
  PROVE  ~Stored(u)'
<1>1. /\ \A r \in rows : TextOf[r.msg] # u
      /\ \A e \in retryQ : TextOf[e.msg] # u
  BY DEF Stored
<1>2. ASSUME NEW t \in Threads, call[t].op \in Saving
      PROVE  TextOf[call[t].msg] # u
  <2>1. call[t].msg \in Msgs /\ call[t].msg # NoMsg
    BY <1>2, StorageAssumption DEF StorageInv, CallsSound
  <2> QED BY <2>1 DEF CallsOf
<1>3. ASSUME NEW t \in Threads, Push(t) PROVE ~Stored(u)'
  BY <1>1, <1>2, <1>3 DEF Push, EntryOf, Stored, Saving
<1>4. ASSUME NEW t \in Threads, InsertOk(t) PROVE ~Stored(u)'
  BY <1>1, <1>2, <1>4 DEF InsertOk, Stored, Saving
<1>5. ASSUME rows' \subseteq rows, retryQ' \subseteq retryQ PROVE ~Stored(u)'
  BY <1>1, <1>5 DEF Stored
<1>6. ASSUME rows' \subseteq rows, \A e \in retryQ' : \E f \in retryQ : e.msg = f.msg
      PROVE  ~Stored(u)'
  BY <1>1, <1>6 DEF Stored
<1>7. ASSUME rows' \subseteq rows, \A e \in retryQ' : \E r \in rows : e.msg = r.msg
      PROVE  ~Stored(u)'
  BY <1>1, <1>7 DEF Stored
<1>r. \A e \in retryQ : /\ [e EXCEPT !.retries = 0].msg = e.msg
                        /\ Resent(e).msg = e.msg
  <2>1. \A e \in Entry : \A n : [e EXCEPT !.retries = n].msg = e.msg
    BY DEF Entry
  <2>2. retryQ \subseteq Entry
    BY DEF StorageInv, StorageTypeOK
  <2> QED BY <2>1, <2>2 DEF Resent
<1>8. ASSUME NEW t \in Threads, NEW m \in Msgs, GetNextId(t, m) PROVE ~Stored(u)'
  BY <1>8, <1>5 DEF GetNextId
<1>9. ASSUME NEW t \in Threads,
             \/ InsertFails(t) \/ Return(t) \/ DeleteRows(t)
             \/ \E tb, id : EraseEntry(t, tb, id)
             \/ \E tb : EraseTable(t, tb)
             \/ \E x : DeleteByValue(t, x) \/ EraseByValue(t, x)
             \/ Clear(t)
      PROVE  rows' \subseteq rows /\ retryQ' \subseteq retryQ
  BY <1>9 DEF InsertFails, Return, DeleteRows, EraseEntry, EraseTable, DeleteByValue,
     EraseByValue, Clear
<1>10. ASSUME NEW t \in Threads, RequeueAll(t) \/ \E id : RequeueId(t, id)
       PROVE  ~Stored(u)'
  BY <1>10, <1>6, <1>r DEF RequeueAll, RequeueId
<1>11. ASSUME NEW t \in Threads, Load(t) PROVE ~Stored(u)'
  BY <1>11, <1>7 DEF Load, EntryOf
<1>12. ASSUME NEW e \in retryQ, GiveUp(e) \/ Resend(e) PROVE ~Stored(u)'
  BY <1>12, <1>6, <1>r DEF GiveUp, Resend
<1>13. ASSUME Crash \/ UNCHANGED svars PROVE rows' \subseteq rows /\ retryQ' \subseteq retryQ
  BY <1>13 DEF Crash, svars
<1> QED
  BY <1>3, <1>4, <1>5, <1>8, <1>9, <1>10, <1>11, <1>12, <1>13, TwoThreads DEF StorageNext

(***************************************************************************)
(* What a step does to the upload of u, place by place.                    *)
(***************************************************************************)
Stay(p, u)  == (At(p, u)' <=> At(p, u)) /\ (AtOnce(p, u) => AtOnce(p, u)')
Leave(p, u) == At(p, u) /\ (AtOnce(p, u) => ~At(p, u)')
Enter(p, u) == At(p, u)' /\ (~At(p, u) => AtOnce(p, u)')

Others(P, u) == \A p \in Places \ P : Stay(p, u)

\* It goes nowhere; if it is lost, it is a broken one.
Keeps(u) ==
  /\ \A p \in Places :
       AtOnce(p, u) => AtOnce(p, u)' /\ (At(p, u)' => At(p, u))
  /\ u \in active' <=> u \in active
  /\ u \in active /\ OnWay(u) => OnWay(u)' \/ u \in broken'

\* It goes from one place to another.
Moves(u) ==
  /\ \E p, q \in Places :
       p # q /\ Leave(p, u) /\ Enter(q, u) /\ Others({p, q}, u)
  /\ u \in active => u \in active'

\* It is over.
Ends(u) ==
  /\ \/ \E p \in Places : Leave(p, u) /\ Others({p}, u)
     \/ ~OnWay(u)'
  /\ u \notin active'

\* It starts: acknowledged, or due while it is not active.
Starts(u) ==
  /\ \E p \in Places : Enter(p, u) /\ Others({p}, u)
  /\ u \in active'
  /\ \/ \E m \in Msgs : RecordAck(u, m)
     \/ u \notin active /\ (Requeued(u) \/ Stored(u))

\* A rejected replay is no longer active.
Discarded(u) ==
  /\ Others({}, u)
  /\ verdict[u] = "rejected"
  /\ u \notin active'

Effect(u) ==
  /\ Keeps(u) \/ Moves(u) \/ Ends(u) \/ Starts(u) \/ Discarded(u)
  /\ u \in active' /\ u \in broken => u \in broken'

\* Where nothing is, nothing is twice.
LEMMA NowhereIsOnce ==
  ASSUME NEW u, NEW p
  PROVE  (~At(p, u) => AtOnce(p, u)) /\ (~At(p, u)' => AtOnce(p, u)')
  BY DEF At, AtOnce, Has, Once, Single

\* A place whose variable is left alone.
LEMMA Untaken ==
  ASSUME NEW u
  PROVE  /\ CallsOf(u)' = CallsOf(u) => Stay("call", u)
         /\ UNCHANGED tasks => Stay("task", u)
         /\ UNCHANGED jobs => Stay("job", u)
         /\ ArrivedOf(u)' = ArrivedOf(u) => Stay("server", u)
         /\ AnswersOf(u)' = AnswersOf(u) => Stay("answer", u)
         /\ (Erasing(u)' <=> Erasing(u)) => Stay("erase", u)
         /\ UNCHANGED call => CallsOf(u)' = CallsOf(u)
         /\ UNCHANGED arrived => ArrivedOf(u)' = ArrivedOf(u)
         /\ UNCHANGED acks => AnswersOf(u)' = AnswersOf(u)
         /\ UNCHANGED acking => (Erasing(u)' <=> Erasing(u))
<1>1. CallsOf(u)' = CallsOf(u) => Stay("call", u)
  BY DEF Stay, At, AtOnce
<1>2. UNCHANGED tasks => Stay("task", u)
  BY DEF Stay, At, AtOnce, UploadTask
<1>3. UNCHANGED jobs => Stay("job", u)
  BY DEF Stay, At, AtOnce, JobsOf
<1>4. ArrivedOf(u)' = ArrivedOf(u) => Stay("server", u)
  BY DEF Stay, At, AtOnce
<1>5. AnswersOf(u)' = AnswersOf(u) => Stay("answer", u)
  BY DEF Stay, At, AtOnce
<1>6. (Erasing(u)' <=> Erasing(u)) => Stay("erase", u)
  BY DEF Stay, At, AtOnce
<1> QED
  BY <1>1, <1>2, <1>3, <1>4, <1>5, <1>6 DEF CallsOf, ArrivedOf, AnswersOf, Erasing

\* All six places.
LEMMA AllStay ==
  ASSUME NEW u,
         Stay("call", u), Stay("task", u), Stay("job", u),
         Stay("server", u), Stay("answer", u), Stay("erase", u)
  PROVE  Others({}, u)
  BY DEF Others, Places

\* An upload of which nothing changes is kept.
LEMMA StaysIsKept ==
  ASSUME NEW u, Others({}, u), u \in active' <=> u \in active,
         u \in active' /\ u \in broken => u \in broken'
  PROVE  Effect(u)
  BY DEF Others, Effect, Keeps, Stay, OnWay

\* A task taken from the game thread's queue.
LEMMA TaskTaken ==
  ASSUME TypeOK, NEW u, NEW k, NEW w \in Uids, NextTask(k, w)
  PROVE  IF k = "upload" /\ w = u THEN Leave("task", u) ELSE Stay("task", u)
<1>1. tasks \in Seq(TaskSet) /\ tasks # <<>> /\ tasks' = Tail(tasks)
      /\ Head(tasks) = Task(k, w)
  BY DEF TypeOK, NextTask
<1>2. Head(tasks) \in UploadTask(u) <=> k = "upload" /\ w = u
  BY <1>1 DEF UploadTask, Task
<1>3. /\ Has(tasks, UploadTask(u)) <=> Head(tasks) \in UploadTask(u)
                                         \/ Has(Tail(tasks), UploadTask(u))
      /\ Once(tasks, UploadTask(u)) => Once(Tail(tasks), UploadTask(u))
      /\ Once(tasks, UploadTask(u)) /\ Head(tasks) \in UploadTask(u)
           => ~Has(Tail(tasks), UploadTask(u))
  BY <1>1, TailHas
<1> QED BY <1>1, <1>2, <1>3 DEF Leave, Stay, At, AtOnce, UploadTask

\* A task posted to the game thread.
LEMMA TaskPosted ==
  ASSUME TypeOK, NEW u, NEW k \in {"upload", "requeue", "discard"}, NEW w \in Uids,
         tasks' = Append(tasks, Task(k, w))
  PROVE  IF k = "upload" /\ w = u THEN Enter("task", u) ELSE Stay("task", u)
<1>1. tasks \in Seq(TaskSet) /\ Task(k, w) \in TaskSet
  BY TaskIsTyped DEF TypeOK
<1>2. Task(k, w) \in UploadTask(u) <=> k = "upload" /\ w = u
  BY DEF UploadTask, Task
<1>3. /\ Has(tasks', UploadTask(u)) <=> Has(tasks, UploadTask(u))
                                          \/ Task(k, w) \in UploadTask(u)
      /\ Once(tasks, UploadTask(u))
         /\ (Task(k, w) \in UploadTask(u) => ~Has(tasks, UploadTask(u)))
           => Once(tasks', UploadTask(u))
  BY <1>1, AppendHas
<1>4. ~Has(tasks, UploadTask(u)) => Once(tasks, UploadTask(u))
  BY DEF Has, Once
<1> QED BY <1>2, <1>3, <1>4 DEF Enter, Stay, At, AtOnce, UploadTask

\* A job taken from the upload thread's queue.
LEMMA JobTaken ==
  ASSUME TypeOK, NEW u, jobs # <<>>, jobs' = Tail(jobs)
  PROVE  IF Head(jobs).uid = u THEN Leave("job", u) ELSE Stay("job", u)
<1>1. jobs \in Seq(JobSet) /\ Head(jobs) \in JobSet
  BY TailTyped DEF TypeOK
<1>2. Head(jobs) \in JobsOf(u) <=> Head(jobs).uid = u
  BY <1>1 DEF JobsOf
<1>3. /\ Has(jobs, JobsOf(u)) <=> Head(jobs) \in JobsOf(u) \/ Has(Tail(jobs), JobsOf(u))
      /\ Once(jobs, JobsOf(u)) => Once(Tail(jobs), JobsOf(u))
      /\ Once(jobs, JobsOf(u)) /\ Head(jobs) \in JobsOf(u)
           => ~Has(Tail(jobs), JobsOf(u))
  BY <1>1, TailHas
<1> QED BY <1>2, <1>3 DEF Leave, Stay, At, AtOnce, JobsOf

\* A job given to the upload thread.
LEMMA JobPosted ==
  ASSUME TypeOK, NEW u, NEW j \in JobSet, Enqueue(j)
  PROVE  IF j.uid = u THEN Enter("job", u) ELSE Stay("job", u)
<1>1. jobs \in Seq(JobSet) /\ jobs' = Append(jobs, j)
  BY DEF TypeOK, Enqueue
<1>2. j \in JobsOf(u) <=> j.uid = u
  BY DEF JobsOf
<1>3. /\ Has(jobs', JobsOf(u)) <=> Has(jobs, JobsOf(u)) \/ j \in JobsOf(u)
      /\ Once(jobs, JobsOf(u)) /\ (j \in JobsOf(u) => ~Has(jobs, JobsOf(u)))
           => Once(jobs', JobsOf(u))
  BY <1>1, AppendHas
<1>4. ~Has(jobs, JobsOf(u)) => Once(jobs, JobsOf(u))
  BY DEF Has, Once
<1> QED BY <1>2, <1>3, <1>4 DEF Enter, Stay, At, AtOnce, JobsOf

\* kz_ws_upload_file_async: a job, and active; or, the queue being full, neither.
LEMMA HandOverEffect ==
  ASSUME TypeOK, NEW u, NEW w \in Uids, HandOver(w)
  PROVE  \/ /\ IF w = u THEN Enter("job", u) ELSE Stay("job", u)
            /\ active' = active \cup {w}
         \/ /\ Stay("job", u)
            /\ active' = active \ {w}
<1>1. CASE Len(jobs) < UploadQueueCap
  <2>1. JobOf(w) \in JobSet /\ JobOf(w).uid = w
    BY JobIsTyped DEF JobOf
  <2>2. Enqueue(JobOf(w)) /\ active' = active \cup {w}
    BY <1>1 DEF HandOver
  <2> QED BY <2>1, <2>2, JobPosted
<1>2. CASE ~(Len(jobs) < UploadQueueCap)
  BY <1>2, Untaken DEF HandOver
<1> QED BY <1>1, <1>2

\* The steps that leave every upload where it is.
LEMMA QuietEffect ==
  ASSUME Inv, [Next]_vars, NEW u \in Uids,
         \/ \E w \in Uids : \/ Finish(w) \/ ServerRecord(w)
                            \/ RecordAckNoFile(w) \/ RecordRejected(w)
                            \/ RunRequeueRefused(w)
         \/ DeleteUploadRows
         \/ TakeRaw \/ TakeZip \/ CreateZip \/ WriteZip
         \/ Open \/ StoreStep \/ UNCHANGED vars
  PROVE  Effect(u)
<1>t. TypeOK /\ StorageInv
  BY DEF Inv
<1>q. ASSUME CallsOf(u)' = CallsOf(u), Stay("task", u), UNCHANGED jobs,
             UNCHANGED arrived, AnswersOf(u)' = AnswersOf(u),
             Erasing(u)' <=> Erasing(u), UNCHANGED <<active, broken>>
      PROVE  Effect(u)
  BY <1>q, Untaken, AllStay, StaysIsKept
<1>1. ASSUME NEW w \in Uids, Finish(w) PROVE Effect(u)
  BY <1>1, <1>q, Untaken DEF Finish, svars, server
<1>2. ASSUME NEW w \in Uids, ServerRecord(w) PROVE Effect(u)
  <2>1. AnswersOf(u)' = AnswersOf(u)
    BY <1>2 DEF ServerRecord, AnswersOf, Ack
  <2> QED BY <2>1, <1>2, <1>q, Untaken DEF ServerRecord, svars
<1>3. ASSUME NEW w \in Uids, RecordAckNoFile(w) \/ RecordRejected(w) PROVE Effect(u)
  <2>1. AnswersOf(u)' = AnswersOf(u)
    BY <1>3 DEF RecordAckNoFile, RecordRejected, Receive, AnswersOf, Ack
  <2>2. UNCHANGED <<call, jobs, arrived, acking, active, broken>>
    BY <1>3 DEF RecordAckNoFile, RecordRejected, svars, server
  <2>3. Stay("task", u)
    <3>1. UNCHANGED tasks \/ tasks' = Append(tasks, Task("discard", w))
      BY <1>3 DEF RecordAckNoFile, RecordRejected
    <3> QED BY <3>1, <1>t, Untaken, TaskPosted
  <2> QED BY <2>1, <2>2, <2>3, <1>q, Untaken
<1>4. ASSUME NEW w \in Uids, RunRequeueRefused(w) PROVE Effect(u)
  <2>1. Stay("task", u)
    BY <1>4, <1>t, TaskTaken DEF RunRequeueRefused
  <2> QED BY <2>1, <1>4, <1>q, Untaken DEF RunRequeueRefused, svars, server
<1>5. CASE DeleteUploadRows
  <2>1. Erasing(u)' <=> Erasing(u)
    BY <1>5, UploadAssumption DEF DeleteUploadRows, Erasing, NoAck
  <2> QED BY <2>1, <1>5, <1>q, Untaken DEF DeleteUploadRows, DeleteByValue, server
<1>6. CASE TakeRaw \/ TakeZip \/ CreateZip \/ WriteZip
  BY <1>6, <1>q, Untaken DEF TakeRaw, TakeZip, CreateZip, WriteZip, svars, server
<1>7. CASE Open
  BY <1>7, <1>q, Untaken DEF Open, RequeueAll, server
<1>8. CASE StoreStep
  <2>1. CallsOf(u)' = CallsOf(u)
    <3>1. ASSUME NEW t \in Threads, Push(t) \/ InsertOk(t) \/ InsertFails(t)
          PROVE  CallsOf(u)' = CallsOf(u)
      BY <3>1, <1>t, SaveKeepsCalls
    <3>2. CASE Load(GameThread) \/ Clear(GameThread)
      BY <3>2, Untaken DEF Load, Clear
    <3> QED BY <1>8, <3>1, <3>2 DEF StoreStep
  <2>2. UNCHANGED uvars
    BY <1>8 DEF StoreStep
  <2> QED BY <2>1, <2>2, <1>q, Untaken DEF uvars, server
<1>9. CASE UNCHANGED vars
  BY <1>9, <1>q, Untaken DEF vars, uvars, svars, server
<1> QED BY <1>1, <1>2, <1>3, <1>4, <1>5, <1>6, <1>7, <1>8, <1>9

\* The handlers of the client's thread.
LEMMA HandleEffect ==
  ASSUME Inv, [Next]_vars, NEW u \in Uids, NEW w \in Uids,
         \/ \E m \in Msgs : RecordAck(w, m)
         \/ FileAccepted(w) \/ FileRejected(w)
  PROVE  Effect(u)
<1>t. TypeOK /\ StorageInv
  BY DEF Inv
<1>1. ASSUME NEW m \in Msgs, RecordAck(w, m) PROVE Effect(u)
  <2>0. /\ Stay("task", u) /\ Stay("job", u) /\ Stay("server", u) /\ Stay("erase", u)
        /\ Stay("answer", u)
    <3>1. AnswersOf(u)' = AnswersOf(u)
      BY <1>1 DEF RecordAck, Receive, AnswersOf, Ack
    <3> QED BY <1>1, <3>1, Untaken DEF RecordAck, server
  <2>1. CallsOf(u)' = CallsOf(u) \cup (IF w = u THEN {WsThread} ELSE {})
    BY <1>1, <1>t, TwoThreads, NextIdBeginsCall DEF RecordAck
  <2>2. active' = active \cup {w} /\ broken' = broken
    BY <1>1 DEF RecordAck
  <2>3. CASE w = u
    <3>1. Enter("call", u)
      <4>1. CallsOf(u)' # {} /\ (CallsOf(u) = {} => Single(CallsOf(u)'))
        BY <2>1, <2>3 DEF Single
      <4> QED BY <4>1 DEF Enter, At, AtOnce, Single
    <3> QED BY <3>1, <2>0, <2>2, <2>3, <1>1 DEF Effect, Starts, Others, Places
  <2>4. CASE w # u
    BY <2>0, <2>1, <2>2, <2>4, Untaken, AllStay, StaysIsKept
  <2> QED BY <2>3, <2>4
<1>2. CASE FileAccepted(w)
  <2>0. /\ UNCHANGED <<call, tasks, jobs, arrived, active, broken>>
        /\ acking = NoAck /\ acking' = [uid |-> w, step |-> "erase"]
        /\ acks' = acks \ {Ack("FILE_OK", w)} /\ Ack("FILE_OK", w) \in acks
    BY <1>2 DEF FileAccepted, Receive, svars, server
  <2>1. /\ Stay("call", u) /\ Stay("task", u) /\ Stay("job", u) /\ Stay("server", u)
    BY <2>0, Untaken
  <2>2. CASE w = u
    <3>1. Enter("erase", u)
      BY <2>0, <2>2 DEF Enter, At, AtOnce, Erasing
    <3>2. Leave("answer", u)
      BY <2>0, <2>2 DEF Leave, At, AtOnce, AnswersOf, Single, Ack
    <3> QED BY <2>0, <2>1, <3>1, <3>2 DEF Effect, Moves, Others, Places
  <2>3. CASE w # u
    <3>1. ~Erasing(u) /\ ~Erasing(u)'
      BY <2>0, <2>3 DEF Erasing, NoAck
    <3>2. AnswersOf(u)' = AnswersOf(u)
      BY <2>0, <2>3 DEF AnswersOf, Ack
    <3> QED BY <2>0, <2>1, <3>1, <3>2, Untaken, AllStay, StaysIsKept
  <2> QED BY <2>2, <2>3
<1>3. CASE FileRejected(w)
  <2>0. /\ UNCHANGED <<call, jobs, arrived, active, acking>>
        /\ acks' = acks \ {Ack("FILE_BAD", w)} /\ Ack("FILE_BAD", w) \in acks
        /\ broken' = broken \cup ({w} \cap active)
        /\ UNCHANGED tasks \/ tasks' = Append(tasks, Task("requeue", w))
    BY <1>3 DEF FileRejected, Receive, svars, server
  <2>1. /\ Stay("call", u) /\ Stay("task", u) /\ Stay("job", u) /\ Stay("server", u)
        /\ Stay("erase", u)
    BY <2>0, <1>t, Untaken, TaskPosted
  <2>2. CASE w = u
    <3>1. Leave("answer", u)
      BY <2>0, <2>2 DEF Leave, At, AtOnce, AnswersOf, Single, Ack
    <3>2. AtOnce("answer", u) => AtOnce("answer", u)'
      BY <3>1, NowhereIsOnce DEF Leave
    <3>3. \A p \in Places : AtOnce(p, u) => AtOnce(p, u)' /\ (At(p, u)' => At(p, u))
      BY <2>1, <3>1, <3>2 DEF Stay, Leave, Places
    <3> QED BY <3>3, <2>0, <2>2 DEF Effect, Keeps
  <2>3. CASE w # u
    <3>1. AnswersOf(u)' = AnswersOf(u)
      BY <2>0, <2>3 DEF AnswersOf, Ack
    <3> QED BY <2>0, <2>1, <3>1, Untaken, AllStay, StaysIsKept
  <2> QED BY <2>2, <2>3
<1> QED BY <1>1, <1>2, <1>3

\* The server's answer to a file.
LEMMA ServerFileEffect ==
  ASSUME Inv, [Next]_vars, NEW u \in Uids, NEW a \in arrived, ServerFile(a)
  PROVE  Effect(u)
<1>0. /\ UNCHANGED <<call, tasks, jobs, active, acking, broken>>
      /\ arrived' = arrived \ {a}
      /\ \/ acks' = acks \cup {Ack("FILE_OK", a.uid)}
         \/ acks' = acks \cup {Ack("FILE_BAD", a.uid)}
  BY DEF ServerFile, svars
<1>1. Stay("call", u) /\ Stay("task", u) /\ Stay("job", u) /\ Stay("erase", u)
  BY <1>0, Untaken
<1>2. CASE a.uid = u
  <2>1. Leave("server", u)
    BY <1>0, <1>2 DEF Leave, At, AtOnce, ArrivedOf, Single
  <2>2. PICK k \in {"FILE_OK", "FILE_BAD"} : acks' = acks \cup {Ack(k, u)}
    BY <1>0, <1>2
  <2>3. AnswersOf(u)' = AnswersOf(u) \cup {Ack(k, u)}
    BY <2>2 DEF AnswersOf, Ack
  <2>4. Enter("answer", u)
    BY <2>3 DEF Enter, At, AtOnce, Single
  <2> QED BY <1>0, <1>1, <2>1, <2>4 DEF Effect, Moves, Others, Places
<1>3. CASE a.uid # u
  <2>1. ArrivedOf(u)' = ArrivedOf(u)
    BY <1>0, <1>3 DEF ArrivedOf
  <2>2. AnswersOf(u)' = AnswersOf(u)
    BY <1>0, <1>3 DEF AnswersOf, Ack
  <2> QED BY <1>0, <1>1, <2>1, <2>2, Untaken, AllStay, StaysIsKept
<1> QED BY <1>2, <1>3

\* The save of the client's thread returns, and the task is posted.
LEMMA RecordAckPostEffect ==
  ASSUME Inv, [Next]_vars, NEW u \in Uids, RecordAckPost
  PROVE  Effect(u)
<1> DEFINE w == TextOf[call[WsThread].msg]
<1>t. TypeOK /\ StorageInv
  BY DEF Inv
<1>0. /\ Return(WsThread)
      /\ UNCHANGED <<jobs, arrived, active, acking, acks>>
      /\ PostTask("upload", w)
  BY DEF RecordAckPost, server
<1>w. w \in Uids /\ WsThread \in CallsOf(w)
  BY <1>0, <1>t, TwoThreads, PostedMessage, ReturnWasCall
<1>1. CallsOf(u)' = CallsOf(u) \ {WsThread}
  BY <1>0, <1>t, TwoThreads, ReturnEndsCall
<1>2. Stay("job", u) /\ Stay("server", u) /\ Stay("answer", u) /\ Stay("erase", u)
  BY <1>0, Untaken
<1>3. CASE w = u
  <2>1. Leave("call", u)
    BY <1>1, <1>w, <1>3 DEF Leave, At, AtOnce, Single
  <2>2. CASE tasks' = Append(tasks, Task("upload", w)) /\ UNCHANGED broken
    <3>1. Enter("task", u)
      BY <2>2, <1>t, <1>w, <1>3, TaskPosted
    <3> HIDE DEF w
    <3> QED BY <2>1, <2>2, <3>1, <1>0, <1>2 DEF Effect, Moves, Others, Places
  <2>3. CASE UNCHANGED tasks /\ broken' = broken \cup ({w} \cap active)
    <3>1. Stay("task", u)
      BY <2>3, Untaken
    <3>2. AtOnce("call", u) => AtOnce("call", u)'
      BY <2>1, NowhereIsOnce DEF Leave
    <3>3. \A p \in Places : AtOnce(p, u) => AtOnce(p, u)' /\ (At(p, u)' => At(p, u))
      BY <1>2, <2>1, <3>1, <3>2 DEF Stay, Leave, Places
    <3> HIDE DEF w
    <3> QED BY <3>3, <2>3, <1>0, <1>3 DEF Effect, Keeps
  <2> QED BY <1>0, <2>2, <2>3 DEF PostTask
<1>4. CASE w # u
  <2>1. CallsOf(u)' = CallsOf(u)
    <3>1. WsThread \notin CallsOf(u)
      BY <1>4 DEF CallsOf
    <3> QED BY <3>1, <1>1
  <2>2. Stay("task", u)
    BY <1>0, <1>t, <1>w, <1>4, Untaken, TaskPosted DEF PostTask
  <2>3. u \in broken => u \in broken'
    BY <1>0 DEF PostTask
  <2> QED BY <2>1, <2>2, <2>3, <1>0, <1>2, Untaken, AllStay, StaysIsKept
<1> QED BY <1>3, <1>4

\* The save of the game thread returns, and the file is handed over.
LEMMA RequeuePostEffect ==
  ASSUME Inv, [Next]_vars, NEW u \in Uids, RequeuePost
  PROVE  Effect(u)
<1> DEFINE w == TextOf[call[GameThread].msg]
<1>t. TypeOK /\ StorageInv
  BY DEF Inv
<1>0. /\ Return(GameThread)
      /\ UNCHANGED <<tasks, arrived, acking, acks, broken>>
      /\ HandOver(w)
  BY DEF RequeuePost, server
<1>w. w \in Uids /\ GameThread \in CallsOf(w)
  BY <1>0, <1>t, TwoThreads, PostedMessage, ReturnWasCall
<1>1. CallsOf(u)' = CallsOf(u) \ {GameThread}
  BY <1>0, <1>t, TwoThreads, ReturnEndsCall
<1>2. Stay("task", u) /\ Stay("server", u) /\ Stay("answer", u) /\ Stay("erase", u)
  BY <1>0, Untaken
<1>h. \/ /\ IF w = u THEN Enter("job", u) ELSE Stay("job", u)
         /\ active' = active \cup {w}
      \/ /\ Stay("job", u)
         /\ active' = active \ {w}
  BY <1>0, <1>w, <1>t, HandOverEffect
<1>3. CASE w = u
  <2>1. Leave("call", u)
    BY <1>1, <1>w, <1>3 DEF Leave, At, AtOnce, Single
  <2>2. CASE Enter("job", u) /\ active' = active \cup {w}
    <3> HIDE DEF w
    <3> QED BY <2>1, <2>2, <1>0, <1>2 DEF Effect, Moves, Others, Places
  <2>3. CASE Stay("job", u) /\ active' = active \ {w}
    <3> HIDE DEF w
    <3> QED BY <2>1, <2>3, <1>0, <1>2, <1>3 DEF Effect, Ends, Others, Places
  <2> QED BY <1>h, <1>3, <2>2, <2>3
<1>4. CASE w # u
  <2>1. CallsOf(u)' = CallsOf(u)
    <3>1. GameThread \notin CallsOf(u)
      BY <1>4 DEF CallsOf
    <3> QED BY <3>1, <1>1
  <2>2. Stay("job", u) /\ (u \in active' <=> u \in active)
    BY <1>h, <1>4
  <2> QED BY <2>1, <2>2, <1>0, <1>2, Untaken, AllStay, StaysIsKept
<1> QED BY <1>3, <1>4

\* The tasks of the game thread.
LEMMA RunTaskEffect ==
  ASSUME Inv, [Next]_vars, NEW u \in Uids, NEW w \in Uids,
         RunUpload(w) \/ (\E m \in Msgs : RunRequeue(w, m)) \/ RunDiscard(w)
  PROVE  Effect(u)
<1>t. TypeOK /\ StorageInv
  BY DEF Inv
<1>1. CASE RunUpload(w)
  <2>0. /\ UNCHANGED <<call, arrived, acking, acks, broken>>
        /\ NextTask("upload", w)
    BY <1>1 DEF RunUpload, svars, server
  <2>1. /\ Stay("call", u) /\ Stay("server", u) /\ Stay("answer", u) /\ Stay("erase", u)
        /\ IF w = u THEN Leave("task", u) ELSE Stay("task", u)
    BY <2>0, <1>t, Untaken, TaskTaken
  <2>2. CASE Len(jobs) < UploadQueueCap
    <3>1. [uid |-> w, ext |-> "krpr"] \in JobSet
      BY DEF JobSet
    <3>2. Enqueue([uid |-> w, ext |-> "krpr"]) /\ active' = active
      BY <1>1, <2>2 DEF RunUpload
    <3>3. IF w = u THEN Enter("job", u) ELSE Stay("job", u)
      BY <3>1, <3>2, <1>t, JobPosted
    <3>4. CASE w = u
      BY <2>0, <2>1, <3>2, <3>3, <3>4 DEF Effect, Moves, Others, Places
    <3>5. CASE w # u
      BY <2>0, <2>1, <3>2, <3>3, <3>5, AllStay, StaysIsKept
    <3> QED BY <3>4, <3>5
  <2>3. CASE ~(Len(jobs) < UploadQueueCap)
    <3>1. Stay("job", u) /\ active' = active \ {w}
      BY <1>1, <2>3, Untaken DEF RunUpload
    <3>2. CASE w = u
      BY <2>0, <2>1, <3>1, <3>2 DEF Effect, Ends, Others, Places
    <3>3. CASE w # u
      BY <2>0, <2>1, <3>1, <3>3, AllStay, StaysIsKept
    <3> QED BY <3>2, <3>3
  <2> QED BY <2>2, <2>3
<1>2. ASSUME NEW m \in Msgs, RunRequeue(w, m) PROVE Effect(u)
  <2>0. /\ UNCHANGED <<jobs, arrived, acking, acks, broken>>
        /\ NextTask("requeue", w)
        /\ w \notin active
        /\ active' = active \cup {w}
    BY <1>2 DEF RunRequeue, server
  <2>1. /\ Stay("task", u) /\ Stay("job", u) /\ Stay("server", u) /\ Stay("answer", u)
        /\ Stay("erase", u)
    BY <2>0, <1>t, Untaken, TaskTaken
  <2>2. CallsOf(u)' = CallsOf(u) \cup (IF w = u THEN {GameThread} ELSE {})
    BY <1>2, <1>t, TwoThreads, NextIdBeginsCall DEF RunRequeue
  <2>3. CASE w = u
    <3>1. Enter("call", u)
      <4>1. CallsOf(u)' # {} /\ (CallsOf(u) = {} => Single(CallsOf(u)'))
        BY <2>2, <2>3 DEF Single
      <4> QED BY <4>1 DEF Enter, At, AtOnce, Single
    <3>2. Requeued(u)
      <4>1. tasks \in Seq(TaskSet) /\ tasks # <<>> /\ Head(tasks) = Task("requeue", u)
        BY <2>0, <2>3, <1>t DEF TypeOK, NextTask
      <4> QED BY <4>1, TailHas DEF Requeued
    <3> QED BY <3>1, <3>2, <2>0, <2>1, <2>3 DEF Effect, Starts, Others, Places
  <2>4. CASE w # u
    BY <2>0, <2>1, <2>2, <2>4, Untaken, AllStay, StaysIsKept
  <2> QED BY <2>3, <2>4
<1>3. CASE RunDiscard(w)
  <2>0. /\ UNCHANGED <<call, jobs, arrived, acking, acks, broken>>
        /\ NextTask("discard", w)
        /\ active' = active \ {w}
    BY <1>3 DEF RunDiscard, DeleteByValue, server
  <2>1. Others({}, u)
    BY <2>0, <1>t, Untaken, TaskTaken, AllStay
  <2>2. CASE w = u
    <3>1. verdict[u] = "rejected"
      <4>1. tasks \in Seq(TaskSet) /\ tasks # <<>> /\ Head(tasks) = Task("discard", u)
        BY <2>0, <2>2, <1>t DEF TypeOK, NextTask
      <4>2. 1 \in DOMAIN tasks /\ tasks[1] = Task("discard", u)
        BY <4>1
      <4> QED BY <4>2 DEF Inv, DiscardIsRejection, Task
    <3> QED BY <3>1, <2>0, <2>1, <2>2 DEF Effect, Discarded
  <2>3. CASE w # u
    BY <2>0, <2>1, <2>3, StaysIsKept
  <2> QED BY <2>2, <2>3
<1> QED BY <1>1, <1>2, <1>3

\* The retry of an upload.
LEMMA RetryEffect ==
  ASSUME Inv, [Next]_vars, NEW u \in Uids, NEW w \in Uids, RetryUpload(w)
  PROVE  Effect(u)
<1>t. TypeOK /\ StorageInv
  BY DEF Inv
<1>0. /\ UNCHANGED <<call, tasks, arrived, acking, acks, broken>>
      /\ Stored(w)
  BY DEF RetryUpload, GiveUp, Resend, server, Stored
<1>1. /\ Stay("call", u) /\ Stay("task", u) /\ Stay("server", u) /\ Stay("answer", u)
      /\ Stay("erase", u)
  BY <1>0, Untaken
<1>2. CASE UNCHANGED <<jobs, worker, active>>
  BY <1>0, <1>1, <1>2, Untaken, AllStay, StaysIsKept
<1>3. CASE w \notin active /\ HandOver(w)
  <2>1. \/ /\ IF w = u THEN Enter("job", u) ELSE Stay("job", u)
           /\ active' = active \cup {w}
        \/ /\ Stay("job", u)
           /\ active' = active \ {w}
    BY <1>3, <1>t, HandOverEffect
  <2>2. CASE w = u /\ Enter("job", u) /\ active' = active \cup {w}
    BY <1>0, <1>1, <1>3, <2>2 DEF Effect, Starts, Others, Places
  <2>3. CASE Stay("job", u) /\ (u \in active' <=> u \in active)
    BY <1>0, <1>1, <2>3, AllStay, StaysIsKept
  <2> QED BY <2>1, <2>2, <2>3, <1>3
<1> QED BY <1>2, <1>3 DEF RetryUpload

\* The clean-up after an accepted file.
LEMMA EraseEffect ==
  ASSUME Inv, [Next]_vars, NEW u \in Uids, EraseUpload
  PROVE  Effect(u)
<1>0. /\ UNCHANGED <<call, tasks, jobs, arrived, acks, broken>>
      /\ acking.step = "erase"
      /\ active' = active \ {acking.uid}
      /\ acking' = [acking EXCEPT !.step = "rows"]
  BY DEF EraseUpload, EraseByValue, server
<1>a. acking \in [uid : Uids \cup {NoUid}, step : {"none", "erase", "rows"}]
  BY DEF Inv, TypeOK
<1>1. /\ Stay("call", u) /\ Stay("task", u) /\ Stay("job", u) /\ Stay("server", u)
      /\ Stay("answer", u)
  BY <1>0, Untaken
<1>2. acking'.step = "rows"
  BY <1>0, <1>a
<1>3. ~Erasing(u)'
  BY <1>2 DEF Erasing
<1>4. Erasing(u) <=> acking.uid = u
  BY <1>0, <1>a DEF Erasing
<1>5. CASE Erasing(u)
  <2>1. Leave("erase", u)
    BY <1>3, <1>5 DEF Leave, At
  <2> QED BY <1>0, <1>1, <1>4, <1>5, <2>1 DEF Effect, Ends, Others, Places
<1>6. CASE ~Erasing(u)
  BY <1>0, <1>1, <1>3, <1>4, <1>6, Untaken, AllStay, StaysIsKept
<1> QED BY <1>5, <1>6

\* The upload thread gives up a job, or has sent its file.
LEMMA WorkerEffect ==
  ASSUME Inv, [Next]_vars, NEW u \in Uids, UploadFails \/ Sent
  PROVE  Effect(u)
<1> DEFINE w == Head(jobs).uid
<1>t. TypeOK
  BY DEF Inv
<1>n. jobs # <<>> /\ jobs' = Tail(jobs)
  BY DEF UploadFails, Sent, Inv, WorkerHasJob
<1>0. UNCHANGED <<call, tasks, acks, acking>>
  BY DEF UploadFails, Sent, svars
<1>1. /\ Stay("call", u) /\ Stay("task", u) /\ Stay("answer", u) /\ Stay("erase", u)
      /\ IF w = u THEN Leave("job", u) ELSE Stay("job", u)
  BY <1>0, <1>n, <1>t, Untaken, JobTaken
<1>2. CASE UploadFails
  <2>1. UNCHANGED <<arrived, broken>> /\ active' = active \ {w}
    BY <1>2 DEF UploadFails, server
  <2>2. Stay("server", u)
    BY <2>1, Untaken
  <2> HIDE DEF w
  <2>3. CASE w = u
    BY <1>1, <2>1, <2>2, <2>3 DEF Effect, Ends, Others, Places
  <2>4. CASE w # u
    BY <1>1, <2>1, <2>2, <2>4, AllStay, StaysIsKept
  <2> QED BY <2>3, <2>4
<1>3. CASE Sent /\ worker.intact
  <2>1. /\ arrived' = arrived \cup {[uid |-> w, whole |-> worker.whole]}
        /\ UNCHANGED <<active, broken>>
    BY <1>3 DEF Sent
  <2>2. CASE w = u
    <3>1. ArrivedOf(u)' = ArrivedOf(u) \cup {[uid |-> w, whole |-> worker.whole]}
      BY <2>1, <2>2 DEF ArrivedOf
    <3> HIDE DEF w
    <3>2. Enter("server", u)
      BY <3>1 DEF Enter, At, AtOnce, Single
    <3> QED BY <1>1, <2>1, <2>2, <3>2 DEF Effect, Moves, Others, Places
  <2>3. CASE w # u
    <3>1. ArrivedOf(u)' = ArrivedOf(u)
      BY <2>1, <2>3 DEF ArrivedOf
    <3> HIDE DEF w
    <3> QED BY <1>1, <2>1, <2>3, <3>1, Untaken, AllStay, StaysIsKept
  <2> QED BY <2>2, <2>3
<1>4. CASE Sent /\ ~worker.intact
  <2>1. UNCHANGED <<arrived, active>> /\ broken' = broken \cup ({w} \cap active)
    BY <1>4 DEF Sent
  <2>2. Stay("server", u)
    BY <2>1, Untaken
  <2> HIDE DEF w
  <2>3. CASE w = u
    <3>1. AtOnce("job", u) => AtOnce("job", u)'
      BY <1>1, <2>3, NowhereIsOnce DEF Leave
    <3>2. \A p \in Places : AtOnce(p, u) => AtOnce(p, u)' /\ (At(p, u)' => At(p, u))
      BY <1>1, <2>2, <2>3, <3>1 DEF Stay, Leave, Places
    <3> QED BY <3>2, <2>1, <2>3 DEF Effect, Keeps
  <2>4. CASE w # u
    BY <1>1, <2>1, <2>2, <2>4, AllStay, StaysIsKept
  <2> QED BY <2>3, <2>4
<1> QED BY <1>2, <1>3, <1>4

\* The link is lost, and with it what was at the server or answered.
LEMMA LostEffect ==
  ASSUME Inv, [Next]_vars, NEW u \in Uids, Lost
  PROVE  Effect(u)
<1>0. /\ UNCHANGED <<call, tasks, jobs, active, acking>>
      /\ acking = NoAck
      /\ arrived' = {} /\ acks' = {}
      /\ broken' = broken \cup {v \in active : AwaitsAnswer(v)}
  BY DEF Lost, svars
<1>1. Stay("call", u) /\ Stay("task", u) /\ Stay("job", u) /\ Stay("erase", u)
  BY <1>0, Untaken
<1>2. ~At("server", u)' /\ ~At("answer", u)'
  BY <1>0 DEF At, ArrivedOf, AnswersOf
<1>3. \A p \in Places : AtOnce(p, u) => AtOnce(p, u)' /\ (At(p, u)' => At(p, u))
  BY <1>1, <1>2, NowhereIsOnce DEF Stay, Places
<1>4. ASSUME u \in active, OnWay(u), ~OnWay(u)' PROVE u \in broken'
  <2>1. \A p \in Places : ~At(p, u)'
    BY <1>4 DEF OnWay
  <2>2. ~At("call", u) /\ ~At("task", u) /\ ~At("job", u)
    BY <2>1, <1>1 DEF Stay, Places
  <2>3. ~At("erase", u)
    BY <2>1, <1>1 DEF Stay, Places
  <2>4. At("server", u) \/ At("answer", u)
    BY <1>4, <2>2, <2>3 DEF OnWay, Places
  <2>5. AwaitsAnswer(u)
    BY <2>4 DEF At, AwaitsAnswer, ArrivedOf, AnswersOf
  <2> QED BY <2>5, <1>4, <1>0
<1> QED BY <1>0, <1>3, <1>4 DEF Effect, Keeps

\* The process dies.
LEMMA DeathEffect ==
  ASSUME NEW u \in Uids, ProcessDies
  PROVE  Effect(u)
<1>1. /\ call' = [t \in Threads |-> Idle]
      /\ tasks' = <<>> /\ jobs' = <<>> /\ arrived' = {} /\ acks' = {}
      /\ acking' = NoAck /\ active' = {}
  BY DEF ProcessDies, Crash
<1>2. CallsOf(u)' = {} /\ ArrivedOf(u)' = {} /\ AnswersOf(u)' = {} /\ ~Erasing(u)'
  BY <1>1 DEF CallsOf, ArrivedOf, AnswersOf, Erasing, NoAck, Idle
<1>3. \A P : ~Has(tasks', P) /\ ~Has(jobs', P)
  BY <1>1 DEF Has
<1>4. ~OnWay(u)'
  BY <1>2, <1>3 DEF OnWay, At
<1> QED BY <1>1, <1>4 DEF Effect, Ends

\* Every step has one of the effects on every upload.
LEMMA StepEffect ==
  ASSUME Inv, [Next]_vars, NEW u \in Uids
  PROVE  Effect(u)
<1>1. ASSUME NEW w \in Uids, Handle(w) PROVE Effect(u)
  BY <1>1, QuietEffect, HandleEffect DEF Handle
<1>2. ASSUME NEW w \in Uids, RunTask(w) PROVE Effect(u)
  BY <1>2, QuietEffect, RunTaskEffect DEF RunTask
<1>3. CASE Worker
  BY <1>3, QuietEffect, WorkerEffect DEF Worker
<1> QED
  BY <1>1, <1>2, <1>3, QuietEffect, ServerFileEffect, RecordAckPostEffect,
     RequeuePostEffect, RetryEffect, EraseEffect, LostEffect, DeathEffect DEF Next

\* Only a rejected file leaves a task that is to upload it again.
LEMMA RequeuedStep ==
  ASSUME Inv, [Next]_vars, NEW u \in Uids, ~Requeued(u), ~OnWay(u)
  PROVE  ~Requeued(u)'
<1> DEFINE P == {Task("requeue", u)}
<1>t. tasks \in Seq(TaskSet) /\ StorageInv
  BY DEF Inv, TypeOK
<1>1. CASE UNCHANGED tasks
  BY <1>1 DEF Requeued
<1>2. ASSUME NEW k, NEW w \in Uids, NextTask(k, w) PROVE ~Requeued(u)'
  BY <1>2, <1>t, TailHas DEF NextTask, Requeued
<1>3. ASSUME NEW k \in {"upload", "discard"}, NEW w \in Uids,
             tasks' = Append(tasks, Task(k, w))
      PROVE  ~Requeued(u)'
  <2>1. Task(k, w) \in TaskSet /\ Task(k, w) \notin P
    BY TaskIsTyped DEF Task
  <2> QED BY <2>1, <1>3, <1>t, AppendHas DEF Requeued
<1>4. ASSUME NEW w \in Uids, FileRejected(w) PROVE ~Requeued(u)'
  <2>1. w # u
    <3>1. At("answer", w)
      BY <1>4 DEF FileRejected, Receive, At, AnswersOf, Ack
    <3> QED BY <3>1 DEF OnWay, Places
  <2>2. Task("requeue", w) \in TaskSet /\ Task("requeue", w) \notin P
    BY <2>1, TaskIsTyped DEF Task
  <2>3. UNCHANGED tasks \/ tasks' = Append(tasks, Task("requeue", w))
    BY <1>4 DEF FileRejected
  <2>4. CASE tasks' = Append(tasks, Task("requeue", w))
    BY <2>2, <2>4, <1>t, AppendHas DEF Requeued
  <2> QED BY <2>3, <2>4, <1>1
<1>5. ASSUME NEW w \in Uids, Handle(w) PROVE ~Requeued(u)'
  <2>1. CASE RecordRejected(w)
    BY <2>1, <1>1, <1>3 DEF RecordRejected
  <2>2. CASE (\E m \in Msgs : RecordAck(w, m)) \/ RecordAckNoFile(w) \/ FileAccepted(w)
    BY <2>2, <1>1 DEF RecordAck, RecordAckNoFile, FileAccepted
  <2> QED BY <1>4, <1>5, <2>1, <2>2 DEF Handle
<1>6. ASSUME NEW w \in Uids, RunTask(w) PROVE ~Requeued(u)'
  BY <1>6, <1>2 DEF RunTask, RunUpload, RunRequeue, RunRequeueRefused, RunDiscard
<1>7. CASE RecordAckPost
  <2>1. TextOf[call[WsThread].msg] \in Uids
    BY <1>7, <1>t, PostedMessage, TwoThreads DEF RecordAckPost
  <2> QED BY <2>1, <1>7, <1>1, <1>3 DEF RecordAckPost, PostTask
<1>8. CASE ProcessDies
  BY <1>8 DEF ProcessDies, Requeued, Has
<1>9. ASSUME NEW w \in Uids, Finish(w) \/ ServerRecord(w) \/ RetryUpload(w)
      PROVE  UNCHANGED tasks
  BY <1>9 DEF Finish, ServerRecord, RetryUpload
<1>10. ASSUME NEW a \in arrived, ServerFile(a) PROVE UNCHANGED tasks
  BY <1>10 DEF ServerFile
<1>11. ASSUME \/ RequeuePost \/ EraseUpload \/ DeleteUploadRows \/ Worker
              \/ Open \/ Lost \/ StoreStep \/ UNCHANGED vars
       PROVE  UNCHANGED tasks
  BY <1>11 DEF RequeuePost, EraseUpload, DeleteUploadRows, Worker, TakeRaw, TakeZip,
     CreateZip, WriteZip, UploadFails, Sent, Open, Lost, StoreStep, vars, uvars
<1> QED BY <1>1, <1>5, <1>6, <1>7, <1>8, <1>9, <1>10, <1>11 DEF Next

(***************************************************************************)
(* The effects keep the invariant.                                         *)
(***************************************************************************)
\* What is on its way of an active upload stays on its way, or is broken.
LEMMA ActiveStep ==
  ASSUME Inv, ActiveIsOnItsWay, [Next]_vars
  PROVE  ActiveIsOnItsWay'
<1>t. TypeOK /\ TypeOK'
  BY TypeStep DEF Inv
<1>p. TypeOK' => (\A u \in Uids : OnWay(u) <=> Queued(u) \/ AwaitsAnswer(u))'
  BY PlacesAreThose, PTL
<1> SUFFICES ASSUME NEW u \in Uids, u \in active' PROVE OnWay(u)' \/ u \in broken'
  BY <1>t, <1>p DEF ActiveIsOnItsWay, TypeOK
<1>1. u \in active => OnWay(u) \/ u \in broken
  BY <1>t, PlacesAreThose DEF ActiveIsOnItsWay
<1>e. Effect(u)
  BY StepEffect
<1>2. CASE Keeps(u)
  BY <1>1, <1>2, <1>e DEF Keeps, Effect
<1>3. CASE Moves(u)
  BY <1>3 DEF Moves, Enter, OnWay
<1>4. CASE Ends(u)
  BY <1>4 DEF Ends
<1>5. CASE Starts(u)
  BY <1>5 DEF Starts, Enter, OnWay
<1>6. CASE Discarded(u)
  BY <1>6 DEF Discarded
<1> QED BY <1>e, <1>2, <1>3, <1>4, <1>5, <1>6 DEF Effect

\* The server sees a record once per submission, and acknowledges it then only.
LEMMA SubmissionsStep ==
  ASSUME Inv, [Next]_vars, NEW u \in Uids
  PROVE  /\ sends[u] \in Nat /\ sends'[u] \in Nat
         /\ sends'[u] = sends[u] \/ (ServerRecord(u) /\ sends'[u] = sends[u] + 1)
         /\ Ack("RECORD_ACK", u) \in acks' /\ Ack("RECORD_ACK", u) \notin acks
              => ServerRecord(u) /\ verdict'[u] = "accepted"
<1>t. sends \in [Uids -> Nat] /\ sends' \in [Uids -> Nat]
      /\ verdict \in [Uids -> {"none", "accepted", "rejected"}]
  BY TypeStep DEF Inv, TypeOK
<1>1. ASSUME NEW w \in Uids, ServerRecord(w)
      PROVE  /\ sends'[u] = sends[u] \/ (w = u /\ sends'[u] = sends[u] + 1)
             /\ Ack("RECORD_ACK", u) \in acks' /\ Ack("RECORD_ACK", u) \notin acks
                  => w = u /\ verdict'[u] = "accepted"
  <2>1. PICK v \in {"accepted", "rejected"} :
          /\ verdict' = [verdict EXCEPT ![w] = v]
          /\ acks' = acks \cup {Ack(IF v = "accepted" THEN "RECORD_ACK" ELSE "ERROR", w)}
    BY <1>1 DEF ServerRecord
  <2>2. sends' = [sends EXCEPT ![w] = @ + 1]
    BY <1>1 DEF ServerRecord
  <2>3. sends'[u] = sends[u] \/ (w = u /\ sends'[u] = sends[u] + 1)
    BY <2>2, <1>t
  <2>4. Ack("RECORD_ACK", u) \in acks' /\ Ack("RECORD_ACK", u) \notin acks
          => w = u /\ v = "accepted"
    BY <2>1 DEF Ack
  <2> QED BY <2>1, <2>3, <2>4, <1>t
<1>2. ASSUME NEW a \in arrived, ServerFile(a)
      PROVE  /\ UNCHANGED sends
             /\ Ack("RECORD_ACK", u) \in acks' => Ack("RECORD_ACK", u) \in acks
  BY <1>2 DEF ServerFile, Ack, count
<1>3. ASSUME NEW w \in Uids, Finish(w) \/ Handle(w) \/ RunTask(w) \/ RetryUpload(w)
      PROVE  UNCHANGED sends /\ acks' \subseteq acks
  BY <1>3 DEF Finish, Handle, RecordAck, RecordAckNoFile, FileAccepted, FileRejected,
     RecordRejected, Receive, RunTask, RunUpload, RunRequeue, RunRequeueRefused,
     RunDiscard, RetryUpload, count
<1>4. ASSUME RecordAckPost \/ RequeuePost \/ EraseUpload \/ DeleteUploadRows \/ Worker
      PROVE  UNCHANGED sends /\ acks' \subseteq acks
  BY <1>4 DEF RecordAckPost, RequeuePost, EraseUpload, DeleteUploadRows, Worker,
     TakeRaw, TakeZip, CreateZip, WriteZip, UploadFails, Sent, count
<1>5. ASSUME Open \/ Lost \/ StoreStep \/ ProcessDies \/ UNCHANGED vars
      PROVE  UNCHANGED sends /\ acks' \subseteq acks
  BY <1>5 DEF Open, Lost, StoreStep, ProcessDies, vars, uvars, count
<1>6. sends[u] \in Nat /\ sends'[u] \in Nat
  BY <1>t
<1>7. \/ UNCHANGED sends /\ acks' \subseteq acks
      \/ \E w \in Uids : ServerRecord(w)
      \/ \E a \in arrived : ServerFile(a)
  BY <1>3, <1>4, <1>5 DEF Next
<1> QED BY <1>1, <1>2, <1>6, <1>7

\* Nothing of an upload appears but by its RECORD_ACK.
LEMMA UntouchedStep ==
  ASSUME Inv, [Next]_vars, NEW u \in Uids, Untouched(u),
         \A m \in Msgs : ~RecordAck(u, m)
  PROVE  Untouched(u)'
<1>0. ~OnWay(u) /\ ~Stored(u) /\ ~Requeued(u)
  BY DEF Untouched
<1>1. ~Requeued(u)'
  BY <1>0, RequeuedStep
<1>2. ~Stored(u)'
  <2>1. CallsOf(u) = {}
    BY <1>0 DEF OnWay, At, Places
  <2> QED BY <2>1, <1>0, StoredFromCall, StepIsStorageStep DEF Inv
<1>3. ~OnWay(u)'
  <2>e. Effect(u)
    BY StepEffect
  <2>1. CASE Keeps(u)
    BY <2>1, <1>0, NowhereIsOnce DEF Keeps, OnWay
  <2>2. CASE Moves(u)
    BY <2>2, <1>0 DEF Moves, Leave, OnWay
  <2>3. CASE Ends(u)
    BY <2>3, <1>0 DEF Ends, Leave, OnWay
  <2>4. CASE Starts(u)
    BY <2>4, <1>0 DEF Starts
  <2>5. CASE Discarded(u)
    BY <2>5, <1>0 DEF Discarded, Others, Stay, OnWay
  <2> QED BY <2>e, <2>1, <2>2, <2>3, <2>4, <2>5 DEF Effect
<1> QED BY <1>1, <1>2, <1>3 DEF Untouched

\* A record is acknowledged for the first time while there is nothing of its upload.
LEMMA NothingBeforeAckStep ==
  ASSUME Inv, NothingBeforeAck, [Next]_vars
  PROVE  NothingBeforeAck'
<1> DEFINE Acked(u) == Ack("RECORD_ACK", u) \in acks
           AckedNext(u) == Ack("RECORD_ACK", u) \in acks'
<1> SUFFICES ASSUME NEW u \in Uids
             PROVE  /\ sends'[u] = 0 => ~AckedNext(u)
                    /\ sends'[u] <= 1 /\ (sends'[u] = 0 \/ AckedNext(u))
                         => Untouched(u)'
  BY DEF NothingBeforeAck, Ack
<1>s. /\ sends[u] \in Nat /\ sends'[u] \in Nat
      /\ sends'[u] = sends[u] \/ (ServerRecord(u) /\ sends'[u] = sends[u] + 1)
      /\ AckedNext(u) /\ ~Acked(u) => ServerRecord(u)
  BY SubmissionsStep
<1>i. /\ sends[u] = 0 => ~Acked(u)
      /\ sends[u] <= 1 /\ (sends[u] = 0 \/ Acked(u)) => Untouched(u)
  BY DEF NothingBeforeAck
<1>r. ServerRecord(u) => sends'[u] = sends[u] + 1
  BY DEF ServerRecord, Inv, TypeOK
<1>a. ASSUME NEW m \in Msgs, RecordAck(u, m)
      PROVE  Acked(u) /\ ~AckedNext(u) /\ sends' = sends
  BY <1>a DEF RecordAck, Receive, count
<1> HIDE DEF Acked, AckedNext
<1>1. sends'[u] = 0 => ~AckedNext(u)
  BY <1>s, <1>i, <1>r
<1>2. ASSUME sends'[u] <= 1, sends'[u] = 0 \/ AckedNext(u) PROVE Untouched(u)'
  <2>1. Untouched(u)
    BY <1>2, <1>s, <1>i, <1>r
  <2>2. \A m \in Msgs : ~RecordAck(u, m)
    BY <1>a, <1>2, <1>s, <1>i
  <2> QED BY <2>1, <2>2, UntouchedStep
<1> QED BY <1>1, <1>2

\* Only an accepted record has an upload.
LEMMA AcceptedStep ==
  ASSUME Inv, UploadIsOfAccepted, [Next]_vars
  PROVE  UploadIsOfAccepted'
<1> SUFFICES ASSUME NEW u \in Uids, Ack("RECORD_ACK", u) \in acks' \/ ~Untouched(u)'
             PROVE  verdict'[u] = "accepted"
  BY DEF UploadIsOfAccepted, Ack
<1>1. CASE verdict[u] = "accepted"
  BY <1>1, StepVerdicts DEF VerdictsStand
<1>2. CASE verdict[u] # "accepted"
  <2>1. Ack("RECORD_ACK", u) \notin acks /\ Untouched(u)
    BY <1>2 DEF UploadIsOfAccepted
  <2>2. \A m \in Msgs : ~RecordAck(u, m)
    BY <2>1 DEF RecordAck, Receive
  <2>3. Ack("RECORD_ACK", u) \in acks'
    BY <2>1, <2>2, UntouchedStep
  <2> QED BY <2>1, <2>3, SubmissionsStep
<1> QED BY <1>1, <1>2

\* An upload that is nowhere is alone; so is one that is at one place, once.
LEMMA AloneAt ==
  ASSUME NEW u, NEW p \in Places,
         AtOnce(p, u)', \A q \in Places \ {p} : ~At(q, u)'
  PROVE  Alone(u)'
  BY NowhereIsOnce DEF Alone

\* The effects keep an upload that is acknowledged once alone, and active.
LEMMA OnePlaceStep ==
  ASSUME Inv, NothingBeforeAck, UploadIsOfAccepted, OnePlace, [Next]_vars
  PROVE  OnePlace'
<1> SUFFICES ASSUME NEW u \in Uids, sends'[u] <= 1
             PROVE  Alone(u)' /\ (OnWay(u)' => u \in active')
  BY DEF OnePlace
<1>s. sends[u] <= 1
  BY SubmissionsStep
<1>i. Alone(u) /\ (OnWay(u) => u \in active)
  BY <1>s DEF OnePlace
<1>n. ASSUME ~OnWay(u)' PROVE Alone(u)'
  BY <1>n, NowhereIsOnce DEF OnWay, Alone
<1>e. Effect(u)
  BY StepEffect
<1>1. CASE Keeps(u)
  BY <1>1, <1>i DEF Keeps, Alone, OnWay
<1>2. CASE Moves(u)
  <2>1. PICK p, q \in Places :
          p # q /\ Leave(p, u) /\ Enter(q, u) /\ Others({p, q}, u)
    BY <1>2 DEF Moves
  <2>2. /\ At(p, u) /\ ~At(p, u)'
        /\ \A r \in Places \ {p} : ~At(r, u)
    BY <2>1, <1>i DEF Leave, Alone
  <2>3. \A r \in Places \ {q} : ~At(r, u)'
    BY <2>1, <2>2 DEF Others, Stay
  <2>4. AtOnce(q, u)'
    BY <2>1, <2>2 DEF Enter
  <2>5. u \in active'
    BY <2>2, <1>i, <1>2 DEF Moves, OnWay
  <2> QED BY <2>3, <2>4, <2>5, AloneAt
<1>3. CASE Ends(u)
  <2>1. ASSUME NEW p \in Places, Leave(p, u), Others({p}, u) PROVE ~OnWay(u)'
    BY <2>1, <1>i DEF Leave, Others, Stay, Alone, OnWay
  <2> QED BY <2>1, <1>3, <1>n DEF Ends
<1>4. CASE Starts(u)
  <2>1. PICK p \in Places : Enter(p, u) /\ Others({p}, u)
    BY <1>4 DEF Starts
  <2>2. ~OnWay(u)
    <3>1. ASSUME NEW m \in Msgs, RecordAck(u, m) PROVE ~OnWay(u)
      <4>1. Ack("RECORD_ACK", u) \in acks
        BY <3>1 DEF RecordAck, Receive
      <4> QED BY <4>1, <1>s DEF NothingBeforeAck, Untouched
    <3>2. CASE u \notin active
      BY <3>2, <1>i
    <3> QED BY <3>1, <3>2, <1>4 DEF Starts
  <2>3. \A q \in Places \ {p} : ~At(q, u)'
    BY <2>1, <2>2 DEF Others, Stay, OnWay
  <2>4. AtOnce(p, u)'
    BY <2>1, <2>2 DEF Enter, OnWay
  <2> QED BY <2>3, <2>4, <1>4, AloneAt DEF Starts
<1>5. CASE Discarded(u)
  <2>1. Untouched(u)
    BY <1>5 DEF Discarded, UploadIsOfAccepted
  <2>2. ~OnWay(u)'
    BY <2>1, <1>5 DEF Untouched, OnWay, Discarded, Others, Stay
  <2> QED BY <2>2, <1>n
<1> QED BY <1>e, <1>1, <1>2, <1>3, <1>4, <1>5 DEF Effect

\* In the beginning there is nothing of any upload.
LEMMA WayInit == Init => WayInv
<1> SUFFICES ASSUME Init PROVE WayInv
  OBVIOUS
<1>1. ASSUME NEW u PROVE ~OnWay(u) /\ Untouched(u) /\ Alone(u)
  <2>1. /\ CallsOf(u) = {} /\ ArrivedOf(u) = {} /\ AnswersOf(u) = {} /\ ~Erasing(u)
        /\ \A P : ~Has(tasks, P) /\ ~Has(jobs, P)
    BY DEF Init, StorageInit, CallsOf, ArrivedOf, AnswersOf, Erasing, NoAck, Idle, Has
  <2>2. \A p \in Places : ~At(p, u)
    BY <2>1 DEF At
  <2>3. ~Stored(u) /\ ~Requeued(u)
    BY <2>1 DEF Init, StorageInit, Stored, Requeued
  <2> QED BY <2>2, <2>3, NowhereIsOnce DEF OnWay, Untouched, Alone
<1>2. active = {} /\ acks = {}
  BY DEF Init
<1> QED
  BY <1>1, <1>2 DEF WayInv, ActiveIsOnItsWay, NothingBeforeAck, UploadIsOfAccepted, OnePlace

\* The strengthening holds in every reachable state.
LEMMA WayInvariant == Spec => [](Inv /\ WayInv)
<1>1. Inv /\ WayInv /\ [Next]_vars => (Inv /\ WayInv)'
  BY UploadStepInv, ActiveStep, NothingBeforeAckStep, AcceptedStep, OnePlaceStep DEF WayInv
<1>2. Init => Inv /\ WayInv
  BY UploadInitInv, WayInit
<1> QED BY <1>1, <1>2, PTL DEF Spec

\* A set without two members has at most one.
LEMMA SingleCardinality ==
  ASSUME NEW S, Single(S)
  PROVE  Cardinality(S) \in {0, 1} /\ (S = {} => Cardinality(S) = 0)
<1>1. CASE S = {}
  BY <1>1, FS_EmptySet
<1>2. CASE S # {}
  <2>1. PICK x : x \in S
    BY <1>2
  <2>2. S = {x}
    BY <2>1 DEF Single
  <2> QED BY <2>2, FS_Singleton
<1> QED BY <1>1, <1>2

\* An upload that is alone is one job or one task.
LEMMA AloneIsOne ==
  ASSUME TypeOK, NEW u \in Uids, Alone(u)
  PROVE  Cardinality({i \in DOMAIN jobs : jobs[i].uid = u})
           + Cardinality({i \in DOMAIN tasks : tasks[i] = Task("upload", u)}) <= 1
<1> DEFINE J == {i \in DOMAIN jobs : jobs[i].uid = u}
           T == {i \in DOMAIN tasks : tasks[i] = Task("upload", u)}
<1>1. \A i \in DOMAIN jobs : jobs[i] \in JobSet
  BY DEF TypeOK
<1>2. Single(J)
  <2>1. Once(jobs, JobsOf(u))
    BY DEF Alone, AtOnce, Places
  <2> QED BY <2>1, <1>1 DEF Once, Single, JobsOf
<1>3. Single(T)
  <2>1. Once(tasks, UploadTask(u))
    BY DEF Alone, AtOnce, Places
  <2> QED BY <2>1 DEF Once, Single, UploadTask
<1>4. J = {} \/ T = {}
  <2>1. ~At("job", u) \/ ~At("task", u)
    BY DEF Alone, Places
  <2>2. J # {} => At("job", u)
    BY <1>1 DEF At, Has, JobsOf
  <2>3. T # {} => At("task", u)
    BY DEF At, Has, UploadTask
  <2> QED BY <2>1, <2>2, <2>3
<1> HIDE DEF J, T
<1>5. /\ Cardinality(J) \in {0, 1} /\ (J = {} => Cardinality(J) = 0)
      /\ Cardinality(T) \in {0, 1} /\ (T = {} => Cardinality(T) = 0)
  BY <1>2, <1>3, SingleCardinality
<1>6. Cardinality(J) + Cardinality(T) <= 1
  BY <1>4, <1>5
<1> QED BY <1>6 DEF J, T

(***************************************************************************)
(* The pipeline refines the store: each of its steps is one atomic piece   *)
(* of a call of kz_storage.cpp, or none.                                   *)
(***************************************************************************)
THEOREM PipelineUsesTheStore == Spec => StorageSpec
<1>1. Init => StorageInit
  BY DEF Init
<1>2. Inv /\ [Next]_vars => [StorageNext]_svars
  BY StepIsStorageStep
<1> QED BY <1>1, <1>2, Invariant, PTL DEF Spec, StorageSpec

(***************************************************************************)
(* In the pipeline too, neither a map change nor a used-up retry of some   *)
(* other message takes an upload with retries left out of line.            *)
(***************************************************************************)
THEOREM PipelineKeepsUploadsInLine == Spec => UploadsStayInLine
  BY PipelineUsesTheStore, UploadsStay

(***************************************************************************)
(* A replay that g_active_uploads blocks is on its way or one of those     *)
(* whose answer was "no" or got lost, for any number of replays, duplicate *)
(* acknowledgements and losses.                                            *)
(***************************************************************************)
THEOREM ActiveUploadsAreOnTheirWay == Spec => []ActiveIsOnItsWay
  BY WayInvariant, PTL DEF WayInv

(***************************************************************************)
(* A replay whose record is acknowledged once is in one job or one task at *)
(* most, whatever the retries and the requeues do.                         *)
(***************************************************************************)
THEOREM UploadsDoNotMultiply == Spec => []OneUploadAtATime
<1>1. Inv /\ WayInv => OneUploadAtATime
  BY AloneIsOne DEF Inv, WayInv, OnePlace, OneUploadAtATime
<1> QED BY <1>1, WayInvariant, PTL
=============================================================================
