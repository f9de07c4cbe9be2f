---------------------------- MODULE OutboxProofs ----------------------------
(***************************************************************************)
(* Delivery, for any threads, messages and bounds: a stored record stays   *)
(* on disk until it is answered, and the outbox implements Mailbox.        *)
(***************************************************************************)
EXTENDS Outbox, StorageProofs

USE OutboxAssumption

(***************************************************************************)
(* The strengthening: a frame carries its message's id, so an answer names *)
(* an id of an answered message, and so does the delete it sets off.       *)
(***************************************************************************)
AnsweredId(i) == i # 0 /\ \E m \in answered : idOf[m] = i

FramesSound ==
  /\ \A f \in net : f.id # 0 /\ idOf[f.msg] = f.id
  /\ \A k \in DOMAIN outq : outq[k].id # 0 /\ idOf[outq[k].msg] = outq[k].id

RepliesSound == \A i \in replies : AnsweredId(i)

WsDeletesAnswered ==
  /\ call[WsThread].op # "delete_all"
  /\ call[WsThread].op = "delete" => AnsweredId(call[WsThread].id)

Inv ==
  /\ TypeOK
  /\ StorageInv
  /\ FramesSound
  /\ RepliesSound
  /\ WsDeletesAnswered
  /\ KeptUntilAnswered

\* What a step of the store may do to ids: none but a fresh message gets one,
\* and only a crash takes one away.
IdsKept == \A m \in Msgs : idOf[m] # 0 => idOf'[m] = idOf[m]

\* The initial states satisfy the invariant.
LEMMA OutboxInitInv == Init => Inv
<1> SUFFICES ASSUME Init PROVE Inv
  OBVIOUS
<1>1. StorageInv
  BY StorageInitInv DEF Init
<1>2. TypeOK
  BY <1>1 DEF Init, TypeOK, StorageInv
<1>3. FramesSound /\ RepliesSound
  BY DEF Init, FramesSound, RepliesSound
<1>4. WsDeletesAnswered /\ KeptUntilAnswered
  BY IdleIsCall DEF Init, StorageInit, WsDeletesAnswered, KeptUntilAnswered
<1> QED BY <1>1, <1>2, <1>3, <1>4 DEF Inv

(***************************************************************************)
(* Every step of the composition is a step of the store or leaves it be.   *)
(***************************************************************************)
LEMMA StepIsStorageStep ==
  ASSUME Inv, [Next]_vars
  PROVE  [StorageNext]_svars
<1>0. GameThread \in Threads /\ WsThread \in Threads /\ "outgoing_queue" \in Tables
  BY StorageAssumption DEF Tables
<1>1. CASE StoreStep
  BY <1>1, <1>0 DEF StoreStep, StorageNext
<1>2. CASE AdminRequeue \/ AdminDelete \/ AdminDeleteRows
  BY <1>2, <1>0 DEF AdminRequeue, AdminDelete, AdminDeleteRows, StorageNext
<1>3. CASE \E t \in Threads : Post(t)
  BY <1>3 DEF Post, StorageNext
<1>4. CASE SendQueued
  BY <1>4 DEF SendQueued
<1>5. CASE \E m \in Msgs : Retry(m)
  BY <1>5 DEF Retry, RetryEntry, StorageNext
<1>6. CASE \E f \in net : Answer(f)
  BY <1>6 DEF Answer
<1>7. ASSUME NEW id \in replies, HandleReply(id) PROVE [StorageNext]_svars
  <2>1. CASE UNCHANGED svars
    BY <2>1
  <2>2. CASE EraseEntry(WsThread, "outgoing_queue", id)
    <3>1. PICK m \in Msgs : idOf[m] # 0 /\ idOf[m] = id
      BY DEF Inv, RepliesSound, AnsweredId, TypeOK
    <3>2. TableOf[m] = "outgoing_queue"
      OBVIOUS
    <3> QED BY <3>1, <3>2, <2>2, <1>0 DEF StorageNext
  <2> QED BY <2>1, <2>2, <1>7 DEF HandleReply
<1>8. CASE Open
  BY <1>8, <1>0 DEF Open, StorageNext
<1>9. CASE Lost
  BY <1>9 DEF Lost
<1>10. CASE ProcessDies
  BY <1>10 DEF ProcessDies, StorageNext
<1>11. CASE UNCHANGED vars
  BY <1>11 DEF vars
<1> QED BY <1>1, <1>2, <1>3, <1>4, <1>5, <1>6, <1>7, <1>8, <1>9, <1>10, <1>11 DEF Next

\* Ids, and the marks on them, survive every step but the process's death.
History == IdsKept /\ clashed \subseteq clashed' /\ stored \subseteq stored'

\* Handing out an id gives a message without a row its id and can only add clashes.
LEMMA GetNextIdHistory ==
  ASSUME StorageInv, NEW t \in Threads, NEW m \in Msgs, GetNextId(t, m)
  PROVE  History
<1>1. \A n \in Msgs : n # m => idOf'[n] = idOf[n]
  BY DEF GetNextId, StorageInv, StorageTypeOK
<1>2. idOf[m] = 0 /\ clashed \subseteq clashed' /\ stored' = stored
  BY DEF GetNextId
<1> QED BY <1>1, <1>2 DEF History, IdsKept

\* Steps that touch neither ids nor clashes keep the history.
LEMMA SameIdsHistory ==
  ASSUME UNCHANGED <<idOf, clashed>>, stored \subseteq stored'
  PROVE  History
  BY DEF History, IdsKept

\* No step takes an id back from a stored message.
LEMMA StepHistory ==
  ASSUME StorageInv, [Next]_vars, ~ProcessDies
  PROVE  History
<1>1. CASE StoreStep
  <2>1. ASSUME NEW t \in Threads, Push(t) \/ InsertOk(t) \/ InsertFails(t)
        PROVE  History
    BY <2>1, SameIdsHistory DEF Push, InsertOk, InsertFails
  <2>2. ASSUME Load(GameThread) \/ Clear(GameThread) \/ DeleteRows(WsThread)
        PROVE  History
    BY <2>2, SameIdsHistory DEF Load, Clear, DeleteRows
  <2> QED BY <2>1, <2>2, <1>1, GetNextIdHistory DEF StoreStep
<1>2. CASE AdminRequeue \/ AdminDelete \/ AdminDeleteRows
  BY <1>2, SameIdsHistory DEF AdminRequeue, AdminDelete, AdminDeleteRows,
     RequeueAll, RequeueId, EraseEntry, EraseTable, DeleteRows
<1>3. CASE \E t \in Threads : Post(t)
  BY <1>3, SameIdsHistory DEF Post, Return
<1>4. CASE SendQueued \/ (\E f \in net : Answer(f)) \/ Lost \/ UNCHANGED vars
  BY <1>4, SameIdsHistory DEF SendQueued, Answer, Lost, vars, svars
<1>5. CASE \E m \in Msgs : Retry(m)
  BY <1>5, SameIdsHistory DEF Retry, RetryEntry, GiveUp, Resend
<1>6. CASE \E id \in replies : HandleReply(id)
  BY <1>6, SameIdsHistory DEF HandleReply, EraseEntry, svars
<1>7. CASE Open
  BY <1>7, SameIdsHistory DEF Open, RequeueAll
<1> QED BY <1>1, <1>2, <1>3, <1>4, <1>5, <1>6, <1>7 DEF Next

\* An answered id stays an answered id.
LEMMA AnsweredIdStays ==
  ASSUME Inv, History, answered \subseteq answered', NEW i, AnsweredId(i)
  PROVE  AnsweredId(i)'
<1>1. PICK m \in answered : idOf[m] = i
  BY DEF AnsweredId
<1>2. m \in Msgs /\ i # 0
  BY DEF Inv, TypeOK, AnsweredId
<1> QED BY <1>1, <1>2 DEF AnsweredId, History, IdsKept

\* A step keeps the types of the link.
LEMMA TypeStep ==
  ASSUME Inv, [Next]_vars
  PROVE  TypeOK'
<1>1. StorageTypeOK'
  BY StepIsStorageStep, StorageStepInv DEF Inv, StorageInv
<1>2. /\ link \in {"up", "down"} /\ outq \in Seq(Frame) /\ net \subseteq Frame
      /\ replies \subseteq Nat /\ losses \in Nat /\ crashes \in Nat
      /\ answered \subseteq Msgs /\ purged \subseteq Msgs
  BY DEF Inv, TypeOK
<1>3. CASE UNCHANGED wvars
  BY <1>1, <1>2, <1>3 DEF wvars, TypeOK
<1>4. CASE StoreStep \/ AdminRequeue \/ AdminDelete \/ UNCHANGED vars
  BY <1>3, <1>4 DEF StoreStep, AdminRequeue, AdminDelete, vars
<1>5. CASE AdminDeleteRows
  <2>1. rows \subseteq Row
    BY DEF Inv, StorageInv, StorageTypeOK
  <2> QED BY <1>1, <1>2, <1>5, <2>1 DEF AdminDeleteRows, TypeOK, Row
<1>6. ASSUME NEW t \in Threads, Post(t) PROVE TypeOK'
  <2>1. FrameOf(call[t]) \in Frame
    BY <1>6 DEF Inv, StorageInv, StorageTypeOK, CallsSound, Saving, Post, Return,
       FrameOf, Frame, Call
  <2> QED BY <1>1, <1>2, <1>6, <2>1 DEF Post, Send, TypeOK
<1>7. CASE SendQueued
  <2>1. Head(outq) \in Frame /\ Tail(outq) \in Seq(Frame)
    BY <1>2, <1>7 DEF SendQueued
  <2> QED BY <1>1, <1>2, <1>7, <2>1 DEF SendQueued, Send, TypeOK
<1>8. ASSUME NEW e \in retryQ, RetryEntry(e) PROVE TypeOK'
  <2>1. FrameOf(e) \in Frame
    BY DEF Inv, StorageInv, StorageTypeOK, FrameOf, Frame, Entry
  <2> QED BY <1>1, <1>2, <1>8, <2>1 DEF RetryEntry, Send, TypeOK
<1>9. ASSUME NEW f \in net, Answer(f) PROVE TypeOK'
  BY <1>1, <1>2, <1>9 DEF Answer, TypeOK, Frame
<1>10. ASSUME NEW id \in replies, HandleReply(id) PROVE TypeOK'
  BY <1>1, <1>2, <1>10 DEF HandleReply, TypeOK
<1>11. CASE Open
  BY <1>1, <1>2, <1>11 DEF Open, TypeOK
<1>12. CASE Lost
  BY <1>1, <1>2, <1>12 DEF Lost, TypeOK
<1>13. CASE ProcessDies
  <2>1. outq' \in Seq(Frame) /\ net' \subseteq Frame /\ replies' \subseteq Nat
    BY <1>13 DEF ProcessDies
  <2> QED BY <1>1, <1>2, <1>13, <2>1 DEF ProcessDies, TypeOK
<1> QED
  BY <1>4, <1>5, <1>6, <1>7, <1>8, <1>9, <1>10, <1>11, <1>12, <1>13 DEF Next, Retry

\* A step keeps frames carrying the id of the message they hold.
LEMMA FramesStep ==
  ASSUME Inv, [Next]_vars
  PROVE  FramesSound'
<1> DEFINE Sound(f) == f.id # 0 /\ idOf[f.msg] = f.id
<1>1. CASE ProcessDies
  BY <1>1 DEF ProcessDies, FramesSound
<1>2. CASE ~ProcessDies
  <2>1. History
    BY <1>2, StepHistory DEF Inv
  <2>2. \A f : f.msg \in Msgs /\ Sound(f) => f.id # 0 /\ idOf'[f.msg] = f.id
    BY <2>1 DEF History, IdsKept
  <2>3. /\ outq \in Seq(Frame) /\ net \subseteq Frame
        /\ \A f \in net : f.msg \in Msgs /\ Sound(f)
        /\ \A k \in DOMAIN outq : outq[k].msg \in Msgs /\ Sound(outq[k])
    <3>1. outq \in Seq(Frame) /\ net \subseteq Frame
      BY DEF Inv, TypeOK
    <3>2. \A k \in DOMAIN outq : outq[k] \in Frame
      BY <3>1
    <3> QED BY <3>1, <3>2 DEF Inv, FramesSound, Frame
  <2>4. CASE net' \subseteq net /\ outq' = outq
    BY <2>2, <2>3, <2>4 DEF FramesSound
  <2>5. CASE StoreStep \/ AdminRequeue \/ AdminDelete \/ AdminDeleteRows \/ UNCHANGED vars
    BY <2>4, <2>5 DEF StoreStep, AdminRequeue, AdminDelete, AdminDeleteRows, vars, wvars
  <2>6. ASSUME NEW t \in Threads, Post(t) PROVE FramesSound'
    <3> DEFINE f == FrameOf(call[t])
    <3>1. f.msg \in Msgs /\ Sound(f) /\ f \in Frame
      BY <2>6 DEF Inv, StorageInv, StorageTypeOK, CallsSound, Saving, HasId, Post,
         Return, FrameOf, Frame, Call
    <3>2. f.id # 0 /\ idOf'[f.msg] = f.id
      BY <3>1, <2>2
    <3>3. CASE t # GameThread
      BY <3>3, <3>2, <2>2, <2>3, <2>6 DEF Post, Send, FramesSound
    <3>4. CASE t = GameThread /\ outq' = Append(outq, f)
      <4>1. \A k \in DOMAIN outq' : \/ outq'[k] = f
                                    \/ k \in DOMAIN outq /\ outq'[k] = outq[k]
        BY <3>4, <3>1, <2>3
      <4> QED BY <4>1, <3>4, <3>2, <2>2, <2>3, <2>6 DEF Post, FramesSound
    <3>5. CASE t = GameThread /\ outq' = outq
      BY <3>5, <2>4, <2>6 DEF Post
    <3> QED BY <3>3, <3>4, <3>5, <2>6 DEF Post
  <2>7. CASE SendQueued
    <3>1. Len(outq) \in Nat /\ Len(outq) > 0
      BY <2>3, <2>7 DEF SendQueued
    <3>2. Head(outq).msg \in Msgs /\ Sound(Head(outq))
      BY <3>1, <2>3
    <3>3. \A k \in DOMAIN Tail(outq) : k + 1 \in DOMAIN outq /\ Tail(outq)[k] = outq[k + 1]
      BY <3>1, <2>3
    <3>4. outq' = Tail(outq) /\ net' \subseteq net \cup {Head(outq)}
      BY <2>7 DEF SendQueued, Send
    <3>5. UNCHANGED idOf
      BY <2>7 DEF SendQueued, svars
    <3> QED BY <3>2, <3>3, <3>4, <3>5, <2>3 DEF FramesSound
  <2>8. ASSUME NEW e \in retryQ, RetryEntry(e) PROVE FramesSound'
    <3>1. e.id # 0 /\ idOf[e.msg] = e.id
      BY DEF Inv, StorageInv, EntriesIssued, SameIdEverywhere, HasId
    <3>2. net' \subseteq net \cup {FrameOf(e)} /\ outq' = outq /\ idOf' = idOf
      BY <2>8 DEF RetryEntry, Send, GiveUp, Resend
    <3> QED BY <3>1, <3>2, <2>3 DEF FramesSound, FrameOf
  <2>9. CASE \/ \E f \in net : Answer(f)
             \/ \E id \in replies : HandleReply(id)
             \/ Open \/ Lost
    BY <2>4, <2>9 DEF Answer, HandleReply, Open, Lost
  <2> QED BY <1>2, <2>5, <2>6, <2>7, <2>8, <2>9 DEF Next, Retry
<1> QED BY <1>1, <1>2

\* A step keeps every answer in flight the answer to a message.
LEMMA RepliesStep ==
  ASSUME Inv, [Next]_vars
  PROVE  RepliesSound'
<1>1. CASE ProcessDies
  BY <1>1 DEF ProcessDies, RepliesSound
<1>2. CASE ~ProcessDies
  <2>1. History
    BY <1>2, StepHistory DEF Inv
  <2>2. CASE replies' \subseteq replies /\ answered \subseteq answered'
    BY <2>1, <2>2, AnsweredIdStays DEF Inv, RepliesSound
  <2>3. ASSUME NEW f \in net, Answer(f) PROVE RepliesSound'
    <3>1. f.id # 0 /\ idOf[f.msg] = f.id
      BY DEF Inv, FramesSound
    <3>2. /\ idOf' = idOf /\ answered' = answered \cup {f.msg}
          /\ replies' \subseteq replies \cup {f.id}
      BY <2>3 DEF Answer, svars
    <3> QED BY <3>1, <3>2 DEF Inv, RepliesSound, AnsweredId
  <2>4. CASE StoreStep \/ AdminRequeue \/ AdminDelete \/ AdminDeleteRows \/ UNCHANGED vars
    BY <2>2, <2>4 DEF StoreStep, AdminRequeue, AdminDelete, AdminDeleteRows, vars, wvars
  <2>5. CASE \/ \E t \in Threads : Post(t)
             \/ SendQueued
             \/ \E m \in Msgs : Retry(m)
             \/ \E id \in replies : HandleReply(id)
             \/ Open \/ Lost
    BY <2>2, <2>5 DEF Post, SendQueued, Retry, RetryEntry, HandleReply, Open, Lost
  <2> QED BY <1>2, <2>3, <2>4, <2>5 DEF Next
<1> QED BY <1>1, <1>2

\* The WebSocket thread starts a delete only from an answer.
LEMMA WsDeleteStep ==
  ASSUME Inv, [Next]_vars
  PROVE  WsDeletesAnswered'
<1> DEFINE c == call[WsThread]
<1>0. /\ GameThread \in Threads /\ WsThread \in Threads /\ WsThread # GameThread
      /\ call \in [Threads -> Call] /\ Idle.op = "idle"
  BY IdleIsCall, StorageAssumption, OutboxAssumption DEF Inv, StorageInv, StorageTypeOK
<1>1. CASE ProcessDies
  BY <1>0, <1>1 DEF ProcessDies, Crash, WsDeletesAnswered
<1>2. CASE ~ProcessDies
  <2>1. History
    BY <1>2, StepHistory DEF Inv
  <2>2. ASSUME answered \subseteq answered',
               call'[WsThread] = c \/ call'[WsThread].op \notin {"delete", "delete_all"}
        PROVE  WsDeletesAnswered'
    <3>1. CASE call'[WsThread].op \notin {"delete", "delete_all"}
      BY <3>1 DEF WsDeletesAnswered
    <3>2. CASE call'[WsThread] = c /\ c.op # "delete"
      BY <3>2 DEF Inv, WsDeletesAnswered
    <3>3. CASE call'[WsThread] = c /\ c.op = "delete"
      <4>1. AnsweredId(c.id)'
        BY <3>3, <2>1, <2>2, AnsweredIdStays DEF Inv, WsDeletesAnswered, AnsweredId,
           History, IdsKept, TypeOK
      <4> QED BY <4>1, <3>3 DEF Inv, WsDeletesAnswered
    <3> QED BY <3>1, <3>2, <3>3, <2>2
  <2>3. CASE StoreStep
    <3>1. ASSUME NEW t \in Threads,
                 (\E m \in Msgs : GetNextId(t, m)) \/ Push(t) \/ InsertOk(t) \/ InsertFails(t)
          PROVE  call'[WsThread] = c \/ call'[WsThread].op \notin {"delete", "delete_all"}
      BY <1>0, <3>1 DEF GetNextId, Push, InsertOk, InsertFails, Call
    <3>2. ASSUME Load(GameThread) \/ Clear(GameThread) \/ DeleteRows(WsThread)
          PROVE  call'[WsThread] = c \/ call'[WsThread].op \notin {"delete", "delete_all"}
      BY <1>0, <3>2 DEF Load, Clear, DeleteRows
    <3>3. answered' = answered
      BY <2>3 DEF StoreStep, wvars
    <3> QED BY <3>1, <3>2, <3>3, <2>2, <2>3 DEF StoreStep
  <2>4. CASE AdminRequeue \/ AdminDelete \/ AdminDeleteRows
    BY <2>2, <2>4, <1>0 DEF AdminRequeue, AdminDelete, AdminDeleteRows, RequeueAll,
     RequeueId,        EraseEntry, EraseTable, DeleteRows, wvars
  <2>5. ASSUME NEW t \in Threads, Post(t) PROVE WsDeletesAnswered'
    BY <2>2, <2>5, <1>0 DEF Post, Return
  <2>6. CASE SendQueued \/ (\E f \in net : Answer(f)) \/ Open \/ Lost \/ UNCHANGED vars
    BY <2>2, <2>6 DEF SendQueued, Answer, Open, RequeueAll, Lost, svars, vars, wvars
  <2>7. CASE \E m \in Msgs : Retry(m)
    BY <2>2, <2>7 DEF Retry, RetryEntry, GiveUp, Resend
  <2>8. ASSUME NEW id \in replies, HandleReply(id) PROVE WsDeletesAnswered'
    <3>1. CASE UNCHANGED svars
      BY <2>2, <2>8, <3>1 DEF HandleReply, svars
    <3>2. CASE EraseEntry(WsThread, "outgoing_queue", id)
      <4>1. AnsweredId(id)
        BY DEF Inv, RepliesSound
      <4>2. answered' = answered /\ idOf' = idOf
        BY <2>8, <3>2 DEF HandleReply, EraseEntry
      <4>3. call'[WsThread].op = "delete" /\ call'[WsThread].id = id
        BY <1>0, <3>2 DEF EraseEntry
      <4> QED BY <4>1, <4>2, <4>3 DEF WsDeletesAnswered, AnsweredId
    <3> QED BY <3>1, <3>2, <2>8 DEF HandleReply
  <2> QED BY <1>2, <2>3, <2>4, <2>5, <2>6, <2>7, <2>8 DEF Next
<1> QED BY <1>1, <1>2

(***************************************************************************)
(* A step takes a record's row away only when the record was answered, its *)
(* id clashed, or an administrator asked for it.                           *)
(***************************************************************************)
LEMMA RowsLeave ==
  ASSUME Inv, [Next]_vars, NEW r \in rows \ rows', MustArrive(r.msg)
  PROVE  r.msg \in answered \/ Clashed(r.msg) \/ (AdminDeleteRows /\ r.msg \in purged')
<1>0. /\ r.msg \in Msgs /\ r.msg \in stored /\ HasId(r, TableOf[r.msg], idOf[r.msg])
      /\ idOf[r.msg] # 0 /\ rows \subseteq Row
  BY DEF Inv, StorageInv, StorageTypeOK, StoredBelowSeq, SameIdEverywhere
<1>1. CASE DeleteRows(WsThread)
  <2>1. call[WsThread].op = "delete" /\ r.id = call[WsThread].id
    BY <1>1 DEF DeleteRows, Inv, WsDeletesAnswered
  <2>2. PICK m \in answered : idOf[m] = r.id
    BY <2>1 DEF Inv, WsDeletesAnswered, AnsweredId
  <2>3. m \in Msgs /\ TableOf[m] = TableOf[r.msg]
    BY <1>0, <2>2 DEF Inv, TypeOK
  <2> QED BY <1>0, <2>2, <2>3 DEF Inv, StorageInv, FreshId, HasId, Clashed
<1>2. CASE Clear(GameThread)
  <2>1. PICK e \in retryQ : Moot(e) /\ HasId(r, e.table, e.id)
    BY <1>2 DEF Clear, MootRow
  <2>2. e.msg \in Msgs /\ HasId(e, TableOf[e.msg], idOf[e.msg])
    BY DEF Inv, StorageInv, StorageTypeOK, SameIdEverywhere, Entry
  <2>3. e.msg # r.msg
    BY <2>1 DEF Moot, MustArrive, WANT_MAP_INFO, PLAYER_JOIN, PLAYER_LEAVE,
       ADD_RECORD, GET_REPLAY
  <2> QED BY <1>0, <2>1, <2>2, <2>3 DEF Inv, StorageInv, FreshId, HasId, Clashed
<1>3. CASE AdminDeleteRows
  BY <1>3, <1>0 DEF AdminDeleteRows
<1>4. CASE StoreStep
  <2>1. ASSUME NEW t \in Threads, NEW m \in Msgs, GetNextId(t, m) PROVE FALSE
    BY <2>1 DEF GetNextId
  <2>2. ASSUME NEW t \in Threads, Push(t) \/ InsertOk(t) \/ InsertFails(t) PROVE FALSE
    BY <2>2 DEF Push, InsertOk, InsertFails
  <2>3. CASE Load(GameThread)
    BY <2>3 DEF Load
  <2> QED BY <1>1, <1>2, <1>4, <2>1, <2>2, <2>3 DEF StoreStep
<1>5. CASE AdminRequeue \/ AdminDelete
  BY <1>5 DEF AdminRequeue, AdminDelete, RequeueAll, RequeueId, EraseEntry, EraseTable
<1>6. CASE \/ \E t \in Threads : Post(t)
           \/ SendQueued
           \/ \E f \in net : Answer(f)
           \/ Lost \/ ProcessDies \/ UNCHANGED vars
  BY <1>6 DEF Post, Return, SendQueued, Answer, Lost, ProcessDies, Crash, svars, vars
<1>7. CASE (\E m \in Msgs : Retry(m)) \/ (\E id \in replies : HandleReply(id)) \/ Open
  BY <1>7 DEF Retry, RetryEntry, GiveUp, Resend, HandleReply, EraseEntry, Open,
     RequeueAll, svars
<1> QED BY <1>3, <1>4, <1>5, <1>6, <1>7 DEF Next

\* A step keeps the rows of records without an answer.
LEMMA KeptStep ==
  ASSUME Inv, [Next]_vars
  PROVE  KeptUntilAnswered'
<1>0. answered \subseteq answered' /\ purged \subseteq purged'
  BY DEF Next, StoreStep, AdminRequeue, AdminDelete, AdminDeleteRows, Post,
     SendQueued, Retry, RetryEntry, Answer, HandleReply, Open, Lost, ProcessDies,
     vars, wvars
<1>1. \A m \in stored : idOf'[m] = idOf[m] /\ clashed \subseteq clashed'
  <2>1. CASE ProcessDies
    BY <2>1 DEF ProcessDies, Crash, Inv, StorageInv, StorageTypeOK
  <2>2. CASE ~ProcessDies
    BY <2>2, StepHistory DEF Inv, StorageInv, StorageTypeOK, StoredBelowSeq,
       History, IdsKept
  <2> QED BY <2>1, <2>2
<1>2. ASSUME NEW m \in stored, MustArrive(m)
      PROVE  HasRow(m)' \/ m \in answered' \cup purged' \/ Clashed(m)'
  <2>1. CASE m \in answered \cup purged \/ Clashed(m)
    BY <2>1, <1>0, <1>1 DEF Clashed
  <2>2. CASE HasRow(m) /\ ~HasRow(m)'
    <3>1. PICK r \in rows : r.msg = m /\ r \notin rows'
      BY <2>2 DEF HasRow
    <3>2. m \in answered \/ Clashed(m) \/ m \in purged'
      BY <3>1, <1>2, RowsLeave
    <3> QED BY <3>2, <1>0, <1>1 DEF Clashed
  <2> QED BY <2>1, <2>2, <1>2 DEF Inv, KeptUntilAnswered
<1>3. ASSUME NEW m \in stored' \ stored PROVE HasRow(m)'
  <2>1. CASE ProcessDies
    BY <2>1 DEF ProcessDies, Crash
  <2>2. CASE StoreStep
    <3>1. ASSUME NEW t \in Threads, NEW n \in Msgs, GetNextId(t, n) PROVE FALSE
      BY <3>1 DEF GetNextId
    <3>2. ASSUME NEW t \in Threads, Push(t) \/ InsertFails(t) PROVE FALSE
      BY <3>2 DEF Push, InsertFails
    <3>3. ASSUME NEW t \in Threads, InsertOk(t) PROVE HasRow(m)'
      <4> DEFINE r == [table |-> call[t].table, id |-> call[t].id, msg |-> call[t].msg]
      <4>1. r \in rows' /\ r.msg = m
        BY <3>3 DEF InsertOk
      <4> QED BY <4>1 DEF HasRow
    <3>4. CASE Load(GameThread) \/ Clear(GameThread) \/ DeleteRows(WsThread)
      BY <3>4 DEF Load, Clear, DeleteRows
    <3> QED BY <2>2, <3>1, <3>2, <3>3, <3>4 DEF StoreStep
  <2>3. CASE AdminRequeue \/ AdminDelete \/ AdminDeleteRows
             \/ (\E t \in Threads : Post(t)) \/ SendQueued
             \/ (\E f \in net : Answer(f)) \/ Lost \/ UNCHANGED vars
    BY <2>3 DEF AdminRequeue, AdminDelete, AdminDeleteRows, RequeueAll, RequeueId, EraseEntry,
       EraseTable, DeleteRows, Post, Return, SendQueued, Answer, Lost, svars, vars
  <2>4. CASE (\E n \in Msgs : Retry(n)) \/ (\E id \in replies : HandleReply(id)) \/ Open
    BY <2>4 DEF Retry, RetryEntry, GiveUp, Resend, HandleReply, EraseEntry, Open,
       RequeueAll, svars
  <2> QED BY <2>1, <2>2, <2>3, <2>4 DEF Next
<1> QED BY <1>2, <1>3 DEF KeptUntilAnswered, MustArrive

\* Every step preserves the invariant.
LEMMA StepInv == Inv /\ [Next]_vars => Inv'
<1> SUFFICES ASSUME Inv, [Next]_vars PROVE Inv'
  OBVIOUS
<1>1. StorageInv'
  BY StepIsStorageStep, StorageStepInv DEF Inv
<1> QED
  BY <1>1, TypeStep, FramesStep, RepliesStep, WsDeleteStep, KeptStep DEF Inv

\* The invariant holds in every reachable state.
LEMMA Invariant == Spec => []Inv
  BY OutboxInitInv, StepInv, PTL DEF Spec

(***************************************************************************)
(* The variables of store and link keep their types.                       *)
(***************************************************************************)
THEOREM TypeCorrect == Spec => []TypeOK
  BY Invariant, PTL DEF Inv

(***************************************************************************)
(* A stored record keeps its row until the server answers it or an         *)
(* administrator deletes it, unless its id was handed out twice: for any   *)
(* number of threads, messages, losses and crashes.                        *)
(***************************************************************************)
THEOREM RecordsAreKept == Spec => []KeptUntilAnswered
  BY Invariant, PTL DEF Inv

(***************************************************************************)
(* No answer is taken for another message's.                               *)
(***************************************************************************)
THEOREM AnswersAreNotMixedUp == Spec => []AnswersHitTheirMessage
<1>1. Inv => AnswersHitTheirMessage
  <2> SUFFICES ASSUME Inv, NEW m \in Msgs, ~Clashed(m), idOf[m] # 0,
                      \/ idOf[m] \in replies
                      \/ /\ call[WsThread].op = "delete"
                         /\ call[WsThread].id = idOf[m]
               PROVE  m \in answered
    BY DEF AnswersHitTheirMessage
  <2>1. AnsweredId(idOf[m])
    BY DEF Inv, RepliesSound, WsDeletesAnswered
  <2>2. PICK n \in answered : idOf[n] = idOf[m]
    BY <2>1 DEF AnsweredId
  <2>3. n \in Msgs /\ TableOf[n] = TableOf[m]
    BY <2>2, OutboxAssumption DEF Inv, TypeOK
  <2> QED BY <2>2, <2>3 DEF Inv, StorageInv, FreshId, Clashed
<1> QED BY <1>1, Invariant, PTL

-----------------------------------------------------------------------------
(***************************************************************************)
(* The refinement: each step keeps, settles, releases or withdraws records *)
(* or leaves the mailbox as it is.                                         *)
(***************************************************************************)
LEMMA SettleMaps ==
  ASSUME Kept' = Kept, Withdrawn' = Withdrawn, Settled \subseteq Settled'
  PROVE  Promise!Next
<1>1. Settled' \subseteq Records /\ Records' = Records
  BY DEF Settled, Records, MustArrive
<1>2. Promise!Settle(Settled')
  BY <1>1 DEF Promise!Settle
<1> QED BY <1>1, <1>2 DEF Promise!Next

\* Records that lose their row after they were settled: Mailbox releases them.
LEMMA ReleaseMaps ==
  ASSUME Settled' = Settled, Withdrawn' = Withdrawn, Kept' \subseteq Kept,
         Kept \ Kept' \subseteq Settled
  PROVE  Promise!Next
<1>1. Kept \ Kept' \subseteq Records
  BY DEF Kept
<1>2. Promise!Release(Kept \ Kept')
  BY DEF Promise!Release
<1> QED BY <1>1, <1>2 DEF Promise!Next

\* Rows shrink, and whatever leaves was settled.
LEMMA QuietMaps ==
  ASSUME Inv, [Next]_vars, ~AdminDeleteRows, rows' \subseteq rows,
         \A m \in stored : idOf'[m] = idOf[m],
         UNCHANGED <<stored, clashed, answered, purged>>
  PROVE  Promise!Next
<1>1. Settled' = Settled /\ Withdrawn' = Withdrawn
  BY DEF Settled, Withdrawn, Clashed, Records, MustArrive
<1>2. Kept' \subseteq Kept
  BY DEF Kept, HasRow, Records, MustArrive
<1>3. ASSUME NEW m \in Kept \ Kept' PROVE m \in Settled
  <2>1. PICK r \in rows : r.msg = m /\ r \notin rows'
    BY <1>3 DEF Kept, HasRow, Records, MustArrive
  <2>2. m \in Records /\ MustArrive(m) /\ m \in stored
    BY <1>3, <2>1 DEF Kept, Records, Inv, StorageInv, SameIdEverywhere
  <2> QED BY <2>1, <2>2, RowsLeave DEF Settled
<1> QED BY <1>1, <1>2, <1>3, ReleaseMaps

\* An INSERT that succeeds: Mailbox accepts the record, or nothing changes.
LEMMA InsertMaps ==
  ASSUME Inv, NEW t \in Threads, InsertOk(t), UNCHANGED wvars
  PROVE  [Promise!Next]_(Promise!mvars)
<1> DEFINE m == call[t].msg
<1>1. /\ rows' = rows \cup {[table |-> call[t].table, id |-> call[t].id, msg |-> m]}
      /\ stored' = stored \cup {m} /\ idOf' = idOf /\ clashed' = clashed
      /\ answered' = answered /\ purged' = purged
  BY DEF InsertOk, wvars
<1>2. Withdrawn' = Withdrawn
  BY <1>1 DEF Withdrawn, Records, MustArrive
<1>3. Settled' = Settled \cup (IF m \in Records /\ Clashed(m) THEN {m} ELSE {})
  BY <1>1 DEF Settled, Clashed, Records, MustArrive
<1>4. Kept' = Kept \cup (IF m \in Records THEN {m} ELSE {})
  <2> DEFINE new == [table |-> call[t].table, id |-> call[t].id, msg |-> m]
  <2>0. new.msg = m /\ rows' = rows \cup {new}
    BY <1>1
  <2> HIDE DEF new
  <2>1. \A n : HasRow(n)' <=> (HasRow(n) \/ n = m)
    BY <2>0 DEF HasRow
  <2> QED BY <2>1 DEF Kept, Records, MustArrive
<1>5. CASE m \in Records /\ m \notin Kept
  BY <1>2, <1>3, <1>4, <1>5 DEF Promise!Next, Promise!Keep
<1>6. CASE m \notin Records \/ m \in Kept
  BY <1>2, <1>3, <1>4, <1>6, SettleMaps
<1> QED BY <1>5, <1>6

\* The administrator deletes a table: Mailbox withdraws its records.
LEMMA WithdrawMaps ==
  ASSUME Inv, AdminDeleteRows
  PROVE  Promise!Next
<1> DEFINE S == Kept \ Kept'
<1>1. rows' \subseteq rows /\ UNCHANGED <<idOf, stored, clashed, answered>>
      /\ purged' = purged \cup {r.msg : r \in rows \ rows'}
  BY DEF AdminDeleteRows, DeleteRows
<1>2. Settled' = Settled /\ S \subseteq Records
  BY <1>1 DEF Settled, Clashed, Records, MustArrive, Kept
<1>3. \A r, s \in rows : r.msg = s.msg => r = s
  BY DEF Inv, StorageInv, SameIdEverywhere, HasId
<1>4. Kept' \subseteq Kept
  BY <1>1 DEF Kept, HasRow, Records, MustArrive
<1>5. \A m \in Records : m \in S <=> m \in {r.msg : r \in rows \ rows'}
  BY <1>1, <1>3 DEF Kept, HasRow, Records, MustArrive
<1>6. Withdrawn' = Withdrawn \cup S
  BY <1>1, <1>2, <1>5 DEF Withdrawn, Records, MustArrive
<1>7. Promise!Withdraw(S)
  BY <1>2, <1>4, <1>6 DEF Promise!Withdraw
<1> QED BY <1>2, <1>7 DEF Promise!Next

\* Every step of the link is a step of Mailbox or a stutter.
LEMMA StepMaps ==
  ASSUME Inv, [Next]_vars
  PROVE  [Promise!Next]_(Promise!mvars)
<1>1. CASE AdminDeleteRows
  BY <1>1, WithdrawMaps
<1>2. CASE StoreStep /\ ~AdminDeleteRows
  <2>0. UNCHANGED wvars /\ UNCHANGED <<answered, purged>>
    BY <1>2 DEF StoreStep, wvars
  <2>1. ASSUME NEW t \in Threads, NEW m \in Msgs, GetNextId(t, m)
        PROVE  Promise!Next
    <3>1. m \notin stored /\ \A n \in stored : n \in Msgs /\ n # m
      BY <2>1 DEF GetNextId, Inv, StorageInv, StorageTypeOK, StoredBelowSeq
    <3>2. (\A n \in stored : idOf'[n] = idOf[n]) /\ rows' = rows /\ stored' = stored
          /\ clashed \subseteq clashed'
      BY <2>1, <3>1 DEF GetNextId, Inv, StorageInv, StorageTypeOK
    <3>3. Kept' = Kept /\ Withdrawn' = Withdrawn
      BY <3>2, <2>0 DEF Kept, HasRow, Withdrawn, Records, MustArrive
    <3>4. Settled \subseteq Settled'
      BY <3>2, <2>0 DEF Settled, Clashed, Records, MustArrive
    <3> QED BY <3>3, <3>4, SettleMaps
  <2>2. ASSUME NEW t \in Threads, InsertOk(t) PROVE [Promise!Next]_(Promise!mvars)
    BY <2>2, <2>0, InsertMaps
  <2>3. ASSUME NEW t \in Threads, Push(t) \/ InsertFails(t) PROVE Promise!Next
    BY <2>3, <2>0, <1>2, QuietMaps DEF Push, InsertFails
  <2>4. CASE Load(GameThread) \/ Clear(GameThread) \/ DeleteRows(WsThread)
    BY <2>4, <2>0, <1>2, QuietMaps DEF Load, Clear, DeleteRows
  <2> QED BY <2>1, <2>2, <2>3, <2>4, <1>2 DEF StoreStep
<1>3. CASE (AdminRequeue \/ AdminDelete) /\ ~AdminDeleteRows
  BY <1>3, QuietMaps DEF AdminRequeue, AdminDelete, RequeueAll, RequeueId, EraseEntry,
     EraseTable, wvars
<1>4. CASE (\E t \in Threads : Post(t)) /\ ~AdminDeleteRows
  BY <1>4, QuietMaps DEF Post, Return
<1>5. CASE (SendQueued \/ Lost \/ UNCHANGED vars) /\ ~AdminDeleteRows
  BY <1>5, QuietMaps DEF SendQueued, Lost, vars, svars, wvars
<1>6. CASE (\E m \in Msgs : Retry(m)) /\ ~AdminDeleteRows
  BY <1>6, QuietMaps DEF Retry, RetryEntry, GiveUp, Resend
<1>7. CASE (\E id \in replies : HandleReply(id)) /\ ~AdminDeleteRows
  BY <1>7, QuietMaps DEF HandleReply, EraseEntry, svars
<1>8. CASE Open /\ ~AdminDeleteRows
  BY <1>8, QuietMaps DEF Open, RequeueAll
<1>9. CASE ProcessDies /\ ~AdminDeleteRows
  <2>1. \A m \in stored : idOf'[m] = idOf[m]
    BY <1>9 DEF ProcessDies, Crash, Inv, StorageInv, StorageTypeOK
  <2> QED BY <1>9, <2>1, QuietMaps DEF ProcessDies, Crash
<1>10. ASSUME NEW f \in net, Answer(f) PROVE Promise!Next
  <2>1. Kept' = Kept /\ Withdrawn' = Withdrawn /\ Settled \subseteq Settled'
    BY <1>10 DEF Answer, svars, Kept, HasRow, Withdrawn, Settled, Clashed, Records,
       MustArrive
  <2> QED BY <2>1, SettleMaps
<1> QED
  BY <1>1, <1>2, <1>3, <1>4, <1>5, <1>6, <1>7, <1>8, <1>9, <1>10 DEF Next

(***************************************************************************)
(* The outbox, with its threads, ids, retries and crashes, implements the  *)
(* mailbox that loses nothing it has kept.                                 *)
(***************************************************************************)
THEOREM OutboxKeepsPromise == Spec => KeepsPromise
<1>1. Init => Promise!Init
  BY DEF Init, StorageInit, Promise!Init, Kept, HasRow, Settled, Withdrawn
<1>2. Inv /\ [Next]_vars => [Promise!Next]_(Promise!mvars)
  BY StepMaps
<1> QED BY <1>1, <1>2, Invariant, PTL DEF Spec, KeepsPromise, Promise!Spec
=============================================================================
