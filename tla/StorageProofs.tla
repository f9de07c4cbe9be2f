---------------------------- MODULE StorageProofs ----------------------------
(***************************************************************************)
(* What holds of the store for any threads, messages and tables: ids are   *)
(* fresh unless they clash, and disk and memory agree on whose an id is.   *)
(***************************************************************************)
EXTENDS Storage, TLAPS

(***************************************************************************)
(* The strengthening.  A call that is saving a message holds the message's *)
(* own id; a stored message's id is at most the table's counter, so the    *)
(* next id is one that no stored message has.                              *)
(***************************************************************************)
Saving == {"push", "insert", "post"}

CallsSound ==
  \A t \in Threads :
    call[t].op \in Saving =>
      /\ call[t].msg \in Msgs
      /\ HasId(call[t], TableOf[call[t].msg], idOf[call[t].msg])
      /\ call[t].id # 0

StoredBelowSeq ==
  \A m \in stored : idOf[m] # 0 /\ idOf[m] <= seq[TableOf[m]]

EntriesIssued == \A e \in retryQ : e.id # 0

StorageInv ==
  /\ StorageTypeOK
  /\ CallsSound
  /\ StoredBelowSeq
  /\ EntriesIssued
  /\ FreshId
  /\ SameIdEverywhere

USE StorageAssumption

\* A thread outside the store has a well-formed call.
LEMMA IdleIsCall == Idle \in Call /\ Idle.op = "idle"
  BY DEF Idle, Call, Tables

\* The initial states satisfy the invariant.
LEMMA StorageInitInv == StorageInit => StorageInv
  BY IdleIsCall DEF StorageInit, StorageInv, StorageTypeOK, CallsSound,
     StoredBelowSeq, EntriesIssued, FreshId, SameIdEverywhere, Saving, Row, Entry

\* An id is handed out: it is above every stored id, or it is marked.
LEMMA GetNextIdInv ==
  ASSUME StorageInv, NEW t \in Threads, NEW m \in Msgs, GetNextId(t, m)
  PROVE  StorageInv'
<1> DEFINE tb == TableOf[m]
<1>0. tb \in Tables /\ seq[tb] \in Nat /\ m \notin stored
  BY DEF StorageInv, StorageTypeOK, StoredBelowSeq, GetNextId
<1>1. PICK id \in NextIds(tb) :
        /\ idOf' = [idOf EXCEPT ![m] = id]
        /\ call' = [call EXCEPT ![t] =
                      [op |-> "push", table |-> tb, id |-> id, msg |-> m]]
        /\ clashed' = IF \/ id # seq[tb] + 1
                         \/ \E n \in Unsaved : TableOf[n] = tb /\ idOf[n] = id
                      THEN clashed \cup {<<tb, id>>}
                      ELSE clashed
  BY DEF GetNextId
<1>2. id \in Nat /\ id # 0
  BY <1>0 DEF NextIds
<1>u. UNCHANGED <<rows, seq, retryQ, stored>> /\ idOf[m] = 0
  BY DEF GetNextId
<1>3. StorageTypeOK'
  BY <1>0, <1>1, <1>2, <1>u DEF StorageInv, StorageTypeOK, Call
<1>4. CallsSound'
  <2> SUFFICES ASSUME NEW s \in Threads, call'[s].op \in Saving
               PROVE  /\ call'[s].msg \in Msgs
                      /\ HasId(call'[s], TableOf[call'[s].msg], idOf'[call'[s].msg])
                      /\ call'[s].id # 0
    BY DEF CallsSound, HasId
  <2>1. CASE s = t
    BY <2>1, <1>1, <1>2 DEF StorageInv, StorageTypeOK, HasId
  <2>2. CASE s # t
    BY <2>2, <1>1, <1>u DEF StorageInv, StorageTypeOK, CallsSound, HasId
  <2> QED BY <2>1, <2>2
<1>5. StoredBelowSeq'
  BY <1>0, <1>1, <1>u DEF StorageInv, StorageTypeOK, StoredBelowSeq
<1>6. EntriesIssued'
  BY <1>u DEF StorageInv, EntriesIssued
<1>7. FreshId'
  <2> SUFFICES ASSUME NEW a \in Msgs, NEW b \in Msgs, a # b,
                      TableOf[a] = TableOf[b], idOf'[a] = idOf'[b], idOf'[a] # 0
               PROVE  <<TableOf[a], idOf'[a]>> \in clashed'
    BY DEF FreshId, Clashed
  <2>1. CASE a # m /\ b # m
    BY <2>1, <1>1 DEF StorageInv, StorageTypeOK, FreshId, Clashed
  <2>2. ASSUME NEW n \in Msgs, n # m, TableOf[n] = tb, idOf[n] = id
        PROVE  <<tb, id>> \in clashed'
    <3>1. CASE id # seq[tb] + 1
      BY <3>1, <1>1
    <3>2. CASE id = seq[tb] + 1
      <4>1. n \notin stored
        BY <3>2, <2>2, <1>0, <1>2 DEF StorageInv, StorageTypeOK, StoredBelowSeq
      <4>2. n \in Unsaved
        BY <4>1, <2>2, <1>2 DEF Unsaved
      <4> QED BY <4>2, <2>2, <1>1
    <3> QED BY <3>1, <3>2
  <2>3. idOf'[m] = id /\ \A n \in Msgs \ {m} : idOf'[n] = idOf[n]
    BY <1>1 DEF StorageInv, StorageTypeOK
  <2> QED BY <2>1, <2>2, <2>3
<1>8. SameIdEverywhere'
  BY <1>0, <1>1, <1>u DEF StorageInv, StorageTypeOK, SameIdEverywhere,
     EntriesIssued, HasId, Row, Entry
<1> QED BY <1>3, <1>4, <1>5, <1>6, <1>7, <1>8 DEF StorageInv

\* The entry joins the queue, under the id the caller was given.
LEMMA PushInv ==
  ASSUME StorageInv, NEW t \in Threads, Push(t)
  PROVE  StorageInv'
<1>1. call[t].op \in Saving
  BY DEF Push, Saving
<1>2. EntryOf(call[t]) \in Entry /\ call[t] \in Call
  BY <1>1 DEF StorageInv, StorageTypeOK, CallsSound, EntryOf, Entry, Call
<1>3. StorageTypeOK'
  BY <1>2 DEF Push, StorageInv, StorageTypeOK, Call
<1>4. CallsSound'
  BY DEF Push, StorageInv, StorageTypeOK, CallsSound, HasId, Saving, Call
<1>5. StoredBelowSeq' /\ FreshId'
  BY DEF Push, StorageInv, StoredBelowSeq, FreshId, Clashed
<1>6. EntriesIssued' /\ SameIdEverywhere'
  BY <1>1 DEF Push, StorageInv, CallsSound, EntriesIssued, SameIdEverywhere,
     EntryOf, HasId
<1> QED BY <1>3, <1>4, <1>5, <1>6 DEF StorageInv

\* The row is inserted: the primary key was free, the counter is at least it.
LEMMA InsertOkInv ==
  ASSUME StorageInv, NEW t \in Threads, InsertOk(t)
  PROVE  StorageInv'
<1> DEFINE c == call[t]
<1>1. /\ c \in Call /\ c.msg \in Msgs /\ c.id \in Nat \ {0}
      /\ c.table = TableOf[c.msg] /\ c.id = idOf[c.msg]
  BY DEF InsertOk, StorageInv, StorageTypeOK, CallsSound, Saving, HasId, Call
<1>2. StorageTypeOK'
  BY <1>1 DEF InsertOk, StorageInv, StorageTypeOK, Call, Row
<1>3. CallsSound'
  BY DEF InsertOk, StorageInv, StorageTypeOK, CallsSound, HasId, Saving, Call
<1>4. StoredBelowSeq'
  <2>1. \A tb \in Tables : seq[tb] \in Nat /\ seq'[tb] \in Nat
                             /\ seq[tb] <= seq'[tb]
    BY <1>1 DEF InsertOk, StorageInv, StorageTypeOK, Call
  <2>2. c.id <= seq'[c.table]
    BY <1>1 DEF InsertOk, StorageInv, StorageTypeOK, Call
  <2>3. ASSUME NEW m \in stored' PROVE idOf'[m] # 0 /\ idOf'[m] <= seq'[TableOf[m]]
    <3>1. CASE m = c.msg
      BY <3>1, <1>1, <2>2 DEF InsertOk
    <3>2. CASE m # c.msg
      <4>1. m \in stored /\ m \in Msgs
        BY <3>2 DEF InsertOk, StorageInv, StorageTypeOK
      <4> QED BY <4>1, <2>1 DEF InsertOk, StorageInv, StorageTypeOK, StoredBelowSeq
    <3> QED BY <3>1, <3>2
  <2> QED BY <2>3 DEF StoredBelowSeq
<1>5. EntriesIssued' /\ FreshId'
  BY DEF InsertOk, StorageInv, EntriesIssued, FreshId, Clashed
<1>6. SameIdEverywhere'
  BY <1>1 DEF InsertOk, StorageInv, SameIdEverywhere, HasId
<1> QED BY <1>2, <1>3, <1>4, <1>5, <1>6 DEF StorageInv

\* Steps that at most take rows away, keep or renew entries, and finish calls.
LEMMA ShrinkInv ==
  ASSUME StorageInv,
         rows' \subseteq rows,
         UNCHANGED <<seq, idOf, stored, clashed>>,
         \A e \in retryQ' : \/ \E f \in retryQ : /\ e.msg = f.msg
                                                 /\ HasId(e, f.table, f.id)
                            \/ \E r \in rows : e = EntryOf(r),
         retryQ' \subseteq Entry,
         call' \in [Threads -> Call],
         \A t \in Threads : call'[t].op \in Saving =>
             /\ call[t].op \in Saving
             /\ call'[t].msg = call[t].msg
             /\ HasId(call'[t], call[t].table, call[t].id)
  PROVE  StorageInv'
<1>1. StorageTypeOK'
  BY DEF StorageInv, StorageTypeOK
<1>2. CallsSound'
  BY DEF StorageInv, CallsSound, HasId
<1>3. StoredBelowSeq' /\ FreshId'
  BY DEF StorageInv, StoredBelowSeq, FreshId, Clashed
<1>4. \A r \in rows : r.id # 0 /\ HasId(r, TableOf[r.msg], idOf[r.msg])
  BY DEF StorageInv, StorageTypeOK, SameIdEverywhere, StoredBelowSeq, HasId
<1>5. EntriesIssued' /\ SameIdEverywhere'
  BY <1>4 DEF StorageInv, EntriesIssued, SameIdEverywhere, EntryOf, HasId
<1> QED BY <1>1, <1>2, <1>3, <1>5 DEF StorageInv

\* A crash empties the memory and leaves the rows.
LEMMA CrashInv ==
  ASSUME StorageInv, Crash
  PROVE  StorageInv'
<1>1. StorageTypeOK'
  BY IdleIsCall DEF Crash, StorageInv, StorageTypeOK
<1>2. CallsSound'
  BY IdleIsCall DEF Crash, CallsSound, Saving
<1>3. StoredBelowSeq'
  BY DEF Crash, StorageInv, StorageTypeOK, StoredBelowSeq
<1>4. FreshId'
  BY DEF Crash, StorageInv, StorageTypeOK, FreshId, Clashed
<1>5. EntriesIssued' /\ SameIdEverywhere'
  BY DEF Crash, StorageInv, StorageTypeOK, EntriesIssued, SameIdEverywhere, HasId, Row
<1> QED BY <1>1, <1>2, <1>3, <1>4, <1>5 DEF StorageInv

\* The entry kz_storage_load makes of a row is well formed.
LEMMA RowEntry ==
  ASSUME StorageTypeOK
  PROVE  \A r \in rows : EntryOf(r) \in Entry
  BY DEF StorageTypeOK, Row, Entry, EntryOf

\* Every step of the store preserves the invariant.
LEMMA StorageStepInv ==
  ASSUME StorageInv, [StorageNext]_svars
  PROVE  StorageInv'
<1> USE DEF StorageInv, StorageTypeOK
<1>0. GameThread \in Threads
  OBVIOUS
<1>c. \A t \in Threads : call[t] \in Call /\ [call EXCEPT ![t] = Idle] \in [Threads -> Call]
  BY IdleIsCall
<1>i. Idle.op \notin Saving
  BY IdleIsCall DEF Saving
<1>1. ASSUME NEW t \in Threads, InsertFails(t) PROVE StorageInv'
  BY <1>1, <1>c, ShrinkInv DEF InsertFails, Call, Saving, HasId
<1>2. ASSUME NEW t \in Threads, Return(t) PROVE StorageInv'
  BY <1>2, <1>c, <1>i, ShrinkInv DEF Return, HasId
<1>3. ASSUME NEW t \in Threads, NEW tb \in Tables, NEW id \in Nat, EraseEntry(t, tb, id)
      PROVE  StorageInv'
  BY <1>3, <1>c, ShrinkInv DEF EraseEntry, Call, Saving, HasId
<1>4. ASSUME NEW tb \in Tables, EraseTable(GameThread, tb) PROVE StorageInv'
  BY <1>4, <1>c, ShrinkInv DEF EraseTable, Call, Saving, HasId
<1>5. ASSUME NEW t \in Threads, DeleteRows(t) PROVE StorageInv'
  <2>1. rows' \subseteq rows
    BY <1>5 DEF DeleteRows
  <2> QED BY <2>1, <1>5, <1>c, <1>i, ShrinkInv DEF DeleteRows, HasId
<1>6. ASSUME NEW t \in Threads, NEW text, DeleteByValue(t, text) PROVE StorageInv'
  <2>1. rows' \subseteq rows
    BY <1>6 DEF DeleteByValue
  <2> QED BY <2>1, <1>6, ShrinkInv DEF DeleteByValue, HasId
<1>6a. ASSUME NEW t \in Threads, NEW text, EraseByValue(t, text) PROVE StorageInv'
  <2>1. retryQ' \subseteq retryQ
    BY <1>6a DEF EraseByValue
  <2> QED BY <2>1, <1>6a, ShrinkInv DEF EraseByValue, HasId
<1>7. ASSUME Load(GameThread) PROVE StorageInv'
  <2>1. retryQ' \subseteq Entry
    BY <1>7, RowEntry DEF Load
  <2> QED BY <2>1, <1>7, ShrinkInv DEF Load, HasId
<1>8. ASSUME Clear(GameThread) PROVE StorageInv'
  <2>1. rows' \subseteq rows
    BY <1>8 DEF Clear
  <2> QED BY <2>1, <1>8, ShrinkInv DEF Clear, HasId
<1>9. ASSUME NEW t \in Threads, RequeueAll(t) PROVE StorageInv'
  <2>1. retryQ' \subseteq Entry
    BY <1>9 DEF RequeueAll, Entry
  <2>2. \A e \in retryQ' : \E f \in retryQ : e.msg = f.msg /\ HasId(e, f.table, f.id)
    BY <1>9 DEF RequeueAll, HasId, Entry
  <2> QED BY <2>1, <2>2, <1>9, ShrinkInv DEF RequeueAll, HasId
<1>9a. ASSUME NEW id, RequeueId(GameThread, id) PROVE StorageInv'
  <2>1. retryQ' \subseteq Entry
    BY <1>9a DEF RequeueId, Entry
  <2>2. \A e \in retryQ' : \E f \in retryQ : e.msg = f.msg /\ HasId(e, f.table, f.id)
    BY <1>9a DEF RequeueId, HasId, Entry
  <2> QED BY <2>1, <2>2, <1>9a, ShrinkInv DEF RequeueId, HasId
<1>10. ASSUME NEW e \in retryQ, GiveUp(e) PROVE StorageInv'
  BY <1>10, ShrinkInv DEF GiveUp, HasId
<1>11. ASSUME NEW e \in retryQ, Resend(e) PROVE StorageInv'
  <2>1. Resent(e) \in Entry /\ Resent(e).msg = e.msg /\ HasId(Resent(e), e.table, e.id)
    BY DEF Resent, Entry, HasId
  <2> QED BY <2>1, <1>11, ShrinkInv DEF Resend, HasId
<1>12. ASSUME UNCHANGED svars PROVE StorageInv'
  BY <1>12, ShrinkInv DEF svars, HasId
<1>13. \A m \in Msgs : TableOf[m] \in Tables /\ idOf[m] \in Nat
  OBVIOUS
<1> QED
  BY <1>0, <1>1, <1>2, <1>3, <1>4, <1>5, <1>6, <1>6a, <1>7, <1>8, <1>9, <1>9a, <1>10, <1>11,
     <1>12, <1>13, GetNextIdInv, PushInv, InsertOkInv, CrashInv DEF StorageNext

\* The invariant holds in every reachable state.
LEMMA StorageInvariant == StorageSpec => []StorageInv
<1>1. StorageInv /\ [StorageNext]_svars => StorageInv'
  BY StorageStepInv
<1> QED BY <1>1, StorageInitInv, PTL DEF StorageSpec

(***************************************************************************)
(* The store's variables keep their types.                                 *)
(***************************************************************************)
THEOREM StorageTypeCorrect == StorageSpec => []StorageTypeOK
  BY StorageInvariant, PTL DEF StorageInv

(***************************************************************************)
(* kz_storage_get_next_id never hands out the id of a message that was     *)
(* stored, unless it is marked as clashed.                                 *)
(***************************************************************************)
THEOREM IdsAreFresh == StorageSpec => []FreshId
  BY StorageInvariant, PTL DEF StorageInv

(***************************************************************************)
(* Rows and entries carry the id their message was given.                  *)
(***************************************************************************)
THEOREM DiskAndMemoryAgree == StorageSpec => []SameIdEverywhere
  BY StorageInvariant, PTL DEF StorageInv

(***************************************************************************)
(* Map changes and kz_ws_run_tasks leave an upload with retries in line.   *)
(***************************************************************************)
THEOREM UploadsStay == StorageSpec => UploadsStayInLine
<1>1. ASSUME StorageInv, Clear(GameThread) \/ (\E e \in retryQ : GiveUp(e)),
             NEW e \in retryQ, e.table = "upload_queue", e.retries <= RetriesMax
      PROVE  \E f \in retryQ' : f.msg = e.msg
  <2>1. e.msg \in Msgs /\ e.retries \in Nat
    BY <1>1 DEF StorageInv, StorageTypeOK, Entry
  <2>2. TypeOf[e.msg] = 0
    BY <1>1, <2>1 DEF StorageInv, SameIdEverywhere, HasId
  <2>3. ~Moot(e) /\ ~GivenUp(e)
    BY <1>1, <2>1, <2>2 DEF Moot, GivenUp, NoAnswerExpected, MAP_CHANGE, PLAYER_JOIN,
       PLAYER_LEAVE, WANT_MAP_INFO
  <2>4. e \in retryQ'
    BY <1>1, <2>3 DEF Clear, GiveUp
  <2> QED BY <2>4
<1>2. StorageInv => (Clear(GameThread) \/ (\E e \in retryQ : GiveUp(e)) =>
        \A e \in retryQ :
          e.table = "upload_queue" /\ e.retries <= RetriesMax
          => \E f \in retryQ' : f.msg = e.msg)
  BY <1>1
<1> QED BY <1>2, StorageInvariant, PTL DEF UploadsStayInLine
=============================================================================
