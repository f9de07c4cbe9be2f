---------------------------- MODULE ThreadsProofs ----------------------------
(***************************************************************************)
(* Proofs about the plugin's threads and what they share with the game     *)
(* thread:                                                                 *)
(*   - WsClient, the connection, for every queue capacity and bound;       *)
(*   - Workers, the threads of the replays: a shutdown that ends leaves no *)
(*     finished run and no upload behind, for every set of runs, all       *)
(*     capacities and whichever threads wait with a time limit;            *)
(*   - Playback, the parser thread: for any replays, maps and capacity the *)
(*     bot shows a replay of the map that is played, and in the end the    *)
(*     one queued last, whatever is deleted, pruned or loaded while the    *)
(*     parser works.                                                       *)
(***************************************************************************)
EXTENDS WsClient, Workers, Playback, WellFoundedInduction, TLAPS

-----------------------------------------------------------------------------
(***************************************************************************)
(* WsClient.                                                               *)
(***************************************************************************)
\* The thread is in a callback only where ixwebsocket calls it.
CallbacksInPlace ==
  /\ handler \in Closings \cup Errors => thread = "lost"
  /\ handler \in {"Open", "Opened", "Message", "Done"} => thread = "open"

\* The game thread starts a client only after the last one has gone.
OneThread ==
  /\ gameThread \in {"start", "gone"} => thread = "none"
  /\ state = "Uninitialized" => thread = "none" \/ gameThread = "store"

\* A refusal forbids reconnecting as soon as its handler is done.
RefusalForbids ==
  banned => handler \in Refusals \/ (~auto /\ ~allowed)

\* The database is open from the first half of OnOpen to the callback for
\* the end of the connection.
DatabaseOpen ==
  db <=> thread = "open" /\ handler # "Open"

ClientInv == /\ ClientTypeOK /\ CallbacksInPlace /\ OneThread
       /\ RefusalForbids /\ DatabaseOpen /\ ConnectedIsConnected

\* The initial states satisfy the invariant.
LEMMA ClientInitInv == ASSUME ClientInit PROVE ClientInv
<1> USE DEF ClientInit, Closings, Errors, Refusals
<1>1. ClientTypeOK
  <2>1. /\ incoming \in 0 .. IncomingCap /\ clientLog \in 0 .. ClientLogCap
        /\ lines \in 0 .. LinesMax
    BY WsClientAssumption
  <2> QED BY <2>1 DEF ClientTypeOK, Settings
<1>2. CallbacksInPlace /\ OneThread /\ RefusalForbids
  BY DEF CallbacksInPlace, OneThread, RefusalForbids
<1>3. DatabaseOpen /\ ConnectedIsConnected
  BY DEF DatabaseOpen, ConnectedIsConnected
<1> QED BY <1>1, <1>2, <1>3 DEF ClientInv

\* Every step preserves the invariant.
LEMMA ClientStepInv ==
  ASSUME ClientInv, [ClientNext]_clientVars
  PROVE  ClientInv'
<1> USE WsClientAssumption DEF ClientInv, ClientTypeOK, Settings, Closings, Errors, Refusals,
     CallbacksInPlace, OneThread, RefusalForbids, DatabaseOpen, ConnectedIsConnected,
     lib, logging, adm
<1>0. 1 \in 0 .. LinesMax /\ 1 .. LinesMax \subseteq 0 .. LinesMax
  BY WsClientAssumption
<1>1. ASSUME NEW s \in Settings, ChangeSettings(s) PROVE ClientInv'
  BY <1>1 DEF ChangeSettings, Restart
<1>2. CASE Reconnect
  BY <1>2 DEF Reconnect, Restart
<1>3. CASE Shutdown
  BY <1>3 DEF Shutdown
<1>4. CASE JoinClient
  BY <1>4 DEF JoinClient
<1>5. CASE Start
  BY <1>5 DEF Start
<1>6. CASE StoreInitialized
  BY <1>6 DEF StoreInitialized
<1>7. CASE RunTask
  BY <1>7 DEF RunTask
<1>8. CASE Connects
  BY <1>8 DEF Connects
<1>9. CASE ConnectFails
  <2>1. ClientTypeOK'
    <3>1. troubles' \in Nat /\ lines' \in 0 .. LinesMax
      BY <1>0, <1>9 DEF ConnectFails, Disconnects
    <3>2. handler' \in Errors /\ thread' = "lost" /\ db' = FALSE /\ banned' \in BOOLEAN
      BY <1>9 DEF ConnectFails, Disconnects
    <3>3. UNCHANGED <<state, allowed, auto, incoming, clientLog, adm>>
      BY <1>9 DEF ConnectFails, Disconnects
    <3> QED BY <3>1, <3>2, <3>3
  <2>2. CallbacksInPlace' /\ OneThread' /\ RefusalForbids'
    BY <1>9 DEF ConnectFails, Disconnects
  <2>3. DatabaseOpen' /\ ConnectedIsConnected'
    BY <1>9 DEF ConnectFails, Disconnects
  <2> QED BY <2>1, <2>2, <2>3
<1>10. CASE ConnectionLost
  <2>1. ClientTypeOK'
    <3>1. troubles' \in Nat /\ lines' \in 0 .. LinesMax
      BY <1>0, <1>10 DEF ConnectionLost, Disconnects
    <3>2. handler' \in Closings /\ thread' = "lost" /\ db' = FALSE /\ banned' \in BOOLEAN
      BY <1>10 DEF ConnectionLost, Disconnects
    <3>3. UNCHANGED <<state, allowed, auto, incoming, clientLog, adm>>
      BY <1>10 DEF ConnectionLost, Disconnects
    <3> QED BY <3>1, <3>2, <3>3
  <2>2. CallbacksInPlace' /\ OneThread' /\ RefusalForbids'
    BY <1>10 DEF ConnectionLost, Disconnects
  <2>3. DatabaseOpen' /\ ConnectedIsConnected'
    BY <1>10 DEF ConnectionLost, Disconnects
  <2> QED BY <2>1, <2>2, <2>3
<1>11. CASE Stopped
  <2>1. ClientTypeOK'
    BY <1>0, <1>11 DEF Stopped, Disconnects
  <2>2. CallbacksInPlace' /\ OneThread' /\ RefusalForbids'
    BY <1>11 DEF Stopped, Disconnects
  <2>3. DatabaseOpen' /\ ConnectedIsConnected'
    BY <1>11 DEF Stopped, Disconnects
  <2> QED BY <2>1, <2>2, <2>3
<1>12. CASE TriesAgain
  BY <1>12 DEF TriesAgain
<1>13. CASE Ends
  BY <1>13 DEF Ends
<1>14. CASE Receives
  BY <1>14 DEF Receives
<1>15. CASE OnOpen
  BY <1>0, <1>15 DEF OnOpen
<1>16. CASE OnOpenStore
  BY <1>16 DEF OnOpenStore
<1>17. CASE OnMessage \/ OnMessageDropped \/ Returns
  BY <1>17 DEF OnMessage, OnMessageDropped, Returns
<1>18. CASE OnClose
  BY <1>18 DEF OnClose, Forbid
<1>19. CASE OnError
  BY <1>19 DEF OnError, Forbid
<1>20. CASE WriteLine \/ FlushClientLog
  BY <1>20 DEF WriteLine, FlushClientLog
<1>21. CASE UNCHANGED clientVars
  BY <1>21 DEF clientVars
<1> QED
  BY <1>1, <1>2, <1>3, <1>4, <1>5, <1>6, <1>7, <1>8, <1>9, <1>10, <1>11, <1>12, <1>13,
     <1>14, <1>15, <1>16, <1>17, <1>18, <1>19, <1>20, <1>21
     DEF ClientNext, OnEvent

\* The invariant holds in every reachable state.
LEMMA ClientInvHolds == ClientSpec => []ClientInv
<1>1. ClientInit => ClientInv
  BY ClientInitInv
<1>2. ClientInv /\ [ClientNext]_clientVars => ClientInv'
  BY ClientStepInv
<1> QED BY <1>1, <1>2, PTL DEF ClientSpec

\* Every variable of the client keeps its type, for any capacity and bounds.
THEOREM WsClientTypeCorrect == ClientSpec => []ClientTypeOK
<1>1. ClientInv => ClientTypeOK
  BY DEF ClientInv
<1> QED BY <1>1, ClientInvHolds, PTL

(***************************************************************************)
(* The WebSocket thread's database is open while it handles a message and  *)
(* closed when it ends, on every way a connection can end.                 *)
(***************************************************************************)
THEOREM DatabaseIsClosed == ClientSpec => []DatabaseFollowsLink
<1>1. ClientInv => DatabaseFollowsLink
  BY DEF ClientInv, DatabaseOpen, CallbacksInPlace, DatabaseFollowsLink, Closings, Errors
<1> QED BY <1>1, ClientInvHolds, PTL

\* The state Connected does not outlive the connection.
THEOREM ConnectedIsTrue == ClientSpec => []ConnectedIsConnected
<1>1. ClientInv => ConnectedIsConnected
  BY DEF ClientInv
<1> QED BY <1>1, ClientInvHolds, PTL

(***************************************************************************)
(* A client that was refused does not retry by itself, however commands,   *)
(* failures and stops are interleaved.                                     *)
(***************************************************************************)
THEOREM NoSpinReconnect == ClientSpec => RefusalRespected
<1>1. ClientInv /\ [ClientNext]_clientVars => [TriesAgain => ~banned]_clientVars
  BY DEF ClientInv, RefusalForbids, TriesAgain, Refusals
<1> QED BY <1>1, ClientInvHolds, PTL DEF ClientSpec, RefusalRespected

-----------------------------------------------------------------------------
(***************************************************************************)
(* Workers.                                                                *)
(***************************************************************************)
Elems(s) == {s[i] : i \in DOMAIN s}

\* A finished run that is not saved yet waits in the writer's queue.
FinishesWait == signalled \ saved \subseteq Elems(queue["writer"])

\* The writer takes only signals the game thread gave.
SignalsOnly == (Elems(queue["writer"]) \cap Runs) \cup saved \subseteq signalled

\* What a thread is at work on is the head of its queue; when the writer logs or
\* hands over, it is a run it has saved.
Halfway ==
  /\ at["writer"] \in {"logging", "logged", "notify"} =>
       queue["writer"] # <<>> /\ Head(queue["writer"]) \in saved
  /\ at["upload"] \in {"logging", "logged"} =>
       queue["upload"] # <<>>
  /\ at["upload"] # "notify"

\* g_krp_running is cleared first, and joined last are the threads.
Stopping ==
  /\ running <=> game = "frame"
  /\ game = "gone" => \A w \in Thread : at[w] = "done"

\* The writer and the upload thread end with their queues empty.
EndedEmpty ==
  \A w \in {"writer", "upload"} : at[w] = "done" => queue[w] = <<>> /\ ~running

Inv == /\ TypeOK /\ FinishesWait /\ SignalsOnly /\ Halfway /\ Stopping
       /\ EndedEmpty

-----------------------------------------------------------------------------
\* What appending does to the elements and the head of a queue.
LEMMA AppendElems ==
  ASSUME NEW S, NEW s \in Seq(S), NEW x \in S
  PROVE  /\ Append(s, x) \in Seq(S)
         /\ Len(Append(s, x)) = Len(s) + 1
         /\ Append(s, x) # <<>>
         /\ s # <<>> => Head(Append(s, x)) = Head(s)
         /\ Elems(Append(s, x)) = Elems(s) \cup {x}
<1>1. /\ Append(s, x) \in Seq(S)
      /\ Len(Append(s, x)) = Len(s) + 1
      /\ Len(s) \in Nat
      /\ DOMAIN s = 1 .. Len(s)
      /\ DOMAIN Append(s, x) = 1 .. Len(s) + 1
      /\ \A i \in 1 .. Len(s) : Append(s, x)[i] = s[i]
      /\ Append(s, x)[Len(s) + 1] = x
  OBVIOUS
<1>2. Append(s, x) # <<>>
  <2>1. Len(<<>>) = 0
    OBVIOUS
  <2> QED BY <1>1, <2>1
<1>3. s # <<>> => Head(Append(s, x)) = Head(s)
  OBVIOUS
<1>4. Elems(Append(s, x)) \subseteq Elems(s) \cup {x}
  BY <1>1 DEF Elems
<1>5. Elems(s) \cup {x} \subseteq Elems(Append(s, x))
  BY <1>1 DEF Elems
<1> QED BY <1>1, <1>2, <1>3, <1>4, <1>5

\* What taking the head off does to them.
LEMMA TailElems ==
  ASSUME NEW S, NEW s \in Seq(S), s # <<>>
  PROVE  /\ Head(s) \in S /\ Head(s) \in Elems(s)
         /\ Tail(s) \in Seq(S)
         /\ Len(Tail(s)) = Len(s) - 1
         /\ Len(s) \in Nat
         /\ Elems(s) = {Head(s)} \cup Elems(Tail(s))
<1>1. /\ Len(s) \in Nat /\ Len(s) > 0
      /\ DOMAIN s = 1 .. Len(s)
      /\ Head(s) = s[1]
      /\ Tail(s) \in Seq(S)
      /\ Len(Tail(s)) = Len(s) - 1
      /\ DOMAIN Tail(s) = 1 .. Len(s) - 1
      /\ \A i \in 1 .. Len(s) - 1 : Tail(s)[i] = s[i + 1]
      /\ Head(s) \in S
  OBVIOUS
<1>2. Elems(s) \subseteq {Head(s)} \cup Elems(Tail(s))
  <2> SUFFICES ASSUME NEW i \in 1 .. Len(s)
               PROVE  s[i] \in {Head(s)} \cup Elems(Tail(s))
    BY <1>1 DEF Elems
  <2>1. CASE i = 1
    BY <2>1, <1>1
  <2>2. CASE i # 1
    <3>1. i - 1 \in 1 .. Len(s) - 1
      BY <2>2, <1>1
    <3>2. Tail(s)[i - 1] = s[i]
      BY <3>1, <1>1
    <3> QED BY <3>1, <3>2, <1>1 DEF Elems
  <2> QED BY <2>1, <2>2
<1>3. {Head(s)} \cup Elems(Tail(s)) \subseteq Elems(s)
  BY <1>1 DEF Elems
<1> QED BY <1>1, <1>2, <1>3 DEF Elems

\* What a push does to the queues.
LEMMA PushQueues ==
  ASSUME TypeOK, NEW w \in Thread, NEW job \in Job, Push(w, job)
  PROVE  /\ queue' \in [Thread -> Seq(Job)]
         /\ \A v \in Thread : Len(queue'[v]) <= Cap[v]
         /\ \A v \in Thread \ {w} : queue'[v] = queue[v]
         /\ Elems(queue'[w]) = Elems(queue[w]) \cup {job}
         /\ queue[w] # <<>> => queue'[w] # <<>> /\ Head(queue'[w]) = Head(queue[w])
<1>1. queue \in [Thread -> Seq(Job)] /\ \A v \in Thread : Len(queue[v]) <= Cap[v]
  BY DEF TypeOK
<1>2. queue' = [queue EXCEPT ![w] = Append(queue[w], job)] /\ Len(queue[w]) < Cap[w]
  BY DEF Push
<1>3. Cap[w] \in Nat /\ Len(queue[w]) \in Nat /\ queue[w] \in Seq(Job)
  BY <1>1, WorkersAssumption
<1>4. Append(queue[w], job) \in Seq(Job) /\ Len(Append(queue[w], job)) <= Cap[w]
  BY <1>2, <1>3, AppendElems
<1>5. queue'[w] = Append(queue[w], job) /\ \A v \in Thread \ {w} : queue'[v] = queue[v]
  BY <1>1, <1>2
<1>6. queue' \in [Thread -> Seq(Job)]
  BY <1>1, <1>2, <1>4
<1>7. \A v \in Thread : Len(queue'[v]) <= Cap[v]
  BY <1>1, <1>4, <1>5
<1> QED BY <1>3, <1>5, <1>6, <1>7, AppendElems

\* What taking a job off does to them.
LEMMA PopQueues ==
  ASSUME TypeOK, NEW w \in Thread, queue[w] # <<>>, Pop(w)
  PROVE  /\ queue' \in [Thread -> Seq(Job)]
         /\ \A v \in Thread : Len(queue'[v]) <= Cap[v]
         /\ \A v \in Thread \ {w} : queue'[v] = queue[v]
         /\ Elems(queue[w]) = {Head(queue[w])} \cup Elems(queue'[w])
<1>1. queue \in [Thread -> Seq(Job)] /\ \A v \in Thread : Len(queue[v]) <= Cap[v]
  BY DEF TypeOK
<1>2. queue' = [queue EXCEPT ![w] = Tail(queue[w])]
  BY DEF Pop
<1>3. Cap[w] \in Nat /\ Len(queue[w]) \in Nat /\ queue[w] \in Seq(Job)
  BY <1>1, WorkersAssumption
<1>4. /\ Tail(queue[w]) \in Seq(Job)
      /\ Len(Tail(queue[w])) <= Cap[w]
      /\ Elems(queue[w]) = {Head(queue[w])} \cup Elems(Tail(queue[w]))
  BY <1>1, <1>3, TailElems
<1>5. queue'[w] = Tail(queue[w]) /\ \A v \in Thread \ {w} : queue'[v] = queue[v]
  BY <1>1, <1>2
<1>6. queue' \in [Thread -> Seq(Job)]
  BY <1>1, <1>2, <1>4
<1>7. \A v \in Thread : Len(queue'[v]) <= Cap[v]
  BY <1>1, <1>4, <1>5
<1> QED BY <1>4, <1>5, <1>6, <1>7

-----------------------------------------------------------------------------
\* The initial states satisfy the invariant.
LEMMA InitInv == ASSUME Init PROVE Inv
<1>1. TypeOK
  <2>1. \A w \in Thread : Cap[w] \in Nat
    BY WorkersAssumption
  <2>2. <<>> \in Seq(Job) /\ Len(<<>>) = 0
    OBVIOUS
  <2>3. 0 \in 0 .. LogCap /\ "front" \in Place
    BY WorkersAssumption DEF Place
  <2> QED BY <2>1, <2>2, <2>3 DEF Init, TypeOK
<1>2. Elems(queue["writer"]) = {} /\ signalled = {} /\ saved = {}
  BY DEF Init, Elems, Thread
<1> QED BY <1>1, <1>2 DEF Init, Inv, FinishesWait, SignalsOnly, Halfway, Stopping,
     EndedEmpty, Thread

\* The steps that move one thread within its loop.
LEMMA LoopStep ==
  ASSUME Inv, NEW w \in Thread,
         Drained(w) \/ Check(w) \/ Sleep(w) \/ Timeout(w) \/ Spurious(w)
  PROVE  Inv'
<1>1. UNCHANGED <<queue, log, running, game, owed, frames, uploads, signalled, saved,
                  refused, archived, leftRaw>>
  BY DEF Drained, Check, Sleep, Timeout, Spurious, rest, hist
<1>2. /\ at' \in [Thread -> Place]
      /\ at[w] # "done"
      /\ \A v \in Thread \ {w} : at'[v] = at[v]
      /\ at'[w] \notin {"logging", "logged", "notify"}
      /\ at'[w] = "done" => ~running /\ queue[w] = <<>>
  BY DEF Inv, TypeOK, Drained, Check, Sleep, Timeout, Spurious, Go, Place
<1>3. TypeOK'
  BY <1>1, <1>2 DEF Inv, TypeOK
<1>4. FinishesWait' /\ SignalsOnly'
  BY <1>1 DEF Inv, FinishesWait, SignalsOnly
<1>5. Halfway' /\ EndedEmpty'
  BY <1>1, <1>2 DEF Inv, Halfway, EndedEmpty, Thread
<1>6. Stopping'
  BY <1>1, <1>2 DEF Inv, Stopping
<1> QED BY <1>3, <1>4, <1>5, <1>6 DEF Inv

\* Waking threads changes neither what is done nor what is halfway.
LEMMA WakingStep ==
  ASSUME TypeOK, NEW W
  PROVE  /\ Woken(W) \in [Thread -> Place]
         /\ \A w \in Thread :
              IF at[w] = "asleep" THEN Woken(W)[w] \in {"asleep", "check"}
                                  ELSE Woken(W)[w] = at[w]
  BY DEF TypeOK, Woken, Place

\* A line more, if there is room for it.
LEMMA OneMoreLine ==
  ASSUME TypeOK, NEW w \in Thread, log[w] < LogCap
  PROVE  [log EXCEPT ![w] = log[w] + 1] \in [Thread -> 0 .. LogCap]
<1>1. log \in [Thread -> 0 .. LogCap] /\ LogCap \in Nat
  BY WorkersAssumption DEF TypeOK
<1>2. log[w] + 1 \in 0 .. LogCap
  BY <1>1
<1> QED BY <1>1, <1>2

\* Every step preserves the invariant.
LEMMA StepInv ==
  ASSUME Inv, [Next]_vars
  PROVE  Inv'
<1> USE DEF rest, hist
<1>t. TypeOK
  BY DEF Inv
<1>0. "writer" \in Thread /\ "upload" \in Thread /\ "compress" \in Thread
  BY DEF Thread
<1>1. ASSUME NEW w \in {"writer", "upload"}, NEW job \in {"frame", "upload"},
             GamePush(w, job),
             UNCHANGED <<at, log, running, game, hist>>,
             frames' \in Nat, uploads' \in Nat
      PROVE  Inv'
  <2>1. w \in Thread /\ job \in Job /\ job \notin Runs
    BY WorkersAssumption DEF Thread, Job
  <2>2. Push(w, job) /\ running /\ owed' \in Thread
    BY <1>1, <2>1 DEF GamePush, Inv, Stopping
  <2>3. TypeOK'
    BY <1>1, <2>1, <2>2, <1>t, PushQueues DEF TypeOK
  <2>4. FinishesWait' /\ SignalsOnly'
    BY <1>1, <2>1, <2>2, <1>t, <1>0, PushQueues DEF Inv, FinishesWait, SignalsOnly
  <2>5. Halfway'
    BY <1>1, <2>1, <2>2, <1>t, <1>0, PushQueues DEF Inv, Halfway
  <2>6. Stopping' /\ EndedEmpty'
    BY <1>1, <2>2 DEF Inv, Stopping, EndedEmpty
  <2> QED BY <2>3, <2>4, <2>5, <2>6 DEF Inv
<1>2. CASE PushFrame
  BY <1>2, <1>1, <1>t DEF PushFrame, TypeOK
<1>3. CASE PushUpload
  BY <1>3, <1>1, <1>t DEF PushUpload, TypeOK
<1>4. ASSUME NEW r \in Runs, PushFinish(r) PROVE Inv'
  <2>1. r \in Job /\ Push("writer", r) /\ running
    BY <1>4 DEF Job, PushFinish, Inv, Stopping
  <2>2. UNCHANGED <<at, log, running, game, owed, frames, uploads, saved, refused,
                  archived, leftRaw>>
        /\ signalled' = signalled \cup {r}
    BY <1>4 DEF PushFinish
  <2>3. TypeOK'
    BY <2>1, <2>2, <1>0, <1>t, PushQueues DEF TypeOK
  <2>4. Elems(queue'["writer"]) = Elems(queue["writer"]) \cup {r}
    BY <2>1, <1>t, <1>0, PushQueues
  <2>5. FinishesWait'
    BY <2>2, <2>4 DEF Inv, FinishesWait
  <2>6. SignalsOnly'
    BY <2>2, <2>4 DEF Inv, SignalsOnly
  <2>7. Halfway'
    BY <2>1, <2>2, <1>t, <1>0, PushQueues DEF Inv, Halfway
  <2>8. Stopping' /\ EndedEmpty'
    BY <2>1, <2>2 DEF Inv, Stopping, EndedEmpty
  <2> QED BY <2>3, <2>5, <2>6, <2>7, <2>8 DEF Inv
<1>5. ASSUME NEW W, at' = Woken(W), UNCHANGED <<queue, running, hist>>,
             TypeOK', Stopping'
      PROVE  Inv'
  <2>1. FinishesWait' /\ SignalsOnly'
    BY <1>5 DEF Inv, FinishesWait, SignalsOnly
  <2>2. Halfway' /\ EndedEmpty'
    BY <1>5, <1>t, <1>0, WakingStep DEF Inv, Halfway, EndedEmpty
  <2> QED BY <2>1, <2>2, <1>5 DEF Inv
<1>6. CASE GameNotify
  <2>1. TypeOK'
    BY <1>6, <1>t, WakingStep DEF GameNotify, TypeOK
  <2>2. Stopping'
    <3>1. UNCHANGED <<running, game>> /\ at' = Woken({owed})
      BY <1>6 DEF GameNotify
    <3>2. \A w \in Thread : at[w] = "done" => Woken({owed})[w] = "done"
      BY <1>t, WakingStep
    <3> QED BY <3>1, <3>2 DEF Inv, Stopping
  <2> QED BY <2>1, <2>2, <1>6, <1>5 DEF GameNotify
<1>7. CASE NotifyAll
  <2>1. TypeOK'
    BY <1>7, <1>t, WakingStep DEF NotifyAll, TypeOK
  <2>2. Stopping'
    BY <1>7, <1>t, WakingStep DEF NotifyAll, Inv, Stopping
  <2> QED BY <2>1, <2>2, <1>7, <1>5 DEF NotifyAll
<1>8. CASE Stop
  <2>1. log' \in [Thread -> 0 .. LogCap]
    BY <1>8, WorkersAssumption DEF Stop
  <2> QED BY <1>8, <2>1 DEF Stop, Inv, TypeOK, FinishesWait, SignalsOnly, Halfway, Stopping, EndedEmpty
<1>9. CASE Join
  BY <1>9 DEF Join, Inv, TypeOK, FinishesWait, SignalsOnly, Halfway, Stopping, EndedEmpty
<1>10. ASSUME NEW w \in {"writer", "upload"}, queue[w] # <<>>, Pop(w),
              w = "writer" => Head(queue[w]) \notin Runs \/ Head(queue[w]) \in saved,
              at' \in [Thread -> Place], at'[w] = "front",
              \A v \in Thread \ {w} :
                at'[v] = at[v] \/ (at[v] = "asleep" /\ at'[v] = "check"),
              at[w] # "done",
              UNCHANGED <<log, rest, hist>>
       PROVE  Inv'
  <2>1. w \in Thread
    BY <1>0
  <2>2. TypeOK'
    BY <1>10, <2>1, <1>t, PopQueues DEF TypeOK
  <2>3. FinishesWait' /\ SignalsOnly'
    BY <1>10, <2>1, <1>0, <1>t, PopQueues, SMTT(30) DEF Inv, FinishesWait, SignalsOnly, TypeOK
  <2>4. \A v \in Thread \ {w} : queue'[v] = queue[v]
    BY <1>10, <2>1, <1>t, PopQueues
  <2>5. Halfway'
    BY <1>10, <2>4, <1>0 DEF Inv, Halfway
  <2>6. EndedEmpty'
    BY <1>10, <2>4, <1>0 DEF Inv, EndedEmpty
  <2>7. Stopping'
    BY <1>10, <2>1 DEF Inv, Stopping
  <2> QED BY <2>2, <2>3, <2>5, <2>6, <2>7 DEF Inv
<1>10a. ASSUME NEW w \in {"writer", "upload"}, Do(w) PROVE Inv'
  <2>1. /\ w \in Thread /\ queue[w] # <<>> /\ Pop(w) /\ Head(queue[w]) \notin Runs
        /\ at[w] = "front"
        /\ UNCHANGED <<at, log, rest, hist>>
    BY <1>10a, <1>0 DEF Do
  <2>2. at' \in [Thread -> Place] /\ at'[w] = "front"
    BY <2>1, <1>t DEF TypeOK
  <2> QED BY <2>1, <2>2, <1>10
<1>10b. CASE EndUpload
  <2>1. /\ at["upload"] = "logged" /\ at' = [at EXCEPT !["upload"] = "front"]
        /\ Pop("upload")
        /\ UNCHANGED <<log, rest, hist>>
    BY <1>10b DEF EndUpload, Go
  <2>2. /\ at' \in [Thread -> Place] /\ at'["upload"] = "front"
        /\ \A v \in Thread \ {"upload"} : at'[v] = at[v]
    BY <2>1, <1>t, <1>0 DEF TypeOK, Place
  <2>3. queue["upload"] # <<>>
    BY <2>1 DEF Inv, Halfway
  <2> QED BY <2>1, <2>2, <2>3, <1>10
<1>11. ASSUME NEW w \in {"writer", "upload"}, NEW to \in {"logging", "logged", "notify"},
              at[w] # "done",
              at' = [at EXCEPT ![w] = to],
              queue' \in [Thread -> Seq(Job)],
              \A v \in Thread : Len(queue'[v]) <= Cap[v],
              \A v \in {"writer", "upload"} : queue'[v] = queue[v],
              queue[w] # <<>>,
              w = "writer" => Head(queue[w]) \in saved',
              w = "upload" => to # "notify",
              log' \in [Thread -> 0 .. LogCap],
              saved' \subseteq saved \cup (Elems(queue["writer"]) \cap Runs),
              saved \subseteq saved', refused' \subseteq Runs,
              UNCHANGED <<rest, signalled, archived, leftRaw>>
       PROVE  Inv'
  <2>1. /\ at' \in [Thread -> Place] /\ at'[w] = to
        /\ \A v \in Thread \ {w} : at'[v] = at[v]
    BY <1>11, <1>t, <1>0 DEF TypeOK, Place
  <2>2. TypeOK'
    BY <1>11, <2>1, <1>t DEF TypeOK
  <2>3. FinishesWait' /\ SignalsOnly'
    BY <1>11 DEF Inv, FinishesWait, SignalsOnly
  <2>4. Halfway'
    BY <1>11, <2>1, <1>0 DEF Inv, Halfway
  <2>5. EndedEmpty'
    BY <1>11, <2>1, <1>0 DEF Inv, EndedEmpty
  <2>6. Stopping'
    BY <1>11, <2>1, <1>0 DEF Inv, Stopping
  <2> QED BY <2>2, <2>3, <2>4, <2>5, <2>6 DEF Inv
<1>11a. CASE LogUpload
  <2>1. /\ queue["upload"] # <<>> /\ at["upload"] = "front"
        /\ at' = [at EXCEPT !["upload"] = "logging"]
        /\ UNCHANGED <<queue, log, rest, hist>>
    BY <1>11a DEF LogUpload, Go
  <2> QED BY <2>1, <1>t, <1>11 DEF TypeOK
<1>11b. ASSUME NEW w \in {"writer", "upload"}, WriteLog(w) PROVE Inv'
  <2>1. /\ at[w] = "logging" /\ at' = [at EXCEPT ![w] = "logged"]
        /\ log' = [log EXCEPT ![w] = log[w] + 1] /\ log[w] < LogCap
        /\ UNCHANGED <<queue, rest, hist>>
    BY <1>11b DEF WriteLog, Go
  <2>2. log' \in [Thread -> 0 .. LogCap]
    BY <2>1, <1>0, <1>t, OneMoreLine
  <2>3. queue[w] # <<>> /\ (w = "writer" => Head(queue[w]) \in saved)
    BY <2>1 DEF Inv, Halfway
  <2> QED BY <2>1, <2>2, <2>3, <1>t, <1>11 DEF TypeOK
<1>11c. ASSUME NEW r \in Runs, FinishRun(r) PROVE Inv'
  <2>1. /\ queue["writer"] # <<>> /\ Head(queue["writer"]) = r
        /\ saved' = saved \cup {r}
        /\ at["writer"] = "front" /\ at' = [at EXCEPT !["writer"] = "logging"]
        /\ UNCHANGED <<queue, log, rest, signalled, refused, archived, leftRaw>>
    BY <1>11c DEF FinishRun, Go
  <2>2. r \in Elems(queue["writer"])
    BY <2>1, <1>t, <1>0, TailElems DEF TypeOK
  <2> QED BY <2>1, <2>2, <1>t, <1>11 DEF TypeOK
<1>11d. ASSUME NEW r \in Runs, HandOver(r) PROVE Inv'
  <2>1. /\ Head(queue["writer"]) = r
        /\ at["writer"] = "logged" /\ at' = [at EXCEPT !["writer"] = "notify"]
        /\ UNCHANGED <<log, rest, signalled, saved, archived, leftRaw>>
        /\ refused' \subseteq Runs
    BY <1>11d, <1>t DEF HandOver, Go, TypeOK
  <2>2. /\ queue' \in [Thread -> Seq(Job)]
        /\ \A v \in Thread : Len(queue'[v]) <= Cap[v]
        /\ \A v \in {"writer", "upload"} : queue'[v] = queue[v]
    <3>1. CASE Push("compress", r)
      BY <3>1, <1>t, <1>0, PushQueues DEF Job
    <3>2. CASE UNCHANGED queue
      BY <3>2, <1>t DEF TypeOK
    <3> QED BY <3>1, <3>2, <1>11d DEF HandOver
  <2>3. queue["writer"] # <<>> /\ Head(queue["writer"]) \in saved
    BY <2>1 DEF Inv, Halfway
  <2> QED BY <2>1, <2>2, <2>3, <1>t, <1>11 DEF TypeOK
<1>12. CASE FinishNotify
  <2>1. /\ queue["writer"] # <<>> /\ Head(queue["writer"]) \in saved
        /\ at["writer"] = "notify"
        /\ Pop("writer")
        /\ UNCHANGED <<log, rest, hist>>
    BY <1>12 DEF FinishNotify, Inv, Halfway
  <2>2. at' = [Woken({"compress"}) EXCEPT !["writer"] = "front"]
    BY <1>12 DEF FinishNotify
  <2>3. /\ at' \in [Thread -> Place]
        /\ at'["writer"] = "front"
        /\ \A v \in Thread \ {"writer"} :
             at'[v] = at[v] \/ (at[v] = "asleep" /\ at'[v] = "check")
    <3>1. "front" \in Place
      BY DEF Place
    <3> QED BY <2>2, <3>1, <1>t, <1>0, WakingStep
  <2> QED BY <2>1, <2>3, <1>10
<1>13. ASSUME NEW r \in Runs, TakeJob(r), at["compress"] # "done",
              at' \in [Thread -> Place], at'["compress"] # "done",
              \A v \in Thread \ {"compress"} : at'[v] = at[v],
              archived' \subseteq Runs, leftRaw' \subseteq Runs,
              UNCHANGED <<log, running, game, owed, frames, uploads, signalled,
                          saved, refused>>
       PROVE  Inv'
  <2>1. queue["compress"] # <<>> /\ Pop("compress")
    BY <1>13 DEF TakeJob
  <2>2. TypeOK'
    BY <1>13, <2>1, <1>0, <1>t, PopQueues DEF TypeOK
  <2>3. \A v \in {"writer", "upload"} : queue'[v] = queue[v]
    BY <2>1, <1>0, <1>t, PopQueues
  <2>4. FinishesWait' /\ SignalsOnly' /\ Halfway' /\ EndedEmpty'
    BY <1>13, <2>3, <1>0 DEF Inv, FinishesWait, SignalsOnly, Halfway, EndedEmpty
  <2>5. Stopping'
    BY <1>13, <1>0 DEF Inv, Stopping
  <2> QED BY <2>2, <2>4, <2>5 DEF Inv
<1>13a. ASSUME NEW r \in Runs, Archive(r) PROVE Inv'
  <2>1. /\ TakeJob(r) /\ at["compress"] = "front" /\ archived' = archived \cup {r}
        /\ UNCHANGED <<at, log, rest, signalled, saved, refused, leftRaw>>
    BY <1>13a DEF Archive
  <2> QED BY <2>1, <1>13, <1>t DEF TypeOK
<1>13b. ASSUME NEW r \in Runs, ArchiveFails(r) PROVE Inv'
  <2>1. /\ TakeJob(r) /\ at["compress"] = "front" /\ leftRaw' = leftRaw \cup {r}
        /\ UNCHANGED <<log, rest, signalled, saved, refused, archived>>
    BY <1>13b DEF ArchiveFails, Go
  <2>2. PICK to \in {"erring", "logging"} : at' = [at EXCEPT !["compress"] = to]
    BY <1>13b DEF ArchiveFails, Go
  <2>3. /\ at' \in [Thread -> Place] /\ at'["compress"] # "done"
        /\ \A v \in Thread \ {"compress"} : at'[v] = at[v]
    BY <2>2, <1>t, <1>0 DEF TypeOK, Place
  <2> QED BY <2>1, <2>3, <1>13, <1>t DEF TypeOK
<1>13c. ASSUME NEW to \in {"front", "logging"}, at["compress"] # "done",
               at' = [at EXCEPT !["compress"] = to],
               log' \in [Thread -> 0 .. LogCap],
               UNCHANGED <<queue, rest, hist>>
        PROVE  Inv'
  <2>1. /\ at' \in [Thread -> Place] /\ at'["compress"] # "done"
        /\ \A v \in Thread \ {"compress"} : at'[v] = at[v]
    BY <1>13c, <1>t, <1>0 DEF TypeOK, Place
  <2>2. TypeOK'
    BY <1>13c, <2>1, <1>t DEF TypeOK
  <2>3. FinishesWait' /\ SignalsOnly' /\ Halfway' /\ EndedEmpty'
    BY <1>13c, <2>1, <1>0 DEF Inv, FinishesWait, SignalsOnly, Halfway, EndedEmpty
  <2>4. Stopping'
    BY <1>13c, <2>1, <1>0 DEF Inv, Stopping
  <2> QED BY <2>2, <2>3, <2>4 DEF Inv
<1>13d. CASE WriteError
  <2>1. /\ at["compress"] = "erring" /\ at' = [at EXCEPT !["compress"] = "logging"]
        /\ log' = [log EXCEPT !["upload"] = log["upload"] + 1]
        /\ log["upload"] < LogCap
        /\ UNCHANGED <<queue, rest, hist>>
    BY <1>13d DEF WriteError, Go
  <2> QED BY <2>1, <1>0, <1>13c, OneMoreLine, <1>t
<1>13e. CASE WriteFailure
  <2>1. /\ at["compress"] = "logging" /\ at' = [at EXCEPT !["compress"] = "front"]
        /\ log' = [log EXCEPT !["compress"] = log["compress"] + 1]
        /\ log["compress"] < LogCap
        /\ UNCHANGED <<queue, rest, hist>>
    BY <1>13e DEF WriteFailure, Go
  <2> QED BY <2>1, <1>0, <1>13c, OneMoreLine, <1>t
<1>14. CASE UNCHANGED vars
  BY <1>14 DEF vars, Inv, TypeOK, FinishesWait, SignalsOnly, Halfway, Stopping, EndedEmpty
<1>15. ASSUME NEW w \in Thread, Work(w) PROVE Inv'
  <2>1. CASE w = "compress"
    BY <2>1, <1>15, <1>13a, <1>13b, <1>13d, <1>13e DEF Work
  <2>2. CASE w # "compress"
    BY <2>2, <1>15, <1>10a, <1>10b, <1>11a, <1>11b, <1>11c, <1>11d, <1>12 DEF Work
  <2> QED BY <2>1, <2>2
<1>16. ASSUME NEW w \in Thread, Flush(w) PROVE Inv'
  <2>1. /\ log[w] > 0 /\ log' = [log EXCEPT ![w] = log[w] - 1]
        /\ UNCHANGED <<queue, at, running, game, owed, frames, uploads, hist>>
    BY <1>16 DEF Flush
  <2>2. log' \in [Thread -> 0 .. LogCap]
    BY <2>1, <1>t, WorkersAssumption DEF TypeOK
  <2> QED BY <2>1, <2>2 DEF Inv, TypeOK, FinishesWait, SignalsOnly, Halfway, Stopping,
            EndedEmpty
<1> QED BY <1>2, <1>3, <1>4, <1>6, <1>7, <1>8, <1>9, <1>14, <1>15, <1>16, LoopStep
        DEF Next, Loop

\* The invariant holds in every reachable state.
LEMMA InvHolds == Spec => []Inv
<1>1. Init => Inv
  BY InitInv
<1>2. Inv /\ [Next]_vars => Inv'
  BY StepInv
<1> QED BY <1>1, <1>2, PTL DEF Spec

\* The queues hold jobs and never more than their capacity, and so on.
THEOREM WorkersTypeCorrect == Spec => []TypeOK
<1>1. Inv => TypeOK
  BY DEF Inv
<1> QED BY <1>1, InvHolds, PTL

(***************************************************************************)
(* When kz_rp_uninit has returned, every run that was finished is on disk  *)
(* and every upload was sent.                                              *)
(***************************************************************************)
THEOREM ShutdownLosesNothing == Spec => []NothingLeftBehind
<1>1. Inv => NothingLeftBehind
  <2> SUFFICES ASSUME Inv, game = "gone" PROVE NothingLeftBehind
    BY DEF NothingLeftBehind
  <2>1. queue["writer"] = <<>> /\ queue["upload"] = <<>>
    BY DEF Inv, Stopping, EndedEmpty, Thread
  <2>2. Elems(<<>>) = {}
    BY DEF Elems
  <2>3. signalled = saved
    BY <2>1, <2>2 DEF Inv, FinishesWait, SignalsOnly
  <2> QED BY <2>1, <2>3 DEF NothingLeftBehind
<1> QED BY <1>1, InvHolds, PTL

-----------------------------------------------------------------------------
(***************************************************************************)
(* Playback.                                                               *)
(***************************************************************************)
Parsing == {"exists", "push", "pop"}

\* While the parser works on a file that is the head of its queue.
HeadIsThere == parser \in Parsing => parseQueue # <<>>

\* The bot is set up after the load, and not before.
NotYet == waiting => ~entity

\* What was removed with its record is not stored.
GoneIsGone == gone \cap disk = {}

\* What is being handed over is of the map, and not deleted: the record is
\* deleted and the map loaded by the game thread itself.
ChosenFits ==
  choice # None => entity /\ choice.map = map /\ choice \notin gone

BotInv == /\ BotTypeOK /\ HeadIsThere /\ NotYet /\ GoneIsGone /\ ChosenFits
       /\ BotOnItsMap /\ ParsedIsAnnounced /\ DeletedIsNotShown

-----------------------------------------------------------------------------
\* A set of natural numbers has a least element.
LEMMA LeastNat ==
  ASSUME NEW S, S \subseteq Nat, S # {}
  PROVE  \E x \in S : \A y \in S : x <= y
<1>1. PICK x \in S : \A y \in S : <<y, x>> \notin OpToRel(<, Nat)
  BY WFMin, NatLessThanWellFounded, Zenon
<1>2. \A y \in S : <<y, x>> \in Nat \X Nat => ~ (<<y, x>>[1] < <<y, x>>[2])
  BY <1>1, Zenon DEF OpToRel
<1>3. ASSUME NEW y \in S PROVE x <= y
  <2>1. y \in Nat /\ x \in Nat
    OBVIOUS
  <2>2. <<y, x>> \in Nat \X Nat /\ <<y, x>>[1] = y /\ <<y, x>>[2] = x
    BY <2>1
  <2>3. ~ (<<y, x>>[1] < <<y, x>>[2])
    BY <2>2, <1>2, Zenon
  <2> QED BY <2>1, <2>2, <2>3
<1> QED BY <1>3

\* Among replays there is a fastest one.
LEMMA FastestExists ==
  ASSUME NEW here, here \subseteq Files, here # {}
  PROVE  \E f \in here : \A g \in here : f.rank <= g.rank
<1> DEFINE ranks == {f.rank : f \in here}
<1>1. \A f \in here : f.rank \in Nat
  BY PlaybackAssumption
<1>2. ranks \subseteq Nat /\ ranks # {}
  BY <1>1
<1>3. PICK x \in ranks : \A y \in ranks : x <= y
  <2> HIDE DEF ranks
  <2> QED BY <1>2, LeastNat
<1>4. PICK f \in here : f.rank = x
  OBVIOUS
<1>5. ASSUME NEW g \in here PROVE f.rank <= g.rank
  <2>1. g.rank \in ranks
    OBVIOUS
  <2> QED BY <2>1, <1>3, <1>4
<1> QED BY <1>5

\* Among places in a list there is a last one.
LEMMA LastExists ==
  ASSUME NEW n \in Nat, NEW V, V \subseteq 1 .. n, V # {}
  PROVE  \E i \in V : \A j \in V : j <= i
<1> DEFINE back == {n - i : i \in V}
<1>1. back \subseteq Nat /\ back # {}
  <2>1. \A i \in V : i \in 1 .. n
    OBVIOUS
  <2>2. \A i \in 1 .. n : n - i \in Nat
    OBVIOUS
  <2> QED BY <2>1, <2>2
<1>2. PICK x \in back : \A y \in back : x <= y
  <2> HIDE DEF back
  <2> QED BY <1>1, LeastNat
<1>3. PICK i \in V : n - i = x
  OBVIOUS
<1>4. ASSUME NEW j \in V PROVE j <= i
  <2>1. n - j \in back
    OBVIOUS
  <2>2. n - i <= n - j
    BY <2>1, <1>2, <1>3
  <2>3. i \in Int /\ j \in Int
    OBVIOUS
  <2> QED BY <2>2, <2>3
<1> QED BY <1>4

\* kz_pb_find_fastest finds a stored replay of the map, or none.
LEMMA FastestIsStored ==
  ASSUME NEW D, D \subseteq Files, NEW m,
         NEW here, here = {f \in D : f.map = m}
  PROVE  (IF here = {} THEN None
          ELSE CHOOSE f \in here : \A g \in here : f.rank <= g.rank)
           \in D \cup {None}
<1>1. CASE here # {}
  <2>1. here \subseteq Files
    OBVIOUS
  <2>2. \E f \in here : \A g \in here : f.rank <= g.rank
    BY <1>1, <2>1, FastestExists
  <2>3. (CHOOSE f \in here : \A g \in here : f.rank <= g.rank) \in here
    BY <2>2
  <2> QED BY <1>1, <2>3
<1> QED BY <1>1

\* So do kz_pb_find_fastest and kz_pb_find_sr_replay before and after a step.
LEMMA SrIsStored ==
  ASSUME disk \subseteq Files, disk' \subseteq Files
  PROVE  /\ \A m : Fastest(m) \in Files \cup {None}
         /\ SrReplay(map) \in Files \cup {None}
         /\ SrReplay(map)' \in Files \cup {None}
<1>1. \A m : Fastest(m) \in Files \cup {None}
  BY FastestIsStored DEF Fastest
<1>2. Fastest(map)' \in Files \cup {None}
  BY FastestIsStored DEF Fastest
<1>3. SrReplay(map) \in Files \cup {None}
  BY <1>1 DEF SrReplay
<1>4. SrReplay(map)' \in Files \cup {None}
  BY <1>2 DEF SrReplay
<1> QED BY <1>1, <1>3, <1>4

\* What the queue is after kz_pb_parse_file_async.
LEMMA ParseQueue ==
  ASSUME BotTypeOK, HeadIsThere, NEW f \in Files \cup {None},
         Parse(f) \/ UNCHANGED <<parseQueue, parser>>
  PROVE  /\ parseQueue' \in Seq(Files)
         /\ Len(parseQueue') <= QueueCap
         /\ parser' \in {"look", "exists", "push", "pop", "doze", "asleep"}
         /\ HeadIsThere'
<1>1. CASE UNCHANGED <<parseQueue, parser>>
  BY <1>1 DEF BotTypeOK, HeadIsThere
<1>2. CASE Parse(f) /\ ~ UNCHANGED <<parseQueue, parser>>
  <2>1. /\ f \in Files /\ Len(parseQueue) # QueueCap
        /\ parseQueue' = Append(parseQueue, f)
        /\ parser' = IF parser = "asleep" THEN "look" ELSE parser
    BY <1>2 DEF Parse
  <2>2. parseQueue \in Seq(Files) /\ Len(parseQueue) <= QueueCap /\ Len(parseQueue) \in Nat
        /\ QueueCap \in Nat
    BY PlaybackAssumption DEF BotTypeOK
  <2>3. /\ parseQueue' \in Seq(Files) /\ Len(parseQueue') <= QueueCap
        /\ Len(parseQueue') = Len(parseQueue) + 1
    BY <2>1, <2>2
  <2>4. parseQueue' # <<>>
    <3>1. Len(<<>>) = 0
      OBVIOUS
    <3> QED BY <2>2, <2>3, <3>1
  <2> QED BY <2>1, <2>3, <2>4 DEF HeadIsThere, BotTypeOK
<1> QED BY <1>1, <1>2

\* What kz_pb_parse_file_async makes of the order queued last.
LEMMA Ordered ==
  ASSUME BotTypeOK, HeadIsThere, NEW f \in Files \cup {None},
         Parse(f) \/ UNCHANGED <<parseQueue, parser>>,
         NEW old \in Files \cup {None}, Recall(old)
  PROVE  /\ asked' \in Files \cup {None}
         /\ \/ UNCHANGED <<parseQueue, parser>> /\ asked' = old
            \/ /\ f # None /\ asked' = f
               /\ parseQueue' # <<>> /\ parseQueue'[Len(parseQueue')] = f
               /\ parser' = "pop" => Len(parseQueue') > 1
<1>1. parseQueue \in Seq(Files) /\ Len(parseQueue) \in Nat
  BY DEF BotTypeOK
<1>2. CASE UNCHANGED <<parseQueue, parser>>
  BY <1>1, <1>2 DEF Recall
<1>3. CASE Parse(f) /\ ~ UNCHANGED <<parseQueue, parser>>
  <2>1. /\ f \in Files /\ f # None
        /\ parseQueue' = Append(parseQueue, f)
        /\ parser' = IF parser = "asleep" THEN "look" ELSE parser
    BY <1>3 DEF Parse
  <2>2. /\ Len(parseQueue') = Len(parseQueue) + 1
        /\ parseQueue'[Len(parseQueue')] = f
    BY <1>1, <2>1
  <2>3. asked' = f
    BY <1>1, <2>2 DEF Recall
  <2>4. parseQueue' # <<>>
    <3>1. Len(<<>>) = 0
      OBVIOUS
    <3> QED BY <1>1, <2>2, <3>1
  <2>5. parser' = "pop" => Len(parseQueue') > 1
    <3> SUFFICES ASSUME parser' = "pop" PROVE Len(parseQueue') > 1
      OBVIOUS
    <3>1. parseQueue # <<>>
      BY <2>1 DEF HeadIsThere, Parsing
    <3>2. Len(parseQueue) # 0
      BY <1>1, <3>1
    <3> QED BY <1>1, <2>2, <3>2
  <2> QED BY <2>1, <2>2, <2>3, <2>4, <2>5
<1> QED BY <1>2, <1>3
-----------------------------------------------------------------------------
\* The initial states satisfy the invariant.
LEMMA BotInitInv == ASSUME BotInit PROVE BotInv
<1>1. <<>> \in Seq(Files) /\ <<>> \in Seq(Files \cup {None}) /\ Len(<<>>) = 0
  OBVIOUS
<1>2. DOMAIN <<>> = {}
  OBVIOUS
<1>3. BotTypeOK
  <2>1. parseQueue \in Seq(Files) /\ data \in Seq(Files \cup {None})
    BY <1>1 DEF BotInit
  <2>2. Len(parseQueue) <= QueueCap
    BY <1>1, PlaybackAssumption DEF BotInit
  <2>3. {proWR, waiting, entity, bot, fresh} \subseteq BOOLEAN
    BY DEF BotInit
  <2>4. {playing, choice, asked} \subseteq Files \cup {None}
    BY DEF BotInit
  <2> QED BY <2>1, <2>2, <2>3, <2>4 DEF BotInit, BotTypeOK
<1>4. ParsedIsAnnounced
  BY <1>2 DEF BotInit, ParsedIsAnnounced
<1> QED BY <1>3, <1>4 DEF BotInit, BotInv, HeadIsThere, NotYet, GoneIsGone, ChosenFits,
     BotOnItsMap, DeletedIsNotShown, Parsing

\* A step of the parser preserves the invariant.
LEMMA ParserStepInv ==
  ASSUME BotInv, Parser \/ ParserWakes
  PROVE  BotInv'
<1>1. UNCHANGED <<disk, proWR, map, waiting, entity, bot, playing, choice, orders, gone, asked>>
  BY DEF Parser, ParserWakes, Look, Exists, PushData, PopFile, ParserSleeps, ParserStep, disks, bots
<1>2. /\ parseQueue' \in Seq(Files) /\ Len(parseQueue') <= QueueCap
      /\ parser' \in {"look", "exists", "push", "pop", "doze", "asleep"}
      /\ HeadIsThere'
  <2>1. QueueCap \in Nat /\ parseQueue \in Seq(Files) /\ Len(parseQueue) \in Nat
    BY PlaybackAssumption DEF BotInv, BotTypeOK
  <2>2. CASE PopFile
    <3>1. parseQueue # <<>> /\ parseQueue' = Tail(parseQueue) /\ parser' = "look"
      BY <2>2 DEF PopFile, ParserStep, BotInv, HeadIsThere, Parsing
    <3>2. Tail(parseQueue) \in Seq(Files) /\ Len(Tail(parseQueue)) = Len(parseQueue) - 1
      BY <3>1, <2>1
    <3> QED BY <3>1, <3>2, <2>1 DEF BotInv, BotTypeOK, HeadIsThere, Parsing
  <2>3. CASE ~ PopFile
    <3>1. /\ parseQueue' = parseQueue
          /\ parser' \in {"look", "exists", "push", "pop", "doze", "asleep"}
          /\ parser' \in Parsing => parseQueue # <<>>
      BY <2>3 DEF Parser, ParserWakes, Look, Exists, PushData, ParserSleeps, ParserStep, BotInv,
                  HeadIsThere, Parsing
    <3> QED BY <3>1 DEF BotInv, BotTypeOK, HeadIsThere
  <2> QED BY <2>2, <2>3
<1>3. /\ data' \in Seq(Files \cup {None})
      /\ fresh' \in BOOLEAN
      /\ ParsedIsAnnounced'
  <2>1. CASE PushData
    <3>1. parseQueue # <<>> /\ parseQueue \in Seq(Files)
      BY <2>1 DEF PushData, ParserStep, BotInv, HeadIsThere, Parsing, BotTypeOK
    <3>2. Head(parseQueue) \in Files
      BY <3>1
    <3>3. data' = Append(data, Head(parseQueue)) /\ fresh' = TRUE
      BY <2>1 DEF PushData
    <3> QED BY <3>2, <3>3 DEF BotInv, BotTypeOK, ParsedIsAnnounced
  <2>2. CASE ~ PushData
    <3>1. UNCHANGED <<data, fresh>>
      BY <2>2 DEF Parser, ParserWakes, Look, Exists, PopFile, ParserSleeps
    <3> QED BY <3>1, <1>1 DEF BotInv, BotTypeOK, ParsedIsAnnounced
  <2> QED BY <2>1, <2>2
<1>4. BotTypeOK'
  BY <1>1, <1>2, <1>3 DEF BotInv, BotTypeOK
<1>5. NotYet' /\ GoneIsGone' /\ ChosenFits' /\ BotOnItsMap' /\ DeletedIsNotShown'
  BY <1>1 DEF BotInv, NotYet, GoneIsGone, ChosenFits, BotOnItsMap, DeletedIsNotShown
<1> QED BY <1>2, <1>3, <1>4, <1>5 DEF BotInv

\* Erasing a replay keeps the list and its announcement.
LEMMA DropData ==
  ASSUME BotInv, NEW f \in Files, Drop(f), choice = None
  PROVE  /\ data' \in Seq(Files \cup {None})
         /\ fresh' \in BOOLEAN
         /\ ParsedIsAnnounced'
<1>1. /\ data' = [i \in DOMAIN data |-> IF data[i] = f THEN None ELSE data[i]]
      /\ fresh' = (fresh /\ \E i \in DOMAIN data : data[i] \notin {f, None})
  BY DEF Drop
<1>2. data \in Seq(Files \cup {None})
  BY DEF BotInv, BotTypeOK
<1>3. /\ Len(data) \in Nat
      /\ DOMAIN data = 1 .. Len(data)
      /\ \A i \in DOMAIN data : data[i] \in Files \cup {None}
  BY <1>2
<1>4. data' \in Seq(Files \cup {None})
  BY <1>1, <1>3
<1>5. DOMAIN data' = DOMAIN data
  BY <1>1
<1>6. ASSUME NEW i \in DOMAIN data', data'[i] # None PROVE fresh'
  <2>1. i \in DOMAIN data /\ data[i] # f /\ data[i] # None
    BY <1>1, <1>5, <1>6
  <2>2. fresh
    BY <2>1 DEF BotInv, ParsedIsAnnounced
  <2> QED BY <2>1, <2>2, <1>1
<1> QED BY <1>1, <1>4, <1>6 DEF ParsedIsAnnounced

\* A step of the game thread preserves the types, and so on.
LEMMA GameStepInv ==
  ASSUME BotInv, BotNext, ~ Parser, ~ ParserWakes
  PROVE  BotInv'
<1> USE DEF disks, bots, parsed
<1>t. BotTypeOK /\ HeadIsThere
  BY DEF BotInv
<1>1. ASSUME disk' \subseteq Files, map' \in Maps,
             {proWR', waiting', entity', bot'} \subseteq BOOLEAN,
             {playing', choice', asked'} \subseteq Files \cup {None},
             choice' # None => entity' /\ choice'.map = map' /\ choice' \notin gone',
             gone' \subseteq Files,
             bot' => entity', waiting' => ~entity', gone' \cap disk' = {},
             bot' => playing' # None /\ playing'.map = map' /\ playing' \notin gone',
             data' \in Seq(Files \cup {None}), fresh' \in BOOLEAN, ParsedIsAnnounced',
             NEW f \in Files \cup {None},
             Parse(f) \/ UNCHANGED <<parseQueue, parser>>
      PROVE  BotInv'
  <2>1. BotTypeOK' /\ HeadIsThere'
    BY <1>t, <1>1, ParseQueue DEF BotTypeOK
  <2> QED BY <2>1, <1>1 DEF BotInv, NotYet, GoneIsGone, ChosenFits, BotOnItsMap,
          DeletedIsNotShown
<1>d. ASSUME UNCHANGED <<data, fresh, choice>>
      PROVE  data' \in Seq(Files \cup {None}) /\ fresh' \in BOOLEAN /\ ParsedIsAnnounced'
  BY <1>d DEF BotInv, BotTypeOK, ParsedIsAnnounced
<1>2. ASSUME NEW m \in Maps, LoadMap(m) PROVE BotInv'
  <2>1. /\ UNCHANGED <<disk, playing, fresh, choice, gone>> /\ choice = None
        /\ map' = m /\ waiting' = TRUE /\ entity' = FALSE /\ bot' = FALSE
        /\ data' = <<>> /\ proWR' \in BOOLEAN
        /\ Parse(Fastest(m)) \/ UNCHANGED <<parseQueue, parser>>
        /\ Recall(None)
    BY <1>2, <1>t DEF LoadMap, BotTypeOK, Free
  <2>2. <<>> \in Seq(Files \cup {None}) /\ DOMAIN <<>> = {}
    OBVIOUS
  <2>3. ParsedIsAnnounced'
    BY <2>1, <2>2 DEF ParsedIsAnnounced
  <2>4. Fastest(m) \in Files \cup {None}
    BY <2>1, <1>t, SrIsStored DEF BotTypeOK
  <2>5. asked' \in Files \cup {None}
    BY <2>1, <2>4, <1>t, Ordered
  <2> QED BY <2>1, <2>2, <2>3, <2>4, <2>5, <1>t, <1>1 DEF BotInv, BotTypeOK, GoneIsGone
<1>3. CASE LearnProRecord
  <2>1. /\ UNCHANGED <<disk, map, waiting, entity, bot, playing, parseQueue, parser, data, fresh,
                       choice, gone, asked>>
        /\ proWR' = TRUE
    BY <1>3 DEF LearnProRecord
  <2> QED BY <2>1, <1>t, <1>d, <1>1 DEF BotInv, BotTypeOK, NotYet, GoneIsGone, ChosenFits,
          BotOnItsMap, DeletedIsNotShown
<1>4. CASE SetUp
  <2>1. /\ UNCHANGED <<disk, proWR, map, bot, data, fresh, choice, gone>> /\ choice = None
        /\ waiting /\ waiting' = FALSE /\ entity' = TRUE
        /\ playing' \in {None, playing}
        /\ Parse(SrReplay(map))
        /\ Recall(asked)
    BY <1>4 DEF SetUp, Free
  <2>2. ~ bot
    BY <2>1, <1>t DEF BotInv, NotYet, BotTypeOK
  <2>3. SrReplay(map) \in Files \cup {None}
    BY <2>1, <1>t, SrIsStored DEF BotTypeOK
  <2>4. asked' \in Files \cup {None}
    BY <2>1, <2>3, <1>t, Ordered DEF BotTypeOK
  <2> QED BY <2>1, <2>2, <2>3, <2>4, <1>t, <1>d, <1>1 DEF BotInv, BotTypeOK, GoneIsGone
<1>5. CASE Choose
  <2>1. /\ UNCHANGED <<disk, proWR, map, waiting, entity, bot, playing, parseQueue, parser, gone,
                       asked>>
        /\ choice = None /\ entity /\ fresh' = FALSE
    BY <1>5 DEF Choose, Free
  <2>2. CASE Valid = {}
    <3>1. data' = <<>> /\ choice' = choice
      BY <2>2, <1>5 DEF Choose
    <3>2. <<>> \in Seq(Files \cup {None}) /\ DOMAIN <<>> = {}
      OBVIOUS
    <3>3. ParsedIsAnnounced'
      BY <3>1, <3>2 DEF ParsedIsAnnounced
    <3> QED BY <3>1, <3>2, <3>3, <2>1, <1>t, <1>1 DEF BotInv, BotTypeOK, NotYet, GoneIsGone,
            BotOnItsMap, DeletedIsNotShown
  <2>3. CASE Valid # {}
    <3>1. data \in Seq(Files \cup {None})
      BY <1>t DEF BotTypeOK
    <3>2. Len(data) \in Nat /\ Valid \subseteq 1 .. Len(data)
      BY <3>1 DEF Valid
    <3>3. \E i \in Valid : \A j \in Valid : j <= i
      BY <2>3, <3>2, LastExists
    <3>4. PICK i \in Valid : choice' = data[i] /\ data' = data
      BY <2>3, <3>3, <1>5 DEF Choose
    <3>5. choice' \in disk /\ choice'.map = map
      BY <3>4 DEF Valid
    <3>6. choice' \in Files /\ choice' # None /\ choice' \notin gone
      BY <3>5, <1>t, PlaybackAssumption DEF BotTypeOK, BotInv, GoneIsGone
    <3>7. ParsedIsAnnounced'
      BY <3>6 DEF ParsedIsAnnounced
    <3> QED BY <3>1, <3>4, <3>5, <3>6, <3>7, <2>1, <1>t, <1>1 DEF BotInv, BotTypeOK, NotYet,
            GoneIsGone, BotOnItsMap, DeletedIsNotShown
  <2> QED BY <2>2, <2>3
<1>6. CASE Take
  <2>1. /\ UNCHANGED <<disk, proWR, map, waiting, entity, parseQueue, parser, fresh, gone, asked>>
        /\ choice # None /\ choice' = None /\ playing' = choice /\ bot' \in {TRUE, bot}
        /\ data' = <<>>
    BY <1>6 DEF Take
  <2>2. <<>> \in Seq(Files \cup {None}) /\ DOMAIN <<>> = {}
    OBVIOUS
  <2>3. ParsedIsAnnounced'
    BY <2>1, <2>2 DEF ParsedIsAnnounced
  <2> QED BY <2>1, <2>2, <2>3, <1>t, <1>1 DEF BotInv, BotTypeOK, NotYet, GoneIsGone, ChosenFits
<1>7. CASE LoseBot
  <2>1. /\ UNCHANGED <<disk, proWR, map, waiting, entity, playing, parseQueue, parser, data, fresh,
                       choice, gone, asked>>
        /\ bot' = FALSE
    BY <1>7 DEF LoseBot
  <2> QED BY <2>1, <1>t, <1>d, <1>1 DEF BotInv, BotTypeOK, NotYet, GoneIsGone, ChosenFits
<1>8. ASSUME NEW f \in Files, NewReplay(f) PROVE BotInv'
  <2>1. /\ disk' = disk \cup {f} /\ gone' = gone \ {f} /\ choice = None
        /\ UNCHANGED <<proWR, map, waiting, entity, bot, playing, data, fresh, choice>>
        /\ Parse(f) \/ Parse(SrReplay(map)') \/ UNCHANGED <<parseQueue, parser>>
        /\ Recall(asked)
    BY <1>8 DEF NewReplay, Free
  <2>2. disk' \subseteq Files
    BY <2>1, <1>t DEF BotTypeOK
  <2>3. SrReplay(map)' \in Files \cup {None}
    BY <2>2, <1>t, SrIsStored DEF BotTypeOK
  <2>4. PICK g \in Files \cup {None} : Parse(g) \/ UNCHANGED <<parseQueue, parser>>
    BY <2>1, <2>3
  <2>5. asked' \in Files \cup {None}
    BY <2>1, <2>4, <1>t, Ordered DEF BotTypeOK
  <2> QED BY <2>1, <2>2, <2>4, <2>5, <1>t, <1>d, <1>1 DEF BotInv, BotTypeOK, NotYet, GoneIsGone,
          BotOnItsMap, DeletedIsNotShown
<1>9. ASSUME NEW f \in Files, DeleteRecord(f) PROVE BotInv'
  <2>1. /\ disk' = disk \ {f} /\ gone' = gone \cup {f}
        /\ Drop(f) /\ StopBot(f)
        /\ UNCHANGED <<proWR, map, waiting, entity, choice>> /\ choice = None
        /\ Parse(SrReplay(map)') \/ UNCHANGED <<parseQueue, parser>>
        /\ Recall(Unless(f))
    BY <1>9 DEF DeleteRecord, Free
  <2>2. disk' \subseteq Files
    BY <2>1, <1>t DEF BotTypeOK
  <2>3. SrReplay(map)' \in Files \cup {None}
    BY <2>2, <1>t, SrIsStored DEF BotTypeOK
  <2>4. PICK g \in Files \cup {None} : Parse(g) \/ UNCHANGED <<parseQueue, parser>>
    BY <2>1, <2>3
  <2>5. /\ bot' \in BOOLEAN /\ playing' \in Files \cup {None}
        /\ bot' => bot /\ playing # f /\ playing' = playing
    BY <2>1, <1>t DEF StopBot, BotTypeOK
  <2>6. Unless(f) \in Files \cup {None}
    BY <1>t DEF Unless, BotTypeOK
  <2>7. asked' \in Files \cup {None}
    BY <2>1, <2>4, <2>6, <1>t, Ordered
  <2>8. data' \in Seq(Files \cup {None}) /\ fresh' \in BOOLEAN /\ ParsedIsAnnounced'
    BY <2>1, DropData
  <2> QED BY <2>1, <2>2, <2>4, <2>5, <2>7, <2>8, <1>t, <1>1 DEF BotInv, BotTypeOK, NotYet,
          GoneIsGone, BotOnItsMap, DeletedIsNotShown
<1>10. ASSUME NEW f \in Files, Prune(f) PROVE BotInv'
  <2>1. /\ disk' = disk \ {f} /\ asked' = Unless(f)
        /\ UNCHANGED <<proWR, map, waiting, entity, bot, playing, parseQueue, parser, data,
                       fresh, choice, gone>>
    BY <1>10 DEF Prune
  <2>2. asked' \in Files \cup {None}
    BY <2>1, <1>t DEF Unless, BotTypeOK
  <2> QED BY <2>1, <2>2, <1>t, <1>d, <1>1 DEF BotInv, BotTypeOK, NotYet, GoneIsGone, ChosenFits,
          BotOnItsMap, DeletedIsNotShown
<1>11. ASSUME NEW f \in Files, Command(f) PROVE BotInv'
  <2>1. /\ Parse(f) /\ Recall(asked) /\ choice = None
        /\ UNCHANGED <<disk, proWR, map, waiting, entity, bot, playing, data, fresh, choice, gone>>
    BY <1>11 DEF Command, Free
  <2>2. asked' \in Files \cup {None}
    BY <2>1, <1>t, Ordered DEF BotTypeOK
  <2> QED BY <2>1, <2>2, <1>t, <1>d, <1>1 DEF BotInv, BotTypeOK, NotYet, GoneIsGone,
          BotOnItsMap, DeletedIsNotShown
<1> QED BY <1>2, <1>3, <1>4, <1>5, <1>6, <1>7, <1>8, <1>9, <1>10, <1>11 DEF BotNext

\* The invariant holds in every reachable state.
LEMMA BotInvHolds == BotSpec => []BotInv
<1>1. BotInit => BotInv
  BY BotInitInv
<1>2. BotInv /\ [BotNext]_botVars => BotInv'
  <2> SUFFICES ASSUME BotInv, [BotNext]_botVars PROVE BotInv'
    OBVIOUS
  <2>1. CASE Parser \/ ParserWakes
    BY <2>1, ParserStepInv
  <2>2. CASE BotNext /\ ~ Parser /\ ~ ParserWakes
    BY <2>2, GameStepInv
  <2>3. CASE UNCHANGED botVars
    BY <2>3 DEF botVars, disks, bots, BotInv, BotTypeOK, HeadIsThere, parsed, NotYet, GoneIsGone,
       ChosenFits, BotOnItsMap, ParsedIsAnnounced, DeletedIsNotShown
  <2> QED BY <2>1, <2>2, <2>3
<1> QED BY <1>1, <1>2, PTL DEF BotSpec

\* Every variable keeps its type; the queue keeps its capacity.
THEOREM PlaybackTypeCorrect == BotSpec => []BotTypeOK
<1>1. BotInv => BotTypeOK
  BY DEF BotInv
<1> QED BY <1>1, BotInvHolds, PTL

\* A bot in the game shows a replay of the map that is played.
THEOREM BotShowsItsMap == BotSpec => []BotOnItsMap
<1>1. BotInv => BotOnItsMap
  BY DEF BotInv
<1> QED BY <1>1, BotInvHolds, PTL

\* A parsed replay that waits is announced.
THEOREM NoReplayWaitsUnseen == BotSpec => []ParsedIsAnnounced
<1>1. BotInv => ParsedIsAnnounced
  BY DEF BotInv
<1> QED BY <1>1, BotInvHolds, PTL

\* The bot shows no replay that was deleted with its record.
THEOREM NoDeletedShown == BotSpec => []DeletedIsNotShown
<1>1. BotInv => DeletedIsNotShown
  BY DEF BotInv
<1> QED BY <1>1, BotInvHolds, PTL

-----------------------------------------------------------------------------
(***************************************************************************)
(* The order queued last reaches the bot.  It is the last of the parser's  *)
(* queue until it is decoded; it is then the last of the parsed replays,   *)
(* next the one a frame has chosen, and in the end the one that is shown.  *)
(***************************************************************************)
LastQueued ==
  /\ parseQueue # <<>> /\ parseQueue[Len(parseQueue)] = asked
  /\ parser = "pop" => Len(parseQueue) > 1

AllDecoded == parseQueue = <<>> \/ (Len(parseQueue) = 1 /\ parser = "pop")

LastParsed == fresh /\ data # <<>> /\ data[Len(data)] = asked

Shown == ~waiting /\ playing = asked /\ data = <<>>

AskedIsOnItsWay ==
  asked # None /\ asked.map = map
    => LastQueued \/ (AllDecoded /\ (LastParsed \/ choice = asked \/ Shown))

AskedIsStored == asked # None => asked \in disk

AskInv == AskedIsStored /\ AskedIsOnItsWay

\* While a frame hands a replay over, nothing else is announced.
HandsOver == choice # None => ~fresh /\ data # <<>>

LEMMA OneHandOver == BotSpec => []HandsOver
<1>1. BotInit => HandsOver
  BY DEF BotInit, HandsOver
<1>2. BotInv /\ HandsOver /\ [BotNext]_botVars => HandsOver'
  <2> SUFFICES ASSUME BotInv, HandsOver, [BotNext]_botVars PROVE HandsOver'
    OBVIOUS
  <2>1. CASE Choose
    <3>1. CASE Valid = {}
      BY <2>1, <3>1 DEF Choose, Free, HandsOver
    <3>2. CASE Valid # {}
      <4>1. data # <<>>
        BY <3>2 DEF Valid
      <4> QED BY <2>1, <3>2, <4>1 DEF Choose, HandsOver
    <3> QED BY <3>1, <3>2
  <2>2. CASE ~ Choose
    <3>1. choice' = None \/ UNCHANGED <<choice, data, fresh>>
      BY <2>2 DEF BotNext, Parser, ParserWakes, Look, Exists, PushData, PopFile, ParserSleeps,
         ParserStep, LoadMap, NewReplay, DeleteRecord, Prune, Command, LearnProRecord, SetUp, Take,
         LoseBot, Free, parsed, botVars
    <3> QED BY <3>1 DEF HandsOver
  <2> QED BY <2>1, <2>2
<1> QED BY <1>1, <1>2, BotInvHolds, PTL DEF BotSpec

LEMMA AboveOne == ASSUME NEW n \in Nat, n # 0, n # 1 PROVE n > 1
OBVIOUS

LEMMA OneLess == ASSUME NEW n \in Nat, n > 1 PROVE n - 1 # 0
OBVIOUS

\* A step of the parser keeps the order on its way.
LEMMA ParserKeepsAsked ==
  ASSUME BotInv, AskInv, Parser \/ ParserWakes
  PROVE  AskInv'
<1>1. UNCHANGED <<disk, map, waiting, playing, choice, asked>>
  BY DEF Parser, ParserWakes, Look, Exists, PushData, PopFile, ParserSleeps, ParserStep, disks, bots
<1>2. AskedIsStored'
  BY <1>1 DEF AskInv, AskedIsStored
<1>3. ASSUME asked # None, asked.map = map
      PROVE  LastQueued' \/ (AllDecoded' /\ (LastParsed' \/ choice' = asked' \/ Shown'))
  <2>1. /\ parseQueue \in Seq(Files) /\ Len(parseQueue) \in Nat
        /\ data \in Seq(Files \cup {None}) /\ Len(data) \in Nat
        /\ asked \in disk
        /\ parser \in Parsing => parseQueue # <<>>
        /\ parseQueue = <<>> <=> Len(parseQueue) = 0
    BY <1>3 DEF BotInv, BotTypeOK, AskInv, AskedIsStored, HeadIsThere
  <2>0. Len(parseQueue) \in Nat /\ (parseQueue # <<>> => Len(parseQueue) # 0)
    BY <2>1
  <2>2. LastQueued \/ (AllDecoded /\ (LastParsed \/ choice = asked \/ Shown))
    BY <1>3 DEF AskInv, AskedIsOnItsWay
  <2>3. LastQueued /\ Len(parseQueue) = 1 => Head(parseQueue) = asked
    BY <2>1 DEF LastQueued
  <2>4. CASE PopFile
    <3>1. parser = "pop" /\ parser' = "look" /\ parseQueue' = Tail(parseQueue)
          /\ UNCHANGED <<data, fresh>> /\ parseQueue # <<>>
      BY <2>4, <2>1 DEF PopFile, ParserStep, Parsing
    <3>2. CASE LastQueued
      <4>1. Len(parseQueue) > 1
        BY <3>1, <3>2 DEF LastQueued
      <4>2. /\ Len(Tail(parseQueue)) = Len(parseQueue) - 1
            /\ \A i \in 1 .. Len(parseQueue) - 1 : Tail(parseQueue)[i] = parseQueue[i + 1]
        BY <2>1, <3>1
      <4>3. Tail(parseQueue)[Len(parseQueue) - 1] = parseQueue[Len(parseQueue)]
        BY <2>1, <4>1, <4>2
      <4>4. Tail(parseQueue) # <<>>
        <5>1. Len(Tail(parseQueue)) # 0
          BY <2>0, <4>1, <4>2, OneLess, Zenon
        <5>2. Len(<<>>) = 0
          OBVIOUS
        <5> QED BY <5>1, <5>2
      <4> QED BY <3>1, <3>2, <4>2, <4>3, <4>4, <1>1 DEF LastQueued
    <3>3. CASE AllDecoded /\ (LastParsed \/ choice = asked \/ Shown)
      <4>1. Len(parseQueue) = 1
        BY <3>1, <3>3 DEF AllDecoded
      <4>2. Tail(parseQueue) = <<>>
        BY <2>1, <4>1, <3>1
      <4>3. AllDecoded'
        BY <3>1, <4>2 DEF AllDecoded
      <4>4. LastParsed' \/ choice' = asked' \/ Shown'
        BY <3>1, <3>3, <1>1 DEF LastParsed, Shown
      <4> QED BY <4>3, <4>4
    <3> QED BY <2>2, <3>2, <3>3
  <2>5. CASE PushData
    <3>1. /\ parser = "push" /\ parser' = "pop" /\ parseQueue' = parseQueue /\ parseQueue # <<>>
          /\ data' = Append(data, Head(parseQueue)) /\ fresh' = TRUE
      BY <2>5, <2>1 DEF PushData, ParserStep, Parsing
    <3>2. LastQueued
      BY <3>1, <2>2 DEF AllDecoded
    <3>3. CASE Len(parseQueue) = 1
      <4>1. /\ Len(data') = Len(data) + 1 /\ data'[Len(data')] = Head(parseQueue)
            /\ data' # <<>>
        <5>1. Head(parseQueue) \in Files
          BY <2>1, <3>1
        <5>2. Len(data') = Len(data) + 1 /\ data'[Len(data')] = Head(parseQueue)
          BY <5>1, <2>1, <3>1
        <5>3. Len(<<>>) = 0
          OBVIOUS
        <5> QED BY <5>2, <5>3, <2>1
      <4>2. LastParsed'
        BY <4>1, <3>1, <3>2, <3>3, <2>3, <1>1 DEF LastParsed
      <4> QED BY <4>2, <3>1, <3>3 DEF AllDecoded
    <3>4. CASE Len(parseQueue) # 1
      <4>1. Len(parseQueue) > 1
        BY <3>4, <3>1, <2>0, AboveOne, Zenon
      <4> QED BY <4>1, <3>1, <3>2, <1>1 DEF LastQueued
    <3> QED BY <3>3, <3>4
  <2>6. CASE ~ PopFile /\ ~ PushData
    <3>1. /\ UNCHANGED <<parseQueue, data, fresh>>
          /\ parser # "pop"
          /\ parser' = "pop" => parseQueue # <<>> /\ Head(parseQueue) \notin disk
      BY <2>6, <2>1 DEF Parser, ParserWakes, Look, Exists, ParserSleeps, ParserStep, Parsing
    <3>2. CASE LastQueued
      <4>1. parser' = "pop" => Len(parseQueue) > 1
        <5> SUFFICES ASSUME parser' = "pop" PROVE Len(parseQueue) > 1
          OBVIOUS
        <5>1. Head(parseQueue) # asked /\ Len(parseQueue) # 0
          BY <3>1, <2>1
        <5>2. Len(parseQueue) # 1
          BY <5>1, <3>2, <2>3
        <5> QED BY <5>1, <5>2, <2>0, AboveOne, Zenon
      <4> QED BY <4>1, <3>1, <3>2, <1>1 DEF LastQueued
    <3>3. CASE AllDecoded /\ (LastParsed \/ choice = asked \/ Shown)
      <4>1. AllDecoded'
        BY <3>1, <3>3 DEF AllDecoded
      <4>2. LastParsed' \/ choice' = asked' \/ Shown'
        BY <3>1, <3>3, <1>1 DEF LastParsed, Shown
      <4> QED BY <4>1, <4>2
    <3> QED BY <2>2, <3>2, <3>3
  <2> QED BY <2>4, <2>5, <2>6
<1> QED BY <1>1, <1>2, <1>3 DEF AskInv, AskedIsOnItsWay

\* So does any step that leaves the queue, the data and the bot alone.
LEMMA AskedStays ==
  ASSUME AskInv, UNCHANGED <<map, parseQueue, parser, choice>>,
         asked' \in {asked, None},
         asked' # None => asked' \in disk',
         asked' # None /\ asked'.map = map /\ LastParsed => LastParsed',
         asked' # None /\ asked'.map = map /\ Shown => Shown'
  PROVE  AskInv'
BY DEF AskInv, AskedIsStored, AskedIsOnItsWay, LastQueued, AllDecoded

\* A new order is on its way, if its file is stored.
LEMMA AskedStarts ==
  ASSUME asked' \in disk', parseQueue' # <<>>, parseQueue'[Len(parseQueue')] = asked',
         parser' = "pop" => Len(parseQueue') > 1
  PROVE  AskInv'
BY DEF AskInv, AskedIsStored, AskedIsOnItsWay, LastQueued

\* The fastest replay before and after a step, and the record's, is stored.
LEMMA SrInDisk ==
  ASSUME disk \subseteq Files, disk' \subseteq Files
  PROVE  /\ \A m : Fastest(m) \in disk \cup {None}
         /\ SrReplay(map) \in disk \cup {None}
         /\ SrReplay(map)' \in disk' \cup {None}
<1>1. \A m : Fastest(m) \in disk \cup {None}
  BY FastestIsStored DEF Fastest
<1>2. Fastest(map)' \in disk' \cup {None}
  BY FastestIsStored DEF Fastest
<1>3. SrReplay(map) \in disk \cup {None}
  BY <1>1 DEF SrReplay
<1>4. SrReplay(map)' \in disk' \cup {None}
  BY <1>2 DEF SrReplay
<1> QED BY <1>1, <1>3, <1>4

\* A step of the game thread, and a prune.
LEMMA GameKeepsAsked ==
  ASSUME BotInv, BotInv', HandsOver, AskInv, BotNext, ~ Parser, ~ ParserWakes
  PROVE  AskInv'
<1> USE DEF disks, bots, parsed
<1>t. /\ BotTypeOK /\ HeadIsThere /\ disk \subseteq Files /\ disk' \subseteq Files
      /\ asked \in Files \cup {None} /\ data \in Seq(Files \cup {None}) /\ Len(data) \in Nat
  BY DEF BotInv, BotTypeOK
<1>i. asked # None => asked \in disk
  BY DEF AskInv, AskedIsStored
<1>1. ASSUME NEW m \in Maps, LoadMap(m) PROVE AskInv'
  <2>1. /\ disk' = disk
        /\ Parse(Fastest(m)) \/ UNCHANGED <<parseQueue, parser>>
        /\ Recall(None)
    BY <1>1 DEF LoadMap
  <2>2. Fastest(m) \in disk \cup {None}
    BY <1>t, SrInDisk
  <2>3. CASE asked' = None
    BY <2>3 DEF AskInv, AskedIsStored, AskedIsOnItsWay
  <2>4. CASE asked' # None
    BY <2>1, <2>2, <2>4, <1>t, Ordered, AskedStarts
  <2> QED BY <2>3, <2>4
<1>2. CASE LearnProRecord
  BY <1>2, <1>i, AskedStays DEF LearnProRecord, parsed, LastParsed, Shown
<1>3. CASE SetUp
  <2>1. /\ UNCHANGED <<disk, map, data, fresh, choice>> /\ waiting
        /\ Parse(SrReplay(map))
        /\ Recall(asked)
    BY <1>3 DEF SetUp, parsed
  <2>2. SrReplay(map) \in disk \cup {None}
    BY <1>t, SrInDisk
  <2>3. SrReplay(map) \in Files \cup {None}
    BY <2>2, <1>t
  <2>4. \/ UNCHANGED <<parseQueue, parser>> /\ asked' = asked
        \/ /\ asked' = SrReplay(map) /\ SrReplay(map) # None
           /\ parseQueue' # <<>> /\ parseQueue'[Len(parseQueue')] = asked'
           /\ parser' = "pop" => Len(parseQueue') > 1
    BY <2>1, <2>3, <1>t, Ordered
  <2>5. CASE UNCHANGED <<parseQueue, parser>> /\ asked' = asked
    BY <2>1, <2>5, <1>i, AskedStays DEF LastParsed, Shown
  <2> QED BY <2>1, <2>2, <2>4, <2>5, AskedStarts
<1>4. CASE Choose
  <2>1. /\ UNCHANGED <<disk, map, waiting, playing, parseQueue, parser, asked>> /\ choice = None
        /\ entity
    BY <1>4 DEF Choose, Free
  <2>2. AskedIsStored'
    BY <2>1, <1>i DEF AskedIsStored
  <2>3. ASSUME asked # None, asked.map = map
        PROVE  LastQueued' \/ (AllDecoded' /\ (LastParsed' \/ choice' = asked' \/ Shown'))
    <3>1. LastQueued \/ (AllDecoded /\ (LastParsed \/ Shown))
      BY <2>1, <2>3 DEF AskInv, AskedIsOnItsWay
    <3>2. CASE LastQueued
      BY <3>2, <2>1 DEF LastQueued
    <3>3. CASE AllDecoded /\ LastParsed
      <4>1. Len(data) \in DOMAIN data /\ DOMAIN data = 1 .. Len(data)
        BY <1>t, <3>3 DEF LastParsed
      <4>2. Len(data) \in Valid
        BY <4>1, <3>3, <2>3, <1>i DEF Valid, LastParsed
      <4>3. \A j \in Valid : j <= Len(data) /\ j \in Nat
        BY <4>1, <1>t DEF Valid
      <4>4. \A i \in Valid : (\A j \in Valid : j <= i) => i = Len(data)
        BY <4>2, <4>3, <1>t
      <4>5. (CHOOSE i \in Valid : \A j \in Valid : j <= i) = Len(data)
        BY <4>2, <4>3, <4>4
      <4>6. choice' = data[Len(data)]
        BY <4>2, <4>5, <1>4 DEF Choose
      <4> QED BY <4>6, <3>3, <2>1 DEF LastParsed, AllDecoded
    <3>4. CASE AllDecoded /\ Shown
      <4>1. DOMAIN data = {}
        BY <3>4 DEF Shown
      <4>2. Valid = {}
        BY <4>1 DEF Valid
      <4>3. data' = <<>>
        BY <4>2, <1>4 DEF Choose
      <4> QED BY <4>3, <3>4, <2>1 DEF Shown, AllDecoded
    <3> QED BY <3>1, <3>2, <3>3, <3>4
  <2> QED BY <2>1, <2>2, <2>3 DEF AskInv, AskedIsOnItsWay
<1>5. CASE Take
  <2>1. /\ UNCHANGED <<disk, map, waiting, parseQueue, parser, fresh, asked>>
        /\ choice # None /\ playing' = choice /\ data' = <<>>
    BY <1>5 DEF Take
  <2>2. ~ waiting
    BY <2>1 DEF BotInv, ChosenFits, NotYet
  <2>3. ASSUME asked # None, asked.map = map
        PROVE  LastQueued' \/ (AllDecoded' /\ Shown')
    <3>1. LastQueued \/ (AllDecoded /\ (LastParsed \/ choice = asked \/ Shown))
      BY <2>3 DEF AskInv, AskedIsOnItsWay
    <3>2. CASE LastQueued
      BY <3>2, <2>1 DEF LastQueued
    <3>3. CASE AllDecoded /\ choice = asked
      BY <3>3, <2>1, <2>2 DEF AllDecoded, Shown
    <3>4. ~ LastParsed /\ ~ Shown
      BY <2>1 DEF HandsOver, LastParsed, Shown
    <3> QED BY <3>1, <3>2, <3>3, <3>4
  <2> QED BY <2>1, <2>3, <1>i DEF AskInv, AskedIsOnItsWay, AskedIsStored
<1>6. CASE LoseBot
  BY <1>6, <1>i, AskedStays DEF LoseBot, parsed, LastParsed, Shown
<1>7. ASSUME NEW f \in Files, NewReplay(f) PROVE AskInv'
  <2>1. /\ disk' = disk \cup {f}
        /\ UNCHANGED <<map, waiting, playing, data, fresh, choice>>
        /\ Parse(f) \/ Parse(SrReplay(map)') \/ UNCHANGED <<parseQueue, parser>>
        /\ Recall(asked)
    BY <1>7 DEF NewReplay, parsed
  <2>2. SrReplay(map)' \in disk' \cup {None}
    BY <1>t, SrInDisk
  <2>3. PICK g \in disk' \cup {None} : Parse(g) \/ UNCHANGED <<parseQueue, parser>>
    BY <2>1, <2>2
  <2>4. g \in Files \cup {None}
    BY <2>3, <1>t
  <2>5. \/ UNCHANGED <<parseQueue, parser>> /\ asked' = asked
        \/ /\ asked' = g /\ g # None
           /\ parseQueue' # <<>> /\ parseQueue'[Len(parseQueue')] = asked'
           /\ parser' = "pop" => Len(parseQueue') > 1
    BY <2>1, <2>3, <2>4, <1>t, Ordered
  <2>6. CASE UNCHANGED <<parseQueue, parser>> /\ asked' = asked
    BY <2>1, <2>6, <1>i, AskedStays DEF LastParsed, Shown
  <2> QED BY <2>3, <2>5, <2>6, AskedStarts
<1>8. ASSUME NEW f \in Files, DeleteRecord(f) PROVE AskInv'
  <2>1. /\ disk' = disk \ {f} /\ Drop(f) /\ StopBot(f)
        /\ UNCHANGED <<map, waiting, choice>>
        /\ Parse(SrReplay(map)') \/ UNCHANGED <<parseQueue, parser>>
        /\ Recall(Unless(f))
    BY <1>8 DEF DeleteRecord
  <2>2. SrReplay(map)' \in disk' \cup {None}
    BY <1>t, SrInDisk
  <2>3. PICK g \in disk' \cup {None} : Parse(g) \/ UNCHANGED <<parseQueue, parser>>
    BY <2>1, <2>2
  <2>4. g \in Files \cup {None} /\ Unless(f) \in Files \cup {None}
    BY <2>3, <1>t DEF Unless
  <2>5. \/ UNCHANGED <<parseQueue, parser>> /\ asked' = Unless(f)
        \/ /\ asked' = g /\ g # None
           /\ parseQueue' # <<>> /\ parseQueue'[Len(parseQueue')] = asked'
           /\ parser' = "pop" => Len(parseQueue') > 1
    BY <2>1, <2>3, <2>4, <1>t, Ordered
  <2>6. CASE UNCHANGED <<parseQueue, parser>> /\ asked' = Unless(f)
    <3>1. asked' \in {asked, None} /\ (asked' # None => asked' = asked /\ asked # f)
      BY <2>6, <1>t, PlaybackAssumption DEF Unless
    <3>2. asked' # None => asked' \in disk'
      BY <3>1, <2>1, <1>i
    <3>3. /\ data' = [i \in DOMAIN data |-> IF data[i] = f THEN None ELSE data[i]]
          /\ fresh' = (fresh /\ \E i \in DOMAIN data : data[i] \notin {f, None})
          /\ playing' = IF playing = f THEN None ELSE playing
          /\ DOMAIN data = 1 .. Len(data)
      BY <2>1, <1>t DEF Drop, StopBot
    <3>4. data' \in Seq(Files \cup {None}) /\ Len(data') = Len(data)
      BY <3>3, <1>t
    <3>5. ASSUME asked' # None, LastParsed PROVE LastParsed'
      <4>1. Len(data) \in DOMAIN data
        BY <1>t, <3>5, <3>3 DEF LastParsed
      <4>2. data[Len(data)] = asked /\ asked \notin {f, None} /\ asked' = asked /\ fresh
        BY <3>1, <3>5 DEF LastParsed
      <4>3. fresh' /\ data'[Len(data')] = asked'
        BY <4>1, <4>2, <3>3, <3>4
      <4>4. data' # <<>>
        BY <4>1, <3>3, <3>4
      <4> QED BY <4>3, <4>4 DEF LastParsed
    <3>6. ASSUME asked' # None, Shown PROVE Shown'
      <4>1. data' = <<>>
        BY <3>6, <3>4 DEF Shown
      <4> QED BY <4>1, <3>6, <3>1, <3>3, <2>1 DEF Shown
    <3> QED BY <2>1, <2>6, <3>1, <3>2, <3>5, <3>6, AskedStays
  <2> QED BY <2>3, <2>5, <2>6, AskedStarts
<1>9. ASSUME NEW f \in Files, Prune(f) PROVE AskInv'
  <2>1. /\ disk' = disk \ {f} /\ asked' = Unless(f)
        /\ UNCHANGED <<map, waiting, playing, parseQueue, parser, data, fresh, choice>>
    BY <1>9 DEF Prune, parsed
  <2>2. asked' \in {asked, None} /\ (asked' # None => asked' = asked /\ asked # f)
    BY <2>1, <1>t, PlaybackAssumption DEF Unless
  <2> QED BY <2>1, <2>2, <1>i, AskedStays DEF LastParsed, Shown
<1>10. ASSUME NEW f \in Files, Command(f) PROVE AskInv'
  <2>1. /\ f \in disk /\ Parse(f) /\ Recall(asked)
        /\ UNCHANGED <<disk, map, waiting, playing, data, fresh, choice>>
    BY <1>10 DEF Command, parsed
  <2>2. \/ UNCHANGED <<parseQueue, parser>> /\ asked' = asked
        \/ /\ asked' = f
           /\ parseQueue' # <<>> /\ parseQueue'[Len(parseQueue')] = asked'
           /\ parser' = "pop" => Len(parseQueue') > 1
    BY <2>1, <1>t, Ordered
  <2>3. CASE UNCHANGED <<parseQueue, parser>> /\ asked' = asked
    BY <2>1, <2>3, <1>i, AskedStays DEF LastParsed, Shown
  <2> QED BY <2>1, <2>2, <2>3, AskedStarts
<1> QED BY <1>1, <1>2, <1>3, <1>4, <1>5, <1>6, <1>7, <1>8, <1>9, <1>10 DEF BotNext

(***************************************************************************)
(* When the parser and the frames have nothing left to do, the bot shows   *)
(* the replay queued last, if it is stored and its map is still played:    *)
(* nothing decoded before it and no deletion or prune keeps it away.       *)
(***************************************************************************)
THEOREM LastOrderReachesTheBot == BotSpec => []LastOrderIsShown
<1>1. BotInit => AskInv
  BY DEF BotInit, AskInv, AskedIsStored, AskedIsOnItsWay
<1>2. BotInv /\ BotInv' /\ HandsOver /\ AskInv /\ [BotNext]_botVars => AskInv'
  <2> SUFFICES ASSUME BotInv, BotInv', HandsOver, AskInv, [BotNext]_botVars PROVE AskInv'
    OBVIOUS
  <2>1. CASE Parser \/ ParserWakes
    BY <2>1, ParserKeepsAsked
  <2>2. CASE BotNext /\ ~ Parser /\ ~ ParserWakes
    BY <2>2, GameKeepsAsked
  <2>3. CASE UNCHANGED botVars
    BY <2>3 DEF botVars, disks, bots, parsed, AskInv, AskedIsStored, AskedIsOnItsWay, LastQueued,
       AllDecoded, LastParsed, Shown
  <2> QED BY <2>1, <2>2, <2>3
<1>3. AskInv => LastOrderIsShown
  <2> SUFFICES ASSUME AskInv, entity, choice = None, ~fresh, parseQueue = <<>>,
                      asked # None, asked.map = map
               PROVE  playing = asked
    BY DEF LastOrderIsShown, Free
  <2> QED BY DEF AskInv, AskedIsOnItsWay, LastQueued, LastParsed, Shown
<1> QED BY <1>1, <1>2, <1>3, BotInvHolds, OneHandOver, PTL DEF BotSpec
=============================================================================
