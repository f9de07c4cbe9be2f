---------------------------- MODULE RecorderProofs ----------------------------
(***************************************************************************)
(* Proofs about Recorder, for every number of slots, players and runs, and *)
(* every capacity of the writer's queue: a replay is one run of one        *)
(* player, whole and in order, and its header says what is in it.          *)
(***************************************************************************)
EXTENDS RecorderLemmas

-----------------------------------------------------------------------------
(***************************************************************************)
(* The inductive invariant, for as long as the queue was not full when a   *)
(* run was to end.                                                         *)
(***************************************************************************)
\* The runs whose START is queued, and those whose file is their player's.
Started ==
  {r \in 1 .. RunsMax : \E k \in 1 .. Len(queue) : queue[k].type = "START" /\ queue[k].run = r}

Filed ==
  {r \in 1 .. RunsMax :
     runner[r] \in Players /\ tmp[runner[r]] # 0 /\ file[tmp[runner[r]]].run = r}

\* Every signal finds its slot as it was when it was queued, and a player has
\* one file open.
ChainQueue ==
  \A k \in 1 .. Len(queue) :
    OpenAfter(queue, Opened, queue[k].slot, k - 1, Before(queue[k]))

ChainEnd == \A s \in Slots : OpenAfter(queue, Opened, s, Len(queue), Current[s])

ChainOne ==
  \A k \in 0 .. Len(queue), s \in Slots, t \in Slots, r \in 1 .. runs, q \in 1 .. runs :
    /\ OpenAfter(queue, Opened, s, k, r)
    /\ OpenAfter(queue, Opened, t, k, q)
    /\ runner[r] = runner[q]
    => s = t

\* The signals of a player's runs are in the order of the runs.
InOrder(x, y) ==
  /\ x.run <= y.run
  /\ x.run = y.run => x.type \notin {"REJECT", "FINISH"} /\ y.type # "START"

OrderQueue ==
  \A j \in 1 .. Len(queue), k \in 1 .. Len(queue) :
    /\ j < k /\ queue[j].run # 0 /\ queue[k].run # 0
    /\ runner[queue[j].run] = runner[queue[k].run]
    => InOrder(queue[j], queue[k])

OrderAlive ==
  \A r \in Alive, k \in 1 .. Len(queue) :
    queue[k].run # 0 /\ runner[queue[k].run] = runner[r] =>
      /\ queue[k].run <= r
      /\ queue[k].run = r => queue[k].type \notin {"REJECT", "FINISH"}

OrderPlayers ==
  \A k \in 1 .. Len(queue) :
    /\ queue[k].run <= runs
    /\ queue[k].type \in {"START", "UNPAUSE", "FINISH"} =>
         queue[k].player = runner[queue[k].run]

\* A run has a file, or will have.
Cover == Mentioned \subseteq Started \cup Filed

\* The files of the players, of the slots, of the runs to come, of the replays.
FilesTmp ==
  \A p \in Players : tmp[p] # 0 =>
    /\ tmp[p] <= runs
    /\ file[tmp[p]].player = p
    /\ file[tmp[p]].run \in 1 .. runs
    /\ runner[file[tmp[p]].run] = p

FilesApart == \A p \in Players, q \in Players : tmp[p] = tmp[q] /\ tmp[p] # 0 => p = q

FilesOpen ==
  \A s \in Slots : fd[s].inode # 0 =>
    /\ path[s] \in Players /\ tmp[path[s]] = fd[s].inode
    /\ fd[s].pos = Len(file[fd[s].inode].cells)

FilesStart ==
  \A k \in 1 .. Len(queue) : queue[k].type = "START" =>
    /\ \A p \in Players : tmp[p] # queue[k].run
    /\ \A y \in saved : y.inode # queue[k].run
    /\ tmp[queue[k].player] # 0 => file[tmp[queue[k].player]].run < queue[k].run

FilesSaved ==
  \A y \in saved :
    /\ y.inode <= runs /\ y.run <= runs
    /\ file[y.inode].run = y.run /\ file[y.inode].player = y.player
    /\ \A p \in Players : tmp[p] # y.inode
    /\ y.run \notin Mentioned

Chain == ChainQueue /\ ChainEnd /\ ChainOne
Order == OrderQueue /\ OrderAlive /\ OrderPlayers
Files == FilesTmp /\ FilesApart /\ FilesOpen /\ FilesStart /\ FilesSaved

-----------------------------------------------------------------------------
\* The run a slot's file is of has been started.
LEMMA OpenedKnown ==
  ASSUME TypeInv, FilesTmp, FilesOpen, NEW s \in Slots
  PROVE  /\ Opened[s] \in 0 .. runs
         /\ fd[s].inode # 0 => /\ Opened[s] # 0 /\ Opened[s] = file[fd[s].inode].run
                               /\ path[s] \in Players /\ runner[Opened[s]] = path[s]
                               /\ tmp[path[s]] = fd[s].inode /\ Opened[s] \in 1 .. runs
         /\ fd[s].inode = 0 => Opened[s] = 0
<1>1. runs \in Nat
  BY RecorderAssumption DEF TypeInv, TypeHistory
<1>2. Opened[s] = IF fd[s].inode = 0 THEN 0 ELSE file[fd[s].inode].run
  BY DEF Opened
<1>3. CASE fd[s].inode = 0
  BY <1>1, <1>2, <1>3
<1>4. CASE fd[s].inode # 0
  <2>1. path[s] \in Players /\ tmp[path[s]] = fd[s].inode
    BY <1>4 DEF FilesOpen
  <2>2. /\ file[fd[s].inode].run \in 1 .. runs
        /\ runner[file[fd[s].inode].run] = path[s]
    BY <2>1, <1>4 DEF FilesTmp
  <2>3. Opened[s] \in 1 .. runs /\ Opened[s] # 0 /\ Opened[s] \in 0 .. runs
    BY <2>2, <1>1, <1>2, <1>4
  <2> QED BY <2>1, <2>2, <2>3, <1>2, <1>4
<1> QED BY <1>3, <1>4

\* So have the runs that will be open.
LEMMA OpenKnown ==
  ASSUME TypeInv, FilesTmp, FilesOpen, OrderPlayers, NEW s \in Slots, NEW k \in 0 .. Len(queue),
         NEW r, OpenAfter(queue, Opened, s, k, r)
  PROVE  r \in 0 .. runs
<1>1. runs \in Nat /\ Len(queue) \in Nat /\ queue \in Seq(SignalOf(scene))
  BY RecorderAssumption, LenProperties DEF TypeInv, TypeHistory, TypeQueue
<1>2. CASE Opened[s] = r
  BY <1>2, OpenedKnown
<1>3. CASE \E j \in 1 .. k : After(queue[j]) = r
  <2>1. PICK j \in 1 .. k : After(queue[j]) = r
    BY <1>3
  <2>2. j \in 1 .. Len(queue)
    BY <1>1
  <2>3. queue[j] \in SignalOf(scene)
    BY <2>2, <1>1, ElementOfSeq
  <2>4. queue[j].run \in 0 .. RunsMax /\ queue[j].run <= runs
    BY <2>2, <2>3, SignalFields DEF FieldsOf, OrderPlayers
  <2>5. queue[j].run \in 0 .. runs
    BY <2>4, <1>1, RecorderAssumption
  <2> QED BY <2>1, <2>5, <1>1 DEF After
<1> QED BY <1>2, <1>3 DEF OpenAfter

-----------------------------------------------------------------------------
\* A step that signals nothing.
LEMMA QuietKeeps ==
  ASSUME TypeInv, Plugin, Chain, Order, Cover, Files, Quiet
  PROVE  Chain' /\ Order' /\ Cover' /\ Files'
<1>1. /\ queue' = queue /\ fd' = fd /\ path' = path /\ file' = file /\ tmp' = tmp
      /\ saved' = saved /\ runs' = runs /\ runner' = runner /\ Current' = Current
      /\ Alive' \subseteq Alive
  BY DEF Quiet, writer
<1>2. Opened' = Opened /\ Started' = Started /\ Filed' = Filed /\ Mentioned' \subseteq Mentioned
  BY <1>1 DEF Opened, Started, Filed, Mentioned
<1>3. Chain'
  BY <1>1, <1>2 DEF Chain, ChainQueue, ChainEnd, ChainOne
<1>4. Order'
  BY <1>1 DEF Order, OrderQueue, OrderAlive, OrderPlayers
<1>5. Cover'
  BY <1>2 DEF Cover
<1>6. Files'
  BY <1>1, <1>2 DEF Files, FilesTmp, FilesApart, FilesOpen, FilesStart, FilesSaved
<1> QED BY <1>3, <1>4, <1>5, <1>6

\* What stays when a signal is queued.
PushStays ==
  /\ UNCHANGED <<fd, path, last, keyNext, cps, gcs, file, tmp, saved, scene, refused>>
  /\ Opened' = Opened

\* The queue, the runs and their runners.
PushRuns(x) ==
  /\ runs \in Nat /\ runs <= runs' /\ runs' \in Nat /\ x.run \in 0 .. runs'
  /\ \A r \in 1 .. runs : r \in 1 .. runs' /\ runner'[r] = runner[r]
  /\ \A k \in 1 .. Len(queue') : k = Len(queue) + 1 \/ k \in 1 .. Len(queue)
  /\ \A k \in 1 .. Len(queue) : /\ queue'[k] = queue[k]
                                /\ queue[k].run \in 0 .. runs
                                /\ k \in 1 .. Len(queue') /\ k # Len(queue) + 1
  /\ Len(queue) + 1 \in 1 .. Len(queue') /\ queue'[Len(queue) + 1] = x

\* They are what they were, and one signal more.
LEMMA PushRunsAre ==
  ASSUME TypeInv, Plugin, TypeInv', OrderPlayers, NEW x, Pushed(x)
  PROVE  PushStays /\ PushRuns(x)
<1>1. runs \in Nat /\ runs' \in Nat /\ Len(queue) \in Nat /\ queue \in Seq(SignalOf(scene))
      /\ runs \in 0 .. RunsMax /\ runs' \in 0 .. RunsMax
  BY RecorderAssumption, LenProperties DEF TypeInv, TypeHistory, TypeQueue
<1>2. /\ Len(queue') = Len(queue) + 1 /\ queue'[Len(queue) + 1] = x
      /\ \A k \in 1 .. Len(queue) : queue'[k] = queue[k]
  BY DEF Pushed, IsPushed
<1>3. PushStays
  BY DEF Pushed, PushStays, writer, Opened
<1>4. /\ runs <= runs' /\ x.run \in 0 .. runs'
      /\ \A r \in 1 .. runs : runner'[r] = runner[r]
  <2>1. CASE x.type = "START"
    <3>1. Begins(x)
      BY <2>1 DEF Pushed
    <3>2. \A r \in 1 .. runs : r \in 1 .. RunsMax /\ r <= runs
      BY <1>1, RecorderAssumption
    <3> QED BY <3>1, <3>2, <1>1 DEF Begins
  <2>2. CASE x.type # "START"
    <3>1. Continues(x)
      BY <2>2 DEF Pushed
    <3>2. x.run # 0 => x.run \in Alive /\ x.run \in 1 .. RunsMax
      BY <3>1 DEF Continues, Alive
    <3>3. x.run # 0 => x.run <= runs
      BY <3>2, LiveKnown
    <3> QED BY <3>1, <3>2, <3>3, <1>1, RecorderAssumption DEF Continues
  <2> QED BY <2>1, <2>2
<1>5. ASSUME NEW k \in 1 .. Len(queue) PROVE queue[k].run \in 0 .. runs
  <2>1. queue[k] \in SignalOf(scene)
    BY <1>1, ElementOfSeq
  <2>2. queue[k].run \in 0 .. RunsMax /\ queue[k].run <= runs
    BY <2>1, SignalFields DEF FieldsOf, OrderPlayers
  <2> QED BY <2>2, <1>1, RecorderAssumption
<1>6. /\ \A r \in 1 .. runs : r \in 1 .. runs'
      /\ \A k \in 1 .. Len(queue') : k = Len(queue) + 1 \/ k \in 1 .. Len(queue)
      /\ \A k \in 1 .. Len(queue) : k \in 1 .. Len(queue') /\ k # Len(queue) + 1
      /\ Len(queue) + 1 \in 1 .. Len(queue')
  BY <1>1, <1>2, <1>4
<1> QED BY <1>1, <1>2, <1>3, <1>4, <1>5, <1>6 DEF PushRuns

-----------------------------------------------------------------------------
\* A queued signal finds its slot as it expects it.
LEMMA PushChain ==
  ASSUME TypeInv, Plugin, TypeInv', Plugin', Chain, Order, Files, NEW x, Pushed(x)
  PROVE  Chain'
<1> DEFINE N == Len(queue)
           Was(s, k, r) == OpenAfter(queue, Opened, s, k, r)
           Is(s, k, r) == OpenAfter(queue', Opened, s, k, r)
<1>1. PushStays /\ PushRuns(x)
  BY PushRunsAre DEF Order
<1>2. N \in Nat /\ Len(queue') = N + 1 /\ IsPushed(queue, queue', x)
  BY DEF Pushed, IsPushed
<1>3. /\ \A s, r : \A k \in 0 .. N : Is(s, k, r) <=> Was(s, k, r)
      /\ \A s, r : s = x.slot => (Is(s, N + 1, r) <=> r = After(x))
      /\ \A s, r : s # x.slot => (Is(s, N + 1, r) <=> Was(s, N, r))
  <2>1. ASSUME NEW s, NEW r
        PROVE  /\ \A k \in 0 .. N : Is(s, k, r) <=> Was(s, k, r)
               /\ s = x.slot => (Is(s, N + 1, r) <=> r = After(x))
               /\ s # x.slot => (Is(s, N + 1, r) <=> Was(s, N, r))
    BY <1>2, OpenPushed
  <2> QED BY <2>1
<1>4. /\ x.slot \in Slots /\ Before(x) = Current[x.slot] /\ Current'[x.slot] = After(x)
      /\ \A t \in Slots : t # x.slot => Current'[t] = Current[t]
      /\ \A k \in 1 .. N : queue'[k] = queue[k]
      /\ queue'[N + 1] = x
  BY <1>2 DEF Pushed, FieldsOf, Only, IsPushed
<1>5. ChainQueue /\ ChainEnd /\ ChainOne /\ OrderPlayers /\ FilesTmp /\ FilesOpen
  BY DEF Chain, Order, Files
<1>6. Opened' = Opened
  BY <1>1 DEF PushStays
<1>7. /\ \A k \in 1 .. N + 1 : k = N + 1 \/ (k \in 1 .. N /\ k - 1 \in 0 .. N)
      /\ N \in 0 .. N /\ N + 1 - 1 = N
      /\ \A k \in 0 .. N + 1 : k = N + 1 \/ k \in 0 .. N
  BY <1>2
<1>8. ChainQueue'
  <2> SUFFICES ASSUME NEW k \in 1 .. N + 1
               PROVE  Is(queue'[k].slot, k - 1, Before(queue'[k]))
    BY <1>2, <1>6 DEF ChainQueue
  <2>1. CASE k = N + 1
    <3>1. Was(x.slot, N, Before(x))
      BY <1>4, <1>5 DEF ChainEnd
    <3>2. Is(x.slot, N, Before(x))
      BY <3>1, <1>3, <1>7
    <3>3. k - 1 = N /\ queue'[k] = x
      BY <2>1, <1>4, <1>7
    <3> HIDE DEF Is
    <3> QED BY <3>2, <3>3
  <2>2. CASE k # N + 1
    <3>1. k \in 1 .. N /\ k - 1 \in 0 .. N /\ queue'[k] = queue[k]
      BY <2>2, <1>4, <1>7
    <3>2. Was(queue[k].slot, k - 1, Before(queue[k]))
      BY <3>1, <1>5 DEF ChainQueue
    <3> HIDE DEF Is, Was
    <3> QED BY <3>1, <3>2, <1>3
  <2> QED BY <2>1, <2>2
<1>9. ASSUME NEW s \in Slots PROVE Is(s, N + 1, Current'[s])
  <2>1. Was(s, N, Current[s])
    BY <1>5 DEF ChainEnd
  <2> HIDE DEF Is, Was
  <2> QED BY <2>1, <1>3, <1>4
<1>10. ChainEnd'
  BY <1>2, <1>6, <1>9 DEF ChainEnd
<1>11. ChainOne'
  <2> SUFFICES ASSUME NEW k \in 0 .. N + 1, NEW s \in Slots, NEW t \in Slots,
                      NEW r \in 1 .. runs', NEW q \in 1 .. runs',
                      Is(s, k, r), Is(t, k, q), runner'[r] = runner'[q]
               PROVE  s = t
    BY <1>2, <1>6 DEF ChainOne
  <2>1. CASE k = N + 1
    <3>1. Is(s, N + 1, Current'[s]) /\ Is(t, N + 1, Current'[t]) /\ N + 1 \in Nat
      BY <1>2, <1>9
    <3>2. r = Current'[s] /\ q = Current'[t]
      <4>1. Is(s, N + 1, r) /\ Is(t, N + 1, q)
        BY <2>1
      <4> QED BY <3>1, <4>1, OpenIsOne
    <3>3. /\ Current'[s] = (IF phase'[s] = "running" THEN run'[s] ELSE 0)
          /\ Current'[t] = (IF phase'[t] = "running" THEN run'[t] ELSE 0)
      BY DEF Current, Running
    <3>4. r # 0 /\ q # 0
      BY <1>1 DEF PushRuns
    <3>5. run'[s] = r /\ run'[t] = q
      BY <3>2, <3>3, <3>4
    <3>6. SlotsKeep' /\ OneSlotEach'
      BY DEF Plugin
    <3>7. runner'[r] = occupant'[s] /\ runner'[q] = occupant'[t] /\ occupant'[s] # Nobody
      BY <3>4, <3>5, <3>6 DEF SlotsKeep
    <3> QED BY <3>6, <3>7 DEF OneSlotEach
  <2>2. CASE k # N + 1
    <3>1. k \in 0 .. N
      BY <2>2, <1>7
    <3>2. Was(s, k, r) /\ Was(t, k, q)
      <4> HIDE DEF Is, Was
      <4> QED BY <3>1, <1>3
    <3>3. r \in 0 .. runs /\ q \in 0 .. runs
      BY <3>1, <3>2, <1>5, OpenKnown
    <3>4. r \in 1 .. runs /\ q \in 1 .. runs
      BY <3>3, <1>1 DEF PushRuns
    <3>5. runner[r] = runner[q]
      BY <3>4, <1>1 DEF PushRuns
    <3> QED BY <3>1, <3>2, <3>4, <3>5, <1>5 DEF ChainOne
  <2> QED BY <2>1, <2>2
<1> QED BY <1>8, <1>10, <1>11 DEF Chain

\* Of each player at most one run is alive.
LiveUniqueNow ==
  \A r \in Alive, q \in Alive : runner[r] = runner[q] => r = q

\* The runs that are alive are of as many players, in the next state as well.
LEMMA LiveUniqueIs ==
  TypeInv /\ Plugin => LiveUniqueNow
BY LiveUnique DEF LiveUniqueNow

\* It comes after the signals of earlier runs.
LEMMA PushOrder ==
  ASSUME TypeInv, Plugin, TypeInv', Plugin', Order, NEW x, Pushed(x)
  PROVE  Order'
<1> DEFINE N == Len(queue)
<1>1. PushStays /\ PushRuns(x) /\ OrderQueue /\ OrderAlive /\ OrderPlayers
  BY PushRunsAre DEF Order
<1>2. /\ N \in Nat /\ Len(queue') = N + 1 /\ queue'[N + 1] = x
      /\ \A k \in 1 .. N : queue'[k] = queue[k] /\ queue[k].run \in 0 .. runs
      /\ \A k \in 1 .. N + 1 : k = N + 1 \/ k \in 1 .. N
      /\ \A k \in 1 .. N : ~(N + 1 < k)
      /\ ~(N + 1 < N + 1)
      /\ runs \in Nat /\ runs' \in Nat /\ x.run \in 0 .. runs'
  <2>1. N \in Nat /\ Len(queue') = N + 1
    BY DEF Pushed, IsPushed
  <2>2. (\A k \in 1 .. N : ~(N + 1 < k)) /\ ~(N + 1 < N + 1)
    BY <2>1
  <2> QED BY <2>1, <2>2, <1>1 DEF PushRuns
<1>3. ASSUME NEW k \in 1 .. N, queue[k].run # 0
      PROVE  /\ queue[k].run \in 1 .. runs /\ queue[k].run <= runs
             /\ runner'[queue[k].run] = runner[queue[k].run]
  <2>1. queue[k].run \in 1 .. runs
    BY <1>2, <1>3
  <2> QED BY <2>1, <1>1, <1>2 DEF PushRuns
\* The alive runs are those that were, and the run that begins.
<1>4. ASSUME NEW r \in Alive'
      PROVE  /\ r \in 1 .. RunsMax
             /\ x.type = "START" => runs' = runs + 1 /\ x.run = runs + 1 /\ (r = x.run \/ r \in Alive)
             /\ x.type # "START" => r \in Alive
             /\ r \in Alive => r \in 1 .. runs /\ runner'[r] = runner[r]
  <2>1. r \in 1 .. RunsMax
    BY DEF Alive
  <2>2. x.type = "START" => runs' = runs + 1 /\ x.run = runs + 1 /\ (r = x.run \/ r \in Alive)
    BY DEF Pushed, Begins
  <2>3. x.type # "START" => r \in Alive
    BY DEF Pushed, Continues
  <2>4. r \in Alive => r \in 1 .. runs
    BY <2>1, <1>2, LiveKnown, RecorderAssumption
  <2>5. r \in Alive => runner'[r] = runner[r]
    BY <2>4, <1>1 DEF PushRuns
  <2> QED BY <2>1, <2>2, <2>3, <2>4, <2>5
\* The new signal's run is the run of an earlier signal, or a later one.
<1>5. ASSUME x.run # 0, NEW k \in 1 .. N, queue[k].run # 0,
             runner'[queue[k].run] = runner'[x.run]
      PROVE  InOrder(queue[k], x)
  <2>1. queue[k].run <= runs /\ runner'[queue[k].run] = runner[queue[k].run]
        /\ queue[k].run \in 1 .. runs
    BY <1>3, <1>5
  <2>2. CASE x.type = "START"
    <3>1. x.run = runs + 1
      BY <2>2 DEF Pushed, Begins
    <3>2. queue[k].run <= x.run /\ queue[k].run # x.run
      BY <2>1, <3>1, <1>2
    <3> QED BY <3>2 DEF InOrder
  <2>3. CASE x.type # "START"
    <3>1. x.run \in Alive /\ runner' = runner
      BY <2>3, <1>5 DEF Pushed, Continues
    <3> QED BY <2>3, <3>1, <1>1, <1>5 DEF OrderAlive, InOrder
  <2> QED BY <2>2, <2>3
<1>6. OrderQueue'
  <2> SUFFICES ASSUME NEW j \in 1 .. N + 1, NEW k \in 1 .. N + 1, j < k,
                      queue'[j].run # 0, queue'[k].run # 0,
                      runner'[queue'[j].run] = runner'[queue'[k].run]
               PROVE  InOrder(queue'[j], queue'[k])
    BY <1>2 DEF OrderQueue
  <2>1. j \in 1 .. N
    BY <1>2
  <2>2. CASE k = N + 1
    BY <2>1, <2>2, <1>2, <1>5
  <2>3. CASE k # N + 1
    <3>1. k \in 1 .. N /\ queue'[j] = queue[j] /\ queue'[k] = queue[k]
      BY <2>1, <2>3, <1>2
    <3>2. runner[queue[j].run] = runner[queue[k].run]
      BY <2>1, <3>1, <1>3
    <3> QED BY <2>1, <3>1, <3>2, <1>1 DEF OrderQueue
  <2> QED BY <2>2, <2>3
<1>7. OrderAlive'
  <2> SUFFICES ASSUME NEW r \in Alive', NEW k \in 1 .. N + 1, queue'[k].run # 0,
                      runner'[queue'[k].run] = runner'[r]
               PROVE  /\ queue'[k].run <= r
                      /\ queue'[k].run = r => queue'[k].type \notin {"REJECT", "FINISH"}
    BY <1>2 DEF OrderAlive
  <2>1. CASE r \in Alive /\ k # N + 1
    <3>1. k \in 1 .. N /\ queue'[k] = queue[k]
      BY <2>1, <1>2
    <3>2. runner[queue[k].run] = runner[r]
      BY <2>1, <3>1, <1>3, <1>4
    <3> QED BY <2>1, <3>1, <3>2, <1>1 DEF OrderAlive
  <2>2. CASE r \notin Alive /\ k # N + 1
    <3>1. k \in 1 .. N /\ queue'[k] = queue[k] /\ r = runs + 1
      BY <2>2, <1>2, <1>4
    <3>2. queue[k].run <= runs /\ queue[k].run \in 1 .. runs
      BY <3>1, <1>3
    <3>3. queue[k].run <= r /\ queue[k].run # r
      BY <3>1, <3>2, <1>2
    <3> QED BY <3>1, <3>3
  <2>3. CASE k = N + 1
    <3>0. queue'[k] = x /\ x.run # 0 /\ runner'[x.run] = runner'[r]
      BY <2>3, <1>2
    <3>1. CASE x.type = "START"
      <4>1. x.run \in Alive'
        <5>1. runs + 1 \in 1 .. RunsMax
          BY <3>1, <1>2, <1>4 DEF TypeInv, TypeHistory
        <5>2. Current'[x.slot] = x.run /\ x.slot \in Slots /\ x.run = runs + 1
          BY <3>1 DEF Pushed, After, FieldsOf, Begins
        <5>3. run'[x.slot] = x.run
          BY <5>2, <3>0 DEF Current, Running
        <5> QED BY <5>1, <5>2, <5>3 DEF Alive
      <4>2. r = x.run
        <5>1. TypeInv' /\ Plugin' /\ r \in Alive' /\ runner'[r] = runner'[x.run]
          BY <3>0
        <5>2. LiveUniqueNow'
          BY <5>1, LiveUniqueIs, PTL
        <5> QED BY <5>1, <5>2, <4>1 DEF LiveUniqueNow
      <4>3. x.run <= x.run
        BY <1>2
      <4> QED BY <4>2, <4>3, <3>0, <3>1
    <3>2. CASE x.type # "START"
      <4>1. /\ Continues(x) /\ runner' = runner /\ x.run \in Alive /\ r \in Alive
        BY <3>0, <3>2, <1>4 DEF Pushed, Continues
      <4>2. x.run = r
        BY <4>1, <3>0, LiveUnique
      <4>3. x.type \notin {"REJECT", "FINISH"}
        BY <4>1, <4>2 DEF Continues
      <4>4. x.run <= x.run
        BY <1>2
      <4> QED BY <3>0, <4>2, <4>3, <4>4
    <3> QED BY <3>1, <3>2
  <2> QED BY <2>1, <2>2, <2>3
<1>8. OrderPlayers'
  <2> SUFFICES ASSUME NEW k \in 1 .. N + 1
               PROVE  /\ queue'[k].run <= runs'
                      /\ queue'[k].type \in {"START", "UNPAUSE", "FINISH"} =>
                           queue'[k].player = runner'[queue'[k].run]
    BY <1>2 DEF OrderPlayers
  <2>1. CASE k = N + 1
    BY <2>1, <1>2 DEF Pushed
  <2>2. CASE k # N + 1
    <3>1. k \in 1 .. N /\ queue'[k] = queue[k]
      BY <2>2, <1>2
    <3>2. queue[k].run <= runs'
      <4>1. queue[k].run \in 0 .. runs /\ runs <= runs'
        BY <3>1, <1>1, <1>2 DEF PushRuns
      <4> QED BY <4>1, <1>2
    <3>3. queue[k] \in SignalOf(scene)
      <4>1. queue \in Seq(SignalOf(scene))
        BY DEF TypeInv, TypeQueue
      <4> QED BY <3>1, <4>1, ElementOfSeq
    <3>4. queue[k].type \in {"START", "UNPAUSE", "FINISH"} => queue[k].run # 0
      <4>1. queue[k].type \in {"START", "UNPAUSE", "FINISH"} => queue[k].run \in 1 .. RunsMax
        BY <3>3, SignalFields DEF FieldsOf
      <4> QED BY <4>1, RecorderAssumption
    <3> QED BY <3>1, <3>2, <3>4, <1>1, <1>3 DEF OrderPlayers
  <2> QED BY <2>1, <2>2
<1> QED BY <1>6, <1>7, <1>8 DEF Order

\* The runs that are mentioned have been started.
LEMMA MentionedKnown ==
  ASSUME TypeInv, Plugin, OrderPlayers
  PROVE  \A r \in Mentioned : r \in 1 .. runs /\ r \in 1 .. RunsMax /\ r # 0 /\ r <= runs
<1> SUFFICES ASSUME NEW r \in Mentioned
             PROVE  r \in 1 .. runs /\ r \in 1 .. RunsMax /\ r # 0 /\ r <= runs
  OBVIOUS
<1>1. r \in 1 .. RunsMax /\ runs \in Nat
  BY RecorderAssumption DEF Mentioned, TypeInv, TypeHistory
<1>2. r <= runs
  <2>1. CASE r \in Alive
    BY <2>1, LiveKnown
  <2>2. CASE \E k \in 1 .. Len(queue) : queue[k].run = r
    BY <2>2 DEF OrderPlayers
  <2> QED BY <2>1, <2>2 DEF Mentioned
<1> QED BY <1>1, <1>2, RecorderAssumption

\* A signal mentions a run that was mentioned, or begins it.
LEMMA PushMentions ==
  ASSUME TypeInv, Plugin, TypeInv', OrderPlayers, NEW x, Pushed(x)
  PROVE  /\ \A r \in Mentioned' : r \in Mentioned \/ (x.type = "START" /\ r = x.run)
         /\ Started \subseteq Started'
         /\ x.type = "START" => x.run = runs + 1 /\ runs' = runs + 1 /\ x.run \in Started'
         /\ \A r \in Filed : r \in 1 .. runs => r \in Filed'
         /\ \A r \in Filed' : r \in 1 .. runs => r \in Filed
<1>1. PushStays /\ PushRuns(x)
  BY PushRunsAre
<1>2. ASSUME NEW r \in Mentioned'
      PROVE  r \in Mentioned \/ (x.type = "START" /\ r = x.run)
  <2>1. r \in 1 .. RunsMax /\ r # 0
    BY DEF Mentioned
  <2>2. CASE r \in Alive'
    <3>1. CASE x.type = "START"
      BY <2>2, <3>1 DEF Pushed, Begins, Mentioned, Alive
    <3>2. CASE x.type # "START"
      BY <2>2, <3>2 DEF Pushed, Continues, Mentioned, Alive
    <3> QED BY <3>1, <3>2
  <2>3. ASSUME NEW k \in 1 .. Len(queue'), queue'[k].run = r
        PROVE  r \in Mentioned \/ (x.type = "START" /\ r = x.run)
    <3>1. CASE k \in 1 .. Len(queue)
      BY <2>1, <2>3, <3>1, <1>1 DEF PushRuns, Mentioned
    <3>2. CASE k = Len(queue) + 1
      <4>1. x.run = r
        BY <2>3, <3>2, <1>1 DEF PushRuns
      <4>2. x.type # "START" => r \in Alive
        BY <4>1, <2>1 DEF Pushed, Continues
      <4> QED BY <4>1, <4>2, <2>1 DEF Mentioned
    <3> QED BY <3>1, <3>2, <1>1 DEF PushRuns
  <2> QED BY <2>2, <2>3 DEF Mentioned
<1>3. Started \subseteq Started'
  BY <1>1 DEF Started, PushRuns
<1>4. ASSUME x.type = "START"
      PROVE  x.run = runs + 1 /\ runs' = runs + 1 /\ x.run \in Started'
  <2>1. x.run = runs + 1 /\ runs' = runs + 1
    BY <1>4 DEF Pushed, Begins
  <2>2. x.run \in 1 .. RunsMax
    <3>1. runs' \in 0 .. RunsMax /\ runs \in 0 .. RunsMax
      BY DEF TypeInv, TypeHistory
    <3> QED BY <2>1, <3>1, RecorderAssumption
  <2> QED BY <2>1, <2>2, <1>1, <1>4 DEF Started, PushRuns
<1>5. ASSUME NEW r \in 1 .. runs PROVE r \in Filed <=> r \in Filed'
  <2>1. tmp' = tmp /\ file' = file /\ runner'[r] = runner[r]
    BY <1>1 DEF PushStays, PushRuns
  <2> QED BY <2>1 DEF Filed
<1> QED BY <1>2, <1>3, <1>4, <1>5

\* Its run has a file, or the signal begins one.
LEMMA PushFiles ==
  ASSUME TypeInv, Plugin, TypeInv', Plugin', Order, Cover, Files, NEW x, Pushed(x)
  PROVE  Cover' /\ Files'
<1>1. /\ PushStays /\ PushRuns(x) /\ OrderPlayers /\ FilesTmp /\ FilesApart /\ FilesOpen
      /\ FilesStart /\ FilesSaved
  BY PushRunsAre DEF Order, Files
<1>2. /\ \A r \in Mentioned' : r \in Mentioned \/ (x.type = "START" /\ r = x.run)
      /\ Started \subseteq Started'
      /\ x.type = "START" => x.run = runs + 1 /\ runs' = runs + 1 /\ x.run \in Started'
      /\ \A r \in Filed : r \in 1 .. runs => r \in Filed'
      /\ \A r \in Mentioned : r \in 1 .. runs
  BY <1>1, PushMentions, MentionedKnown
<1>3. /\ fd' = fd /\ path' = path /\ file' = file /\ tmp' = tmp /\ saved' = saved
      /\ runs \in Nat /\ runs' \in Nat /\ runs <= runs'
      /\ \A r \in 1 .. runs : r \in 1 .. runs' /\ runner'[r] = runner[r]
  BY <1>1 DEF PushStays, PushRuns
<1>4. Cover'
  BY <1>2 DEF Cover
<1>5. FilesTmp'
  <2> SUFFICES ASSUME NEW p \in Players, tmp[p] # 0
               PROVE  /\ tmp[p] <= runs'
                      /\ file[tmp[p]].player = p
                      /\ file[tmp[p]].run \in 1 .. runs'
                      /\ runner'[file[tmp[p]].run] = p
    BY <1>3 DEF FilesTmp
  <2>1. /\ tmp[p] <= runs /\ file[tmp[p]].player = p /\ file[tmp[p]].run \in 1 .. runs
        /\ runner[file[tmp[p]].run] = p
    BY <1>1 DEF FilesTmp
  <2>2. tmp[p] \in 0 .. RunsMax
    BY DEF TypeInv, TypeFiles
  <2>3. tmp[p] \in Int
    BY <2>2
  <2> QED BY <2>1, <2>3, <1>3
<1>6. FilesApart' /\ FilesOpen'
  BY <1>1, <1>3 DEF FilesApart, FilesOpen
<1>7. FilesSaved'
  <2> SUFFICES ASSUME NEW y \in saved
               PROVE  /\ y.inode <= runs' /\ y.run <= runs'
                      /\ file[y.inode].run = y.run /\ file[y.inode].player = y.player
                      /\ \A p \in Players : tmp[p] # y.inode
                      /\ y.run \notin Mentioned'
    BY <1>3 DEF FilesSaved
  <2>1. /\ y.inode <= runs /\ y.run <= runs
        /\ file[y.inode].run = y.run /\ file[y.inode].player = y.player
        /\ \A p \in Players : tmp[p] # y.inode
        /\ y.run \notin Mentioned
    BY <1>1 DEF FilesSaved
  <2>2. y.inode \in 1 .. RunsMax /\ y.run \in 1 .. RunsMax
    BY DEF TypeInv, TypeFiles
  <2>3. y.inode \in Int /\ y.run \in Int
    BY <2>2
  <2>4. y.inode <= runs' /\ y.run <= runs' /\ y.run # runs + 1
    BY <2>1, <2>3, <1>3
  <2> QED BY <2>1, <2>4, <1>2
<1>8. FilesStart'
  <2> SUFFICES ASSUME NEW k \in 1 .. Len(queue'), queue'[k].type = "START"
               PROVE  /\ \A p \in Players : tmp[p] # queue'[k].run
                      /\ \A y \in saved : y.inode # queue'[k].run
                      /\ tmp[queue'[k].player] # 0 => file[tmp[queue'[k].player]].run < queue'[k].run
    BY <1>3 DEF FilesStart
  <2>1. CASE k \in 1 .. Len(queue)
    <3>1. queue'[k] = queue[k]
      BY <2>1, <1>1 DEF PushRuns
    <3> QED BY <2>1, <3>1, <1>1 DEF FilesStart
  <2>2. CASE k = Len(queue) + 1
    <3>1. queue'[k] = x /\ x.run = runs + 1 /\ x.player \in Players
      <4>1. queue'[k] = x
        BY <2>2, <1>1 DEF PushRuns
      <4> QED BY <4>1, <1>2 DEF Pushed, FieldsOf
    <3>2. \A p \in Players : tmp[p] # runs + 1
      <4> TAKE p \in Players
      <4>1. tmp[p] # 0 => tmp[p] <= runs
        BY <1>1 DEF FilesTmp
      <4>2. tmp[p] \in 0 .. RunsMax
        BY DEF TypeInv, TypeFiles
      <4>3. tmp[p] \in Int
        BY <4>2
      <4> QED BY <4>1, <4>3, <1>3
    <3>3. \A y \in saved : y.inode # runs + 1
      <4> TAKE y \in saved
      <4>1. y.inode <= runs
        BY <1>1 DEF FilesSaved
      <4>2. y.inode \in 1 .. RunsMax
        BY DEF TypeInv, TypeFiles
      <4>3. y.inode \in Int
        BY <4>2
      <4> QED BY <4>1, <4>3, <1>3
    <3>4. tmp[x.player] # 0 => file[tmp[x.player]].run < runs + 1
      <4>1. tmp[x.player] # 0 => file[tmp[x.player]].run \in 1 .. runs
        BY <3>1, <1>1 DEF FilesTmp
      <4> QED BY <4>1, <1>3
    <3> QED BY <3>1, <3>2, <3>3, <3>4
  <2> QED BY <2>1, <2>2, <1>1 DEF PushRuns
<1> QED BY <1>4, <1>5, <1>6, <1>7, <1>8 DEF Files

-----------------------------------------------------------------------------
(***************************************************************************)
(* The writer's steps.  x is the signal that is dealt with.                *)
(***************************************************************************)
Popped(x) ==
  /\ x = queue[1] /\ x \in SignalOf(scene) /\ FieldsOf(x, scene)
  /\ IsPopped(queue, queue') /\ GameStays

\* Its slot's file is of the run it leaves open; the others' of those they were.
Opens(x) == Opened'[x.slot] = After(x) /\ Only(Opened, Opened', Slots, x.slot)

\* What is left of the queue.
PopRest(x) ==
  /\ Len(queue) \in Nat /\ 1 \in 1 .. Len(queue) /\ Len(queue') = Len(queue) - 1
  /\ \A k \in 1 .. Len(queue') : queue'[k] = queue[k + 1] /\ k + 1 \in 1 .. Len(queue) /\ 1 < k + 1
  /\ \A k \in 1 .. Len(queue) : k = 1 \/ (k - 1 \in 1 .. Len(queue') /\ queue'[k - 1] = queue[k])
  /\ \A j \in 1 .. Len(queue'), k \in 1 .. Len(queue') : j < k => j + 1 < k + 1
  /\ queue[1] = x /\ x.slot \in Slots
  /\ runs \in Nat /\ runs' = runs /\ runner' = runner /\ Alive' = Alive /\ Current' = Current

\* It is the queue without its first signal.
LEMMA PopRestIs ==
  ASSUME TypeInv, NEW x, Popped(x)
  PROVE  PopRest(x)
<1>1. /\ Len(queue) \in Nat /\ Len(queue) >= 1 /\ Len(queue') = Len(queue) - 1
      /\ \A k \in 1 .. Len(queue) - 1 : queue'[k] = queue[k + 1]
  BY DEF Popped, IsPopped
<1>2. \A k \in 1 .. Len(queue) - 1 : k + 1 \in 1 .. Len(queue) /\ 1 < k + 1
  BY <1>1
<1>3. \A k \in 1 .. Len(queue) : k = 1 \/ (k - 1 \in 1 .. Len(queue) - 1 /\ (k - 1) + 1 = k)
  BY <1>1
<1>4. /\ \A k \in 1 .. Len(queue') : queue'[k] = queue[k + 1] /\ k + 1 \in 1 .. Len(queue) /\ 1 < k + 1
      /\ \A k \in 1 .. Len(queue) : k = 1 \/ (k - 1 \in 1 .. Len(queue') /\ queue'[k - 1] = queue[k])
  BY <1>1, <1>2, <1>3
<1>5. 1 \in 1 .. Len(queue)
      /\ \A j \in 1 .. Len(queue'), k \in 1 .. Len(queue') : j < k => j + 1 < k + 1
  BY <1>1
<1>6. /\ UNCHANGED <<run, phase, parked, runs, runner>>
      /\ queue[1] = x /\ x.slot \in Slots
  BY DEF Popped, GameStays, FieldsOf
<1>7. Alive' = Alive /\ Current' = Current
  BY <1>6 DEF Alive, Current, Running
<1>8. runs \in Nat
  BY RecorderAssumption DEF TypeInv, TypeHistory
<1> QED BY <1>1, <1>4, <1>5, <1>6, <1>7, <1>8 DEF PopRest

\* The order of what is left.
LEMMA PopOrder ==
  ASSUME TypeInv, Order, NEW x, Popped(x)
  PROVE  Order'
<1>1. PopRest(x) /\ OrderQueue /\ OrderAlive /\ OrderPlayers
  BY PopRestIs DEF Order
<1>2. OrderQueue'
  <2> SUFFICES ASSUME NEW j \in 1 .. Len(queue'), NEW k \in 1 .. Len(queue'), j < k,
                      queue'[j].run # 0, queue'[k].run # 0,
                      runner[queue'[j].run] = runner[queue'[k].run]
               PROVE  InOrder(queue'[j], queue'[k])
    BY <1>1 DEF OrderQueue, PopRest
  <2>1. /\ queue'[j] = queue[j + 1] /\ j + 1 \in 1 .. Len(queue)
        /\ queue'[k] = queue[k + 1] /\ k + 1 \in 1 .. Len(queue) /\ j + 1 < k + 1
    BY <1>1 DEF PopRest
  <2> QED BY <2>1, <1>1 DEF OrderQueue
<1>3. OrderAlive' /\ OrderPlayers'
  BY <1>1 DEF OrderAlive, OrderPlayers, PopRest
<1> QED BY <1>2, <1>3 DEF Order

\* The slot's file is of the run the signal expects, and no other file of the
\* player is open.
LEMMA PopFront ==
  ASSUME TypeInv, Plugin, Chain, Order, Files, NEW x, Popped(x)
  PROVE  /\ Opened[x.slot] = Before(x)
         /\ \A t \in Slots : t # x.slot /\ Opened[t] # 0 /\ After(x) # 0 =>
              /\ runner[Opened[t]] # runner[After(x)]
              /\ Opened[t] # After(x)
         /\ \A s \in Slots, t \in Slots : fd[s].inode = fd[t].inode /\ fd[s].inode # 0 => s = t
<1>1. PopRest(x)
  BY PopRestIs
<1>2. /\ ChainQueue /\ ChainOne /\ FilesTmp /\ FilesOpen /\ OrderPlayers
      /\ x.run \in 0 .. RunsMax
  BY DEF Chain, Files, Order, Popped, FieldsOf
<1>3. 1 - 1 = 0 /\ (\A j \in 1 .. 0 : FALSE) /\ (\A j \in 1 + 1 .. 1 : FALSE) /\ 1 \in 1 .. 1
      /\ \A j \in 1 .. 1 : j = 1
  OBVIOUS
<1>4. Opened[x.slot] = Before(x)
  <2>1. OpenAfter(queue, Opened, x.slot, 1 - 1, Before(x))
    BY <1>1, <1>2 DEF ChainQueue, PopRest
  <2>2. OpenAfter(queue, Opened, x.slot, 0, Before(x))
    BY <2>1, <1>3
  <2> QED BY <2>2, <1>3 DEF OpenAfter
<1>5. OpenAfter(queue, Opened, x.slot, 1, After(x))
  BY <1>1, <1>3 DEF OpenAfter, PopRest
<1>6. ASSUME NEW t \in Slots, t # x.slot
      PROVE  OpenAfter(queue, Opened, t, 1, Opened[t])
  BY <1>1, <1>3, <1>6 DEF OpenAfter, PopRest
<1>7. 1 \in 0 .. Len(queue) /\ 0 \in 0 .. Len(queue)
  BY <1>1 DEF PopRest
<1>8. ASSUME NEW t \in Slots, t # x.slot, Opened[t] # 0, After(x) # 0
      PROVE  runner[Opened[t]] # runner[After(x)]
  <2>1. Opened[t] \in 0 .. runs
    BY <1>2, OpenedKnown
  <2>2. Opened[t] \in 1 .. runs
    BY <2>1, <1>8, <1>1 DEF PopRest
  <2>3. After(x) \in 0 .. runs
    BY <1>1, <1>2, <1>5, <1>7, OpenKnown DEF PopRest
  <2>4. After(x) \in 1 .. runs
    BY <2>3, <1>8, <1>1 DEF PopRest
  <2>5. OpenAfter(queue, Opened, t, 1, Opened[t])
    BY <1>6, <1>8
  <2> QED BY <2>2, <2>4, <2>5, <1>1, <1>2, <1>5, <1>7, <1>8 DEF ChainOne, PopRest
<1>9. ASSUME NEW s \in Slots, NEW t \in Slots, fd[s].inode = fd[t].inode, fd[s].inode # 0
      PROVE  s = t
  <2>1. Opened[s] = Opened[t] /\ Opened[s] \in 1 .. runs /\ Opened[t] \in 1 .. runs
    BY <1>2, <1>9, OpenedKnown
  <2>2. OpenAfter(queue, Opened, s, 0, Opened[s]) /\ OpenAfter(queue, Opened, t, 0, Opened[t])
    BY <1>3 DEF OpenAfter
  <2>3. runner[Opened[s]] = runner[Opened[t]]
    BY <2>1
  <2> QED BY <2>1, <2>2, <2>3, <1>2, <1>7 DEF ChainOne
<1> QED BY <1>4, <1>8, <1>9

\* Then the signals behind it find their slots as they expect them.
LEMMA PopChain ==
  ASSUME TypeInv, Chain, NEW x, Popped(x), Opens(x)
  PROVE  Chain'
<1> DEFINE N == Len(queue)
           Was(s, k, r) == OpenAfter(queue, Opened, s, k, r)
           Is(s, k, r) == OpenAfter(queue', Opened', s, k, r)
<1>1. PopRest(x) /\ ChainQueue /\ ChainEnd /\ ChainOne /\ IsPopped(queue, queue')
  BY PopRestIs DEF Chain, Popped
<1>2. ASSUME NEW s \in Slots, NEW r, NEW k \in 0 .. N - 1
      PROVE  Is(s, k, r) <=> Was(s, k + 1, r)
  <2>1. queue[1].slot = s => Opened'[s] = After(queue[1])
    BY <1>1 DEF Opens, PopRest
  <2>2. queue[1].slot # s => Opened'[s] = Opened[s]
    BY <1>1 DEF Opens, PopRest, Only
  <2> QED BY <2>1, <2>2, <1>1, OpenPopped
<1>3. /\ N \in Nat /\ Len(queue') = N - 1 /\ N - 1 \in 0 .. N - 1 /\ (N - 1) + 1 = N
      /\ \A k \in 1 .. N - 1 : /\ k - 1 \in 0 .. N - 1 /\ (k - 1) + 1 = k /\ (k + 1) - 1 = k
                               /\ k + 1 \in 1 .. N /\ queue'[k] = queue[k + 1]
      /\ \A k \in 0 .. N - 1 : k + 1 \in 0 .. N
  <2>1. N \in Nat /\ Len(queue') = N - 1 /\ 1 \in 1 .. N
        /\ \A k \in 1 .. Len(queue') : queue'[k] = queue[k + 1]
    BY <1>1 DEF PopRest
  <2> HIDE DEF N
  <2> QED BY <2>1
<1>4. queue \in Seq(SignalOf(scene)) /\ \A k \in 1 .. N : queue[k].slot \in Slots
  <2>1. queue \in Seq(SignalOf(scene))
    BY DEF TypeInv, TypeQueue
  <2>2. \A k \in 1 .. N : queue[k] \in SignalOf(scene)
    BY <2>1, ElementOfSeq
  <2> QED BY <2>1, <2>2, SignalFields DEF FieldsOf
<1> HIDE DEF Is, Was
<1>5. ChainQueue'
  <2> SUFFICES ASSUME NEW k \in 1 .. N - 1
               PROVE  Is(queue'[k].slot, k - 1, Before(queue'[k]))
    BY <1>3 DEF ChainQueue, Is
  <2>1. Was(queue[k + 1].slot, (k + 1) - 1, Before(queue[k + 1]))
    BY <1>1, <1>3 DEF ChainQueue, Was
  <2>2. Was(queue'[k].slot, (k - 1) + 1, Before(queue'[k]))
    BY <2>1, <1>3
  <2>3. queue'[k].slot \in Slots /\ k - 1 \in 0 .. N - 1
    BY <1>3, <1>4
  <2> QED BY <2>2, <2>3, <1>2
<1>6. ChainEnd'
  <2> SUFFICES ASSUME NEW s \in Slots PROVE Is(s, N - 1, Current[s])
    BY <1>1, <1>3 DEF ChainEnd, Is, PopRest
  <2>1. Was(s, (N - 1) + 1, Current[s])
    BY <1>1, <1>3 DEF ChainEnd, Was
  <2> QED BY <2>1, <1>2, <1>3
<1>7. ChainOne'
  <2> SUFFICES ASSUME NEW k \in 0 .. N - 1, NEW s \in Slots, NEW t \in Slots,
                      NEW r \in 1 .. runs, NEW q \in 1 .. runs,
                      Is(s, k, r), Is(t, k, q), runner[r] = runner[q]
               PROVE  s = t
    BY <1>1, <1>3 DEF ChainOne, Is, PopRest
  <2>1. Was(s, k + 1, r) /\ Was(t, k + 1, q) /\ k + 1 \in 0 .. N
    BY <1>2, <1>3
  <2> QED BY <2>1, <1>1 DEF ChainOne, Was
<1> QED BY <1>5, <1>6, <1>7 DEF Chain

\* What it leaves mentioned.
LEMMA PopMentions ==
  ASSUME TypeInv, Plugin, Order, NEW x, Popped(x)
  PROVE  /\ Mentioned' \subseteq Mentioned
         /\ Started' \subseteq Started
         /\ \A r \in Started : r \in Started' \/ (x.type = "START" /\ r = x.run)
         /\ x.run # 0 => \A r \in Mentioned' : runner[r] = runner[x.run] =>
              /\ x.run <= r
              /\ r = x.run => x.type \notin {"REJECT", "FINISH"}
         /\ x.run # 0 => x.run \in Mentioned /\ x.run \in 1 .. runs /\ x.run \in 1 .. RunsMax
         /\ x.run # 0 => x.run \notin Started'
<1>1. PopRest(x) /\ OrderQueue /\ OrderAlive /\ OrderPlayers
  BY PopRestIs DEF Order
<1>2. Mentioned' \subseteq Mentioned /\ Started' \subseteq Started
  BY <1>1, SMTT(30) DEF Mentioned, Started, PopRest
<1>3. ASSUME NEW r \in Started PROVE r \in Started' \/ (x.type = "START" /\ r = x.run)
  <2>1. PICK k \in 1 .. Len(queue) : queue[k].type = "START" /\ queue[k].run = r
    BY DEF Started
  <2>2. r \in 1 .. RunsMax
    BY DEF Started
  <2> QED BY <2>1, <2>2, <1>1 DEF Started, PopRest
<1>4. ASSUME x.run # 0 PROVE x.run \in Mentioned /\ x.run \in 1 .. runs /\ x.run \in 1 .. RunsMax
  <2>1. x.run \in 1 .. RunsMax
    <3>1. x.run \in 0 .. RunsMax
      BY DEF Popped, FieldsOf
    <3> QED BY <3>1, <1>4, RecorderAssumption
  <2>2. x.run \in Mentioned
    BY <2>1, <1>1 DEF Mentioned, PopRest
  <2> QED BY <2>1, <2>2, <1>1, MentionedKnown
<1>5. ASSUME x.run # 0, NEW r \in Mentioned', runner[r] = runner[x.run]
      PROVE  /\ x.run <= r
             /\ r = x.run => x.type \notin {"REJECT", "FINISH"}
  <2>1. r \in 1 .. RunsMax /\ r # 0
    BY RecorderAssumption DEF Mentioned
  <2>2. CASE r \in Alive
    BY <2>2, <1>1, <1>5 DEF OrderAlive, PopRest
  <2>3. CASE \E k \in 1 .. Len(queue') : queue'[k].run = r
    <3>1. PICK k \in 1 .. Len(queue') : queue'[k].run = r
      BY <2>3
    <3>2. /\ k + 1 \in 1 .. Len(queue) /\ 1 < k + 1 /\ queue[k + 1].run = r
          /\ queue[1] = x /\ 1 \in 1 .. Len(queue)
      BY <3>1, <1>1 DEF PopRest
    <3>3. InOrder(x, queue[k + 1])
      BY <2>1, <3>2, <1>1, <1>5 DEF OrderQueue
    <3> QED BY <3>2, <3>3 DEF InOrder
  <2> QED BY <2>2, <2>3, <1>1 DEF Mentioned, PopRest
<1>6. ASSUME x.run # 0, x.run \in Started' PROVE FALSE
  <2>1. PICK k \in 1 .. Len(queue') : queue'[k].type = "START" /\ queue'[k].run = x.run
    BY <1>6 DEF Started
  <2>2. /\ k + 1 \in 1 .. Len(queue) /\ 1 < k + 1 /\ queue[k + 1].run = x.run
        /\ queue[k + 1].type = "START" /\ queue[1] = x /\ 1 \in 1 .. Len(queue)
    BY <2>1, <1>1 DEF PopRest
  <2>3. InOrder(x, queue[k + 1])
    BY <2>2, <1>1, <1>6 DEF OrderQueue
  <2> QED BY <2>2, <2>3 DEF InOrder
<1> QED BY <1>2, <1>3, <1>4, <1>5, <1>6

-----------------------------------------------------------------------------
\* A signal other than START leaves the files with their runs; it may remove
\* the .tmp file of its run, which may become a replay.
Leaves(x) ==
  /\ \A i \in 1 .. RunsMax : file'[i].run = file[i].run /\ file'[i].player = file[i].player
  /\ \A p \in Players : \/ tmp'[p] = tmp[p]
                        \/ tmp'[p] = 0 /\ tmp[p] # 0 /\ file[tmp[p]].run = x.run
                           /\ x.run \notin Mentioned'
  /\ \A y \in saved' : \/ y \in saved
                       \/ \E p \in Players : tmp[p] # 0 /\ tmp[p] = y.inode /\ tmp'[p] = 0
                                             /\ y.run = x.run /\ y.player = p

\* Runs keep their files and files their players.
LEMMA PopLeaves ==
  ASSUME TypeInv, TypeInv', Plugin, Order, Cover, Files, NEW x, Popped(x), x.type # "START",
         Leaves(x)
  PROVE  Cover' /\ FilesTmp' /\ FilesApart' /\ FilesStart' /\ FilesSaved'
<1>1. /\ PopRest(x) /\ FilesTmp /\ FilesApart /\ FilesStart /\ FilesSaved
      /\ \A r \in 1 .. runs : r \in 1 .. RunsMax /\ r # 0
      /\ \A p \in Players : tmp[p] \in 0 .. RunsMax /\ (tmp[p] # 0 => tmp[p] \in 1 .. RunsMax)
      /\ \A y \in saved : y.inode \in 1 .. RunsMax
  <2>1. PopRest(x) /\ FilesTmp /\ FilesApart /\ FilesStart /\ FilesSaved
    BY PopRestIs DEF Files
  <2>2. runs \in 0 .. RunsMax /\ (\A p \in Players : tmp[p] \in 0 .. RunsMax)
        /\ \A y \in saved : y.inode \in 1 .. RunsMax
    BY DEF TypeInv, TypeHistory, TypeFiles
  <2> QED BY <2>1, <2>2, RecorderAssumption
<1>2. /\ Mentioned' \subseteq Mentioned
      /\ \A r \in Started : r \in Started'
  BY PopMentions
<1>3. runs' = runs /\ runner' = runner
  BY <1>1 DEF PopRest
<1>4. ASSUME NEW p \in Players, tmp'[p] # 0
      PROVE  /\ tmp'[p] = tmp[p] /\ tmp[p] # 0 /\ tmp[p] \in 1 .. RunsMax
             /\ file'[tmp[p]].run = file[tmp[p]].run /\ file'[tmp[p]].player = file[tmp[p]].player
  BY <1>1, <1>4 DEF Leaves
<1>5. Cover'
  <2> SUFFICES ASSUME NEW r \in Mentioned', r \notin Started' PROVE r \in Filed'
    BY DEF Cover
  <2>1. r \in 1 .. RunsMax
    BY DEF Mentioned
  <2>2. r \in Filed
    BY <1>2 DEF Cover
  <2>3. runner[r] \in Players /\ tmp[runner[r]] # 0 /\ file[tmp[runner[r]]].run = r
    BY <2>2 DEF Filed
  <2>4. tmp'[runner[r]] = tmp[runner[r]]
    BY <2>3 DEF Leaves
  <2>5. file'[tmp[runner[r]]].run = r
    BY <2>3, <2>4, <1>4
  <2> QED BY <2>1, <2>3, <2>4, <2>5, <1>3 DEF Filed
<1>6. FilesTmp'
  BY <1>1, <1>3, <1>4 DEF FilesTmp
<1>7. FilesApart'
  BY <1>1, <1>4 DEF FilesApart
<1>8. FilesSaved'
  <2> SUFFICES ASSUME NEW y \in saved'
               PROVE  /\ y.inode <= runs /\ y.run <= runs
                      /\ file'[y.inode].run = y.run /\ file'[y.inode].player = y.player
                      /\ \A p \in Players : tmp'[p] # y.inode
                      /\ y.run \notin Mentioned'
    BY <1>3 DEF FilesSaved
  <2>1. CASE y \in saved
    <3>1. /\ y.inode \in 1 .. RunsMax /\ y.inode # 0
          /\ y.inode <= runs /\ y.run <= runs
          /\ file[y.inode].run = y.run /\ file[y.inode].player = y.player
          /\ \A p \in Players : tmp[p] # y.inode
          /\ y.run \notin Mentioned
      BY <1>1, <2>1, RecorderAssumption DEF FilesSaved
    <3>2. file'[y.inode].run = y.run /\ file'[y.inode].player = y.player
      BY <3>1 DEF Leaves
    <3>3. \A p \in Players : tmp'[p] # y.inode
      BY <3>1, <1>4
    <3> QED BY <3>1, <3>2, <3>3, <1>2
  <2>2. CASE y \notin saved
    <3>1. PICK p \in Players : tmp[p] # 0 /\ tmp[p] = y.inode /\ tmp'[p] = 0
                               /\ y.run = x.run /\ y.player = p
      BY <2>2 DEF Leaves
    <3>2. file[tmp[p]].run = x.run /\ x.run \notin Mentioned'
      BY <3>1 DEF Leaves
    <3>3. tmp[p] \in 1 .. RunsMax /\ tmp[p] <= runs /\ file[tmp[p]].player = p
          /\ file[tmp[p]].run \in 1 .. runs
      BY <3>1, <1>1 DEF FilesTmp
    <3>4. y.run <= runs /\ y.inode <= runs
      BY <3>1, <3>2, <3>3, <1>1 DEF PopRest
    <3>5. file'[y.inode].run = y.run /\ file'[y.inode].player = y.player
      BY <3>1, <3>2, <3>3 DEF Leaves
    <3>6. \A q \in Players : tmp'[q] # y.inode
      BY <3>1, <1>1, <1>4 DEF FilesApart
    <3> QED BY <3>1, <3>2, <3>4, <3>5, <3>6
  <2> QED BY <2>1, <2>2
<1>9. FilesStart'
  <2> SUFFICES ASSUME NEW k \in 1 .. Len(queue'), queue'[k].type = "START"
               PROVE  /\ \A p \in Players : tmp'[p] # queue'[k].run
                      /\ \A y \in saved' : y.inode # queue'[k].run
                      /\ tmp'[queue'[k].player] # 0 =>
                           file'[tmp'[queue'[k].player]].run < queue'[k].run
    BY DEF FilesStart
  <2>1. queue'[k] = queue[k + 1] /\ k + 1 \in 1 .. Len(queue) /\ queue[k + 1].type = "START"
    BY <1>1 DEF PopRest
  <2>2. queue[k + 1].player \in Players /\ queue[k + 1].run \in 1 .. RunsMax
    <3>1. queue \in Seq(SignalOf(scene))
      BY DEF TypeInv, TypeQueue
    <3>2. queue[k + 1] \in SignalOf(scene)
      BY <2>1, <3>1, ElementOfSeq
    <3> QED BY <2>1, <3>2, SignalFields DEF FieldsOf
  <2>3. /\ \A p \in Players : tmp[p] # queue[k + 1].run
        /\ \A y \in saved : y.inode # queue[k + 1].run
        /\ tmp[queue[k + 1].player] # 0 =>
             file[tmp[queue[k + 1].player]].run < queue[k + 1].run
    BY <1>1, <2>1 DEF FilesStart
  <2>4. \A p \in Players : tmp'[p] # queue[k + 1].run
    <3>1. queue[k + 1].run # 0
      BY <2>2, RecorderAssumption
    <3> QED BY <3>1, <2>3, <1>4
  <2>5. \A y \in saved' : y.inode # queue[k + 1].run
    BY <2>3 DEF Leaves
  <2>6. tmp'[queue[k + 1].player] # 0 =>
          file'[tmp'[queue[k + 1].player]].run < queue[k + 1].run
    BY <2>2, <2>3, <1>4
  <2> QED BY <2>1, <2>4, <2>5, <2>6
<1> QED BY <1>5, <1>6, <1>7, <1>8, <1>9

\* What a signal that is dealt with leaves.
Dealt(x) == Opens(x) /\ Cover' /\ Files'

\* Records are written to the slot's file only.
LEMMA WriteDealt ==
  ASSUME TypeInv, TypeInv', Plugin, Chain, Order, Cover, Files, NEW x, Popped(x),
         x.type \in {"EVENT", "FRAME"}, NEW cells, UNCHANGED <<path, tmp, saved>>,
         \/ /\ fd[x.slot].inode # 0 /\ fd[x.slot].inode \in 1 .. RunsMax
            /\ Written(x.slot, cells, fd[x.slot].inode, fd[x.slot].pos)
         \/ fd' = fd /\ file' = file
  PROVE  Dealt(x)
<1> DEFINE s == x.slot
<1>1. /\ FilesOpen /\ FilesTmp /\ s \in Slots /\ Opened[s] = Before(x)
      /\ \A t \in Slots, q \in Slots : fd[t].inode = fd[q].inode /\ fd[t].inode # 0 => t = q
      /\ \A t \in Slots : fd[t].inode \in 0 .. RunsMax /\ (fd[t].inode # 0 => fd[t].inode \in 1 .. RunsMax)
  <2>1. FilesOpen /\ FilesTmp /\ s \in Slots
    BY PopRestIs DEF Files, PopRest
  <2>2. \A t \in Slots : fd[t].inode \in 0 .. RunsMax
    BY DEF TypeInv, TypeSlots
  <2> QED BY <2>1, <2>2, PopFront, RecorderAssumption
<1>2. /\ \A i \in 1 .. RunsMax : file'[i].run = file[i].run /\ file'[i].player = file[i].player
      /\ \A t \in Slots : fd'[t].inode = fd[t].inode
  BY <1>1 DEF Written
<1>3. Leaves(x)
  BY <1>2 DEF Leaves
<1>4. \A t \in Slots : Opened'[t] = Opened[t]
  BY <1>1, <1>2 DEF Opened
<1>5. Opens(x)
  BY <1>1, <1>4 DEF Opens, Before, After, Only
<1>6. FilesOpen'
  <2> SUFFICES ASSUME NEW t \in Slots, fd[t].inode # 0
               PROVE  fd'[t].pos = Len(file'[fd[t].inode].cells)
    BY <1>1, <1>2 DEF FilesOpen
  <2>1. fd[t].pos = Len(file[fd[t].inode].cells) /\ fd[t].inode \in 1 .. RunsMax
    BY <1>1 DEF FilesOpen
  <2>2. CASE t = s
    <3>1. CASE Written(s, cells, fd[s].inode, fd[s].pos)
      BY <2>1, <2>2, <3>1 DEF Written
    <3>2. CASE fd' = fd /\ file' = file
      BY <2>1, <3>2
    <3> QED BY <3>1, <3>2
  <2>3. CASE t # s
    <3>1. CASE Written(s, cells, fd[s].inode, fd[s].pos) /\ fd[s].inode # 0
      <4>1. fd'[t] = fd[t] /\ fd[t].inode # fd[s].inode
        BY <3>1, <2>3, <1>1 DEF Written
      <4>2. file'[fd[t].inode] = file[fd[t].inode]
        BY <4>1, <3>1, <2>1 DEF Written
      <4> QED BY <4>1, <4>2, <2>1
    <3>2. CASE fd' = fd /\ file' = file
      BY <2>1, <3>2
    <3> QED BY <3>1, <3>2
  <2> QED BY <2>2, <2>3
<1>7. Cover' /\ FilesTmp' /\ FilesApart' /\ FilesStart' /\ FilesSaved'
  <2>1. x.type # "START"
    OBVIOUS
  <2> QED BY <2>1, <1>3, PopLeaves
<1> QED BY <1>5, <1>6, <1>7 DEF Dealt, Files

\* An event is written.
LEMMA EventDealt ==
  ASSUME TypeInv, TypeInv', Plugin, Chain, Order, Cover, Files, NEW x, Popped(x),
         x.type = "EVENT", EventDoes(x)
  PROVE  Dealt(x)
<1> DEFINE cells == EventCells(EventId(x.event))
<1>1. UNCHANGED <<path, tmp, saved>>
      /\ \/ /\ fd[x.slot].inode # 0 /\ fd[x.slot].inode \in 1 .. RunsMax
            /\ Written(x.slot, cells, fd[x.slot].inode, fd[x.slot].pos)
         \/ fd' = fd /\ file' = file
  BY DEF EventDoes, IsOpen
<1> HIDE DEF cells
<1>2. x.type \in {"EVENT", "FRAME"}
  OBVIOUS
<1> QED BY <1>1, <1>2, WriteDealt

\* A frame is written.
LEMMA FrameDealt ==
  ASSUME TypeInv, TypeInv', Plugin, Chain, Order, Cover, Files, NEW x, Popped(x),
         x.type = "FRAME", FrameDoes(x)
  PROVE  Dealt(x)
<1> DEFINE cells == IF keyNext[x.slot] THEN KeyFrameCells(Content(x.frame))
                    ELSE DeltaCells(Content(x.frame), Content(last[x.slot]))
<1>1. UNCHANGED <<path, tmp, saved>>
      /\ \/ /\ fd[x.slot].inode # 0 /\ fd[x.slot].inode \in 1 .. RunsMax
            /\ Written(x.slot, cells, fd[x.slot].inode, fd[x.slot].pos)
         \/ fd' = fd /\ file' = file
  BY DEF FrameDoes, IsOpen
<1> HIDE DEF cells
<1>2. x.type \in {"EVENT", "FRAME"}
  OBVIOUS
<1> QED BY <1>1, <1>2, WriteDealt

\* A slot is closed: its file keeps its run and its records.
LEMMA ClosedDealt ==
  ASSUME TypeInv, TypeInv', Plugin, Chain, Order, Cover, Files, NEW x, Popped(x),
         x.type \in {"PAUSE", "REJECT", "FINISH"}, Leaves(x), UNCHANGED path,
         \/ fd'[x.slot] = Closed
         \/ fd[x.slot].inode = 0 /\ fd'[x.slot] = fd[x.slot],
         Only(fd, fd', Slots, x.slot), Only(tmp, tmp', Players, path[x.slot]),
         \A i \in 1 .. RunsMax : file'[i].cells = file[i].cells,
         fd[x.slot].inode = 0 => tmp' = tmp
  PROVE  Dealt(x)
<1> DEFINE s == x.slot
<1>1. /\ FilesOpen /\ FilesTmp /\ s \in Slots
      /\ \A t \in Slots, q \in Slots : fd[t].inode = fd[q].inode /\ fd[t].inode # 0 => t = q
      /\ \A t \in Slots : fd[t].inode \in 0 .. RunsMax /\ (fd[t].inode # 0 => fd[t].inode \in 1 .. RunsMax)
  <2>1. FilesOpen /\ FilesTmp /\ s \in Slots
    BY PopRestIs DEF Files, PopRest
  <2>2. \A t \in Slots : fd[t].inode \in 0 .. RunsMax
    BY DEF TypeInv, TypeSlots
  <2> QED BY <2>1, <2>2, PopFront, RecorderAssumption
<1>2. fd'[s].inode = 0 /\ \A t \in Slots : t # s => fd'[t] = fd[t]
  BY DEF Closed, Only
<1>3. Opened'[s] = 0 /\ Only(Opened, Opened', Slots, s)
  <2>1. \A t \in Slots : t # s /\ fd[t].inode # 0 => file'[fd[t].inode].run = file[fd[t].inode].run
    BY <1>1 DEF Leaves
  <2> QED BY <1>1, <1>2, <2>1 DEF Opened, Only
<1>4. Opens(x)
  BY <1>3 DEF Opens, After
<1>5. FilesOpen'
  <2> SUFFICES ASSUME NEW t \in Slots, t # s, fd[t].inode # 0
               PROVE  /\ path[t] \in Players /\ tmp'[path[t]] = fd[t].inode
                      /\ fd[t].pos = Len(file'[fd[t].inode].cells)
    BY <1>2 DEF FilesOpen
  <2>1. path[t] \in Players /\ tmp[path[t]] = fd[t].inode /\ fd[t].pos = Len(file[fd[t].inode].cells)
        /\ fd[t].inode \in 1 .. RunsMax
    BY <1>1 DEF FilesOpen
  <2>2. fd[s].inode # 0 => path[t] # path[s]
    <3>1. fd[s].inode # 0 => tmp[path[s]] = fd[s].inode
      BY <1>1 DEF FilesOpen
    <3> QED BY <3>1, <2>1, <1>1
  <2>3. tmp'[path[t]] = tmp[path[t]]
    BY <2>1, <2>2 DEF Only
  <2> QED BY <2>1, <2>3
<1>6. Cover' /\ FilesTmp' /\ FilesApart' /\ FilesStart' /\ FilesSaved'
  <2>1. x.type # "START"
    OBVIOUS
  <2> QED BY <2>1, PopLeaves
<1> QED BY <1>4, <1>5, <1>6 DEF Dealt, Files

\* When a run ends, its slot's file is its own, and it is not mentioned again.
LEMMA EndsFile ==
  ASSUME TypeInv, Plugin, Chain, Order, Files, NEW x, Popped(x),
         x.type \in {"PAUSE", "REJECT", "FINISH"}, fd[x.slot].inode # 0
  PROVE  /\ path[x.slot] \in Players /\ tmp[path[x.slot]] = fd[x.slot].inode
         /\ fd[x.slot].inode \in 1 .. RunsMax
         /\ file[fd[x.slot].inode].run = x.run /\ x.run # 0 /\ runner[x.run] = path[x.slot]
         /\ x.type # "PAUSE" => x.run \notin Mentioned'
<1>1. /\ FilesOpen /\ FilesTmp /\ x.slot \in Slots /\ Opened[x.slot] = x.run
      /\ fd[x.slot].inode \in 1 .. RunsMax
  <2>1. FilesOpen /\ FilesTmp /\ x.slot \in Slots
    BY PopRestIs DEF Files, PopRest
  <2>2. fd[x.slot].inode \in 0 .. RunsMax
    BY <2>1 DEF TypeInv, TypeSlots
  <2>3. Opened[x.slot] = Before(x)
    BY PopFront
  <2>4. Before(x) = x.run
    BY DEF Before
  <2> QED BY <2>1, <2>2, <2>3, <2>4, RecorderAssumption
<1>2. /\ path[x.slot] \in Players /\ tmp[path[x.slot]] = fd[x.slot].inode
      /\ file[fd[x.slot].inode].run = x.run /\ x.run # 0 /\ runner[x.run] = path[x.slot]
  BY <1>1, OpenedKnown
<1>3. x.type # "PAUSE" => x.run \notin Mentioned'
  BY <1>2, PopMentions
<1> QED BY <1>1, <1>2, <1>3

\* The file is closed.
LEMMA PauseDealt ==
  ASSUME TypeInv, TypeInv', Plugin, Chain, Order, Cover, Files, NEW x, Popped(x),
         x.type = "PAUSE", PauseDoes(x)
  PROVE  Dealt(x)
<1>1. x.type \in {"PAUSE", "REJECT", "FINISH"} /\ UNCHANGED <<path, tmp, saved>>
  BY DEF PauseDoes
<1>2. /\ \A i \in 1 .. RunsMax : file'[i].run = file[i].run /\ file'[i].player = file[i].player
                                 /\ file'[i].cells = file[i].cells
      /\ \/ fd'[x.slot] = Closed
         \/ fd[x.slot].inode = 0 /\ fd'[x.slot] = fd[x.slot]
      /\ Only(fd, fd', Slots, x.slot)
  BY DEF PauseDoes, Closes, IsOpen, Only
<1>3. Leaves(x) /\ Only(tmp, tmp', Players, path[x.slot])
  BY <1>1, <1>2 DEF Leaves, Only
<1> QED BY <1>1, <1>2, <1>3, ClosedDealt

\* The file is closed and may be removed.
LEMMA RejectDealt ==
  ASSUME TypeInv, TypeInv', Plugin, Chain, Order, Cover, Files, NEW x, Popped(x),
         x.type = "REJECT", RejectDoes(x)
  PROVE  Dealt(x)
<1>1. /\ x.type \in {"PAUSE", "REJECT", "FINISH"} /\ UNCHANGED <<path, file, saved>>
      /\ fd'[x.slot] = Closed /\ Only(fd, fd', Slots, x.slot)
      /\ Only(tmp, tmp', Players, path[x.slot])
      /\ fd[x.slot].inode = 0 => tmp' = tmp
      /\ fd[x.slot].inode # 0 /\ path[x.slot] \in Players =>
           tmp'[path[x.slot]] = tmp[path[x.slot]] \/ tmp'[path[x.slot]] = 0
  BY DEF RejectDoes, Only, IsOpen
<1>2. Leaves(x)
  <2>1. CASE fd[x.slot].inode = 0
    BY <1>1, <2>1 DEF Leaves
  <2>2. CASE fd[x.slot].inode # 0
    <3>1. /\ path[x.slot] \in Players /\ tmp[path[x.slot]] = fd[x.slot].inode
          /\ file[fd[x.slot].inode].run = x.run /\ x.run \notin Mentioned'
      BY <2>2, <1>1, EndsFile
    <3> QED BY <3>1, <2>2, <1>1 DEF Leaves, Only
  <2> QED BY <2>1, <2>2
<1> QED BY <1>1, <1>2, ClosedDealt

\* The file becomes a replay.
LEMMA FinishDealt ==
  ASSUME TypeInv, TypeInv', Plugin, Chain, Order, Cover, Files, NEW x, Popped(x),
         x.type = "FINISH", FinishDoes(x)
  PROVE  Dealt(x)
<1>1. x.type \in {"PAUSE", "REJECT", "FINISH"} /\ path' = path
  BY DEF FinishDoes
<1>2. CASE fd[x.slot].inode = 0
  <2>1. file' = file /\ tmp' = tmp /\ saved' = saved /\ fd' = fd
    BY <1>2 DEF FinishDoes, IsOpen
  <2>2. Leaves(x) /\ Only(fd, fd', Slots, x.slot) /\ Only(tmp, tmp', Players, path[x.slot])
    BY <2>1 DEF Leaves, Only
  <2> QED BY <1>1, <1>2, <2>1, <2>2, ClosedDealt
<1>3. CASE fd[x.slot].inode # 0
  <2>1. /\ path[x.slot] \in Players /\ tmp[path[x.slot]] = fd[x.slot].inode
        /\ file[fd[x.slot].inode].run = x.run /\ x.run \notin Mentioned'
        /\ x.run # 0 /\ runner[x.run] = path[x.slot]
    BY <1>3, <1>1, EndsFile
  <2>2. /\ \A i \in 1 .. RunsMax : file'[i].run = file[i].run /\ file'[i].player = file[i].player
                                   /\ file'[i].cells = file[i].cells
        /\ fd'[x.slot] = Closed
        /\ Only(fd, fd', Slots, x.slot)
        /\ Only(tmp, tmp', Players, path[x.slot]) /\ tmp'[path[x.slot]] = 0
    BY <1>3, <2>1 DEF FinishDoes, Closes, IsOpen, Only
  <2>3. \A y \in saved' : \/ y \in saved
                          \/ y.inode = fd[x.slot].inode /\ y.run = x.run /\ y.player = x.player
    BY <1>3 DEF FinishDoes, IsOpen
  <2>4. x.player = runner[x.run]
    <3>1. PopRest(x) /\ OrderPlayers
      BY PopRestIs DEF Order
    <3>2. queue[1] = x /\ 1 \in 1 .. Len(queue)
      BY <3>1 DEF PopRest
    <3> QED BY <3>1, <3>2 DEF OrderPlayers
  <2>5. Leaves(x)
    BY <1>3, <2>1, <2>2, <2>3, <2>4 DEF Leaves, Only
  <2> QED BY <1>1, <1>3, <2>2, <2>5, ClosedDealt
<1> QED BY <1>2, <1>3

\* A run that goes on has its file.
LEMMA UnpauseFile ==
  ASSUME TypeInv, Plugin, Chain, Order, Cover, Files, NEW x, Popped(x), x.type = "UNPAUSE"
  PROVE  /\ x.player = runner[x.run] /\ x.player \in Players
         /\ tmp[x.player] # 0 /\ tmp[x.player] \in 1 .. RunsMax
         /\ file[tmp[x.player]].run = x.run
         /\ x.run \in Mentioned /\ x.run \in Filed /\ x.run \in 1 .. runs /\ x.run # 0
<1>1. PopRest(x) /\ OrderPlayers /\ x.run \in 1 .. RunsMax /\ x.player \in Players /\ x.run # 0
  <2>1. PopRest(x) /\ OrderPlayers /\ x.run \in 1 .. RunsMax /\ x.player \in Players
    BY PopRestIs DEF Order, Popped, FieldsOf
  <2> QED BY <2>1, RecorderAssumption
<1>2. x.player = runner[x.run]
  <2>1. queue[1] = x /\ 1 \in 1 .. Len(queue)
    BY <1>1 DEF PopRest
  <2> QED BY <2>1, <1>1 DEF OrderPlayers
<1>3. /\ x.run \in Mentioned /\ x.run \in 1 .. runs /\ x.run \notin Started'
      /\ \A r \in Started : r \in Started' \/ (x.type = "START" /\ r = x.run)
  BY <1>1, PopMentions
<1>4. x.run \in Filed
  BY <1>3 DEF Cover
<1>5. tmp[x.player] # 0 /\ file[tmp[x.player]].run = x.run
  BY <1>2, <1>4 DEF Filed
<1>6. tmp[x.player] \in 0 .. RunsMax
  BY <1>1 DEF TypeInv, TypeFiles
<1>7. tmp[x.player] \in 1 .. RunsMax
  BY <1>5, <1>6, RecorderAssumption
<1> QED BY <1>1, <1>2, <1>3, <1>4, <1>5, <1>7

\* The file of the run is opened in the slot.
LEMMA UnpauseDealt ==
  ASSUME TypeInv, TypeInv', Plugin, Chain, Order, Cover, Files, NEW x, Popped(x),
         x.type = "UNPAUSE", UnpauseDoes(x)
  PROVE  Dealt(x)
<1> DEFINE s == x.slot
           p == x.player
<1>1. /\ tmp[p] # 0 /\ tmp[p] \in 1 .. RunsMax
      /\ file[tmp[p]].run = x.run /\ p \in Players
  BY UnpauseFile
<1>2. s \in Slots /\ FilesOpen
  BY PopRestIs DEF Files, PopRest
<1>3. /\ UNCHANGED <<file, tmp, saved>>
      /\ fd'[s] = [inode |-> tmp[p], pos |-> Len(file[tmp[p]].cells)]
      /\ Only(fd, fd', Slots, s)
      /\ path'[s] = p /\ Only(path, path', Slots, s)
  BY <1>1 DEF UnpauseDoes
<1>4. Leaves(x)
  BY <1>3 DEF Leaves
<1>5. fd'[s].inode = tmp[p] /\ fd'[s].pos = Len(file[tmp[p]].cells)
  BY <1>3
<1>6. Opens(x)
  BY <1>1, <1>2, <1>3, <1>5 DEF Opens, Opened, Only, After
<1>7. FilesOpen'
  BY <1>1, <1>2, <1>3, <1>5 DEF FilesOpen, Only
<1>8. Cover' /\ FilesTmp' /\ FilesApart' /\ FilesStart' /\ FilesSaved'
  <2>1. x.type # "START"
    OBVIOUS
  <2> QED BY <2>1, <1>4, PopLeaves
<1> QED BY <1>6, <1>7, <1>8 DEF Dealt, Files

\* What is known when a run's file is begun: i is its inode.
StartKnows(x, i) ==
  /\ PopRest(x) /\ Order /\ Files
  /\ x.slot \in Slots /\ x.run \in 1 .. runs /\ x.run # 0 /\ runs \in Nat
  /\ x.player \in Players /\ x.player = runner[x.run]
  /\ i \in 1 .. RunsMax /\ i # 0 /\ i <= runs
  /\ i = tmp[x.player] \/ i = x.run
  /\ tmp[x.player] # 0 => i = tmp[x.player] /\ file[tmp[x.player]].run < x.run
  /\ \A q \in Players : q # x.player => tmp[q] # i
  /\ \A y \in saved : y.inode # i
  /\ \A t \in Slots : t # x.slot /\ fd[t].inode # 0 => path[t] # x.player /\ fd[t].inode # i
  /\ \A q \in Players : tmp[q] # 0 => tmp[q] \in 1 .. RunsMax
  /\ \A t \in Slots : fd[t].inode # 0 => fd[t].inode \in 1 .. RunsMax
  /\ \A y \in saved : y.inode \in 1 .. RunsMax

\* Its inode is no other player's, no other slot's and no replay's.
LEMMA StartInode ==
  ASSUME TypeInv, Plugin, Chain, Order, Cover, Files, NEW x, Popped(x), x.type = "START",
         NEW i, i = IF tmp[x.player] # 0 THEN tmp[x.player] ELSE x.run
  PROVE  StartKnows(x, i)
<1>1. PopRest(x) /\ OrderPlayers /\ x.run \in 1 .. RunsMax /\ x.player \in Players /\ x.run # 0
      /\ x.slot \in Slots /\ runs \in Nat
      /\ FilesTmp /\ FilesApart /\ FilesOpen /\ FilesStart /\ FilesSaved
  <2>1. PopRest(x) /\ OrderPlayers /\ x.run \in 1 .. RunsMax /\ x.player \in Players
        /\ FilesTmp /\ FilesApart /\ FilesOpen /\ FilesStart /\ FilesSaved
    BY PopRestIs DEF Order, Popped, FieldsOf, Files
  <2> QED BY <2>1, RecorderAssumption DEF PopRest
<1>2. queue[1] = x /\ 1 \in 1 .. Len(queue)
  BY <1>1 DEF PopRest
<1>3. x.player = runner[x.run]
  BY <1>1, <1>2 DEF OrderPlayers
<1>4. x.run \in 1 .. runs
  BY <1>1, PopMentions
<1>5. /\ \A p \in Players : tmp[p] # x.run
      /\ \A y \in saved : y.inode # x.run
      /\ tmp[x.player] # 0 => file[tmp[x.player]].run < x.run
  BY <1>1, <1>2 DEF FilesStart
<1>6. /\ \A q \in Players : tmp[q] # 0 => tmp[q] \in 1 .. RunsMax
      /\ \A t \in Slots : fd[t].inode # 0 => fd[t].inode \in 1 .. RunsMax
      /\ \A y \in saved : y.inode \in 1 .. RunsMax
  <2>1. /\ \A q \in Players : tmp[q] \in 0 .. RunsMax
        /\ \A t \in Slots : fd[t].inode \in 0 .. RunsMax
        /\ \A y \in saved : y.inode \in 1 .. RunsMax
    BY DEF TypeInv, TypeFiles, TypeSlots
  <2> QED BY <2>1, RecorderAssumption
<1>7. /\ i \in 1 .. RunsMax /\ i # 0 /\ i <= runs
  <2>1. CASE tmp[x.player] # 0
    BY <2>1, <1>1, <1>6 DEF FilesTmp
  <2>2. CASE tmp[x.player] = 0
    BY <2>2, <1>1, <1>4
  <2> QED BY <2>1, <2>2
<1>8. \A q \in Players : q # x.player => tmp[q] # i
  <2>1. CASE tmp[x.player] # 0
    BY <2>1, <1>1 DEF FilesApart
  <2>2. CASE tmp[x.player] = 0
    BY <2>2, <1>5
  <2> QED BY <2>1, <2>2
<1>9. \A y \in saved : y.inode # i
  <2>1. CASE tmp[x.player] # 0
    BY <2>1, <1>1 DEF FilesSaved
  <2>2. CASE tmp[x.player] = 0
    BY <2>2, <1>5
  <2> QED BY <2>1, <2>2
<1>10. ASSUME NEW t \in Slots, t # x.slot, fd[t].inode # 0
       PROVE  path[t] # x.player /\ fd[t].inode # i
  <2>1. Opened[t] # 0 /\ path[t] \in Players /\ runner[Opened[t]] = path[t] /\ tmp[path[t]] = fd[t].inode
    BY <1>1, <1>10, OpenedKnown
  <2>2. After(x) = x.run
    BY DEF After
  <2>3. runner[Opened[t]] # runner[x.run]
    BY <2>1, <2>2, <1>1, <1>10, PopFront
  <2> QED BY <2>1, <2>3, <1>3, <1>8
<1> QED BY <1>1, <1>3, <1>4, <1>5, <1>6, <1>7, <1>8, <1>9, <1>10 DEF StartKnows

\* The file of the run is begun.
LEMMA StartDealt ==
  ASSUME TypeInv, TypeInv', Plugin, Chain, Order, Cover, Files, NEW x, Popped(x),
         x.type = "START", StartDoes(x)
  PROVE  Dealt(x)
<1> DEFINE s == x.slot
           p == x.player
<1>0. PICK i : i = IF tmp[p] # 0 THEN tmp[p] ELSE x.run
  OBVIOUS
<1>1. StartKnows(x, i)
  BY <1>0, StartInode
<1>2. /\ tmp'[p] = i /\ Only(tmp, tmp', Players, p)
      /\ file'[i] = NewFile(p, x.run) /\ Only(file, file', 1 .. RunsMax, i)
      /\ fd'[s] = [inode |-> i, pos |-> 0] /\ Only(fd, fd', Slots, s)
      /\ path'[s] = p /\ Only(path, path', Slots, s)
      /\ saved' = saved
  BY <1>0 DEF StartDoes
<1>3. /\ file'[i].player = p /\ file'[i].run = x.run /\ Len(file'[i].cells) = 0
      /\ fd'[s].inode = i /\ fd'[s].pos = 0
  BY <1>2 DEF NewFile
<1>4. /\ PopRest(x) /\ OrderQueue /\ OrderPlayers
      /\ FilesTmp /\ FilesApart /\ FilesOpen /\ FilesStart /\ FilesSaved
  BY <1>1 DEF StartKnows, Order, Files
<1>5. /\ Mentioned' \subseteq Mentioned
      /\ \A r \in Started : r \in Started' \/ (x.type = "START" /\ r = x.run)
      /\ x.run # 0 => \A r \in Mentioned' : runner[r] = runner[x.run] =>
           /\ x.run <= r
           /\ r = x.run => x.type \notin {"REJECT", "FINISH"}
  BY PopMentions
<1>6. runs' = runs /\ runner' = runner
  BY <1>4 DEF PopRest
<1>7. Opens(x)
  <2>1. Opened'[s] = x.run
    BY <1>1, <1>3 DEF Opened, StartKnows
  <2>2. Only(Opened, Opened', Slots, s)
    BY <1>1, <1>2 DEF Opened, Only, StartKnows
  <2> QED BY <2>1, <2>2 DEF Opens, After
<1>8. FilesTmp'
  BY <1>1, <1>2, <1>3, <1>4, <1>6 DEF FilesTmp, StartKnows, Only
<1>9. FilesApart'
  BY <1>1, <1>2, <1>4 DEF FilesApart, StartKnows, Only
<1>10. FilesOpen'
  BY <1>1, <1>2, <1>3, <1>4 DEF FilesOpen, StartKnows, Only
<1>11. FilesSaved'
  BY <1>1, <1>2, <1>4, <1>5, <1>6 DEF FilesSaved, StartKnows, Only
<1>12. FilesStart'
  <2> SUFFICES ASSUME NEW k \in 1 .. Len(queue'), queue'[k].type = "START"
               PROVE  /\ \A q \in Players : tmp'[q] # queue'[k].run
                      /\ \A y \in saved' : y.inode # queue'[k].run
                      /\ tmp'[queue'[k].player] # 0 =>
                           file'[tmp'[queue'[k].player]].run < queue'[k].run
    BY DEF FilesStart
  <2>1. /\ queue'[k] = queue[k + 1] /\ k + 1 \in 1 .. Len(queue) /\ queue[k + 1].type = "START"
        /\ 1 < k + 1 /\ queue[1] = x /\ 1 \in 1 .. Len(queue)
    BY <1>4 DEF PopRest
  <2> DEFINE y == queue[k + 1]
  <2>2. y.player \in Players /\ y.run \in 1 .. RunsMax /\ y.run # 0
    <3>1. queue \in Seq(SignalOf(scene))
      BY DEF TypeInv, TypeQueue
    <3>2. y \in SignalOf(scene)
      BY <2>1, <3>1, ElementOfSeq
    <3>3. y.player \in Players /\ y.run \in 1 .. RunsMax
      BY <2>1, <3>2, SignalFields DEF FieldsOf
    <3> QED BY <3>3, RecorderAssumption
  <2>3. /\ \A q \in Players : tmp[q] # y.run
        /\ \A z \in saved : z.inode # y.run
        /\ tmp[y.player] # 0 => file[tmp[y.player]].run < y.run
        /\ y.player = runner[y.run]
    BY <1>4, <2>1 DEF FilesStart, OrderPlayers
  <2>4. runner[y.run] = runner[x.run] => x.run < y.run
    <3>1. ASSUME runner[y.run] = runner[x.run] PROVE x.run < y.run
      <4>1. InOrder(x, y)
        BY <3>1, <2>1, <2>2, <1>1, <1>4 DEF OrderQueue, StartKnows
      <4>2. x.run \in Nat /\ y.run \in Nat /\ x.run <= y.run /\ x.run # y.run
        BY <4>1, <2>1, <2>2, <1>1, RecorderAssumption DEF InOrder, StartKnows
      <4> QED BY <4>2
    <3> QED BY <3>1
  <2>5. y.run # i
    <3>1. CASE i = tmp[p]
      BY <3>1, <2>3, <1>1 DEF StartKnows
    <3>2. CASE i = x.run
      <4>1. x.run \in Nat
        BY <1>1 DEF StartKnows
      <4>2. ~(x.run < x.run)
        BY <4>1
      <4> QED BY <3>2, <2>4, <4>2
    <3> QED BY <3>1, <3>2, <1>1 DEF StartKnows
  <2>6. \A q \in Players : tmp'[q] # y.run
    BY <2>3, <2>5, <1>2 DEF Only
  <2>7. tmp'[y.player] # 0 => file'[tmp'[y.player]].run < y.run
    <3>1. CASE y.player = p
      <4>1. runner[y.run] = runner[x.run]
        BY <3>1, <2>3, <1>1 DEF StartKnows
      <4> QED BY <3>1, <4>1, <2>4, <1>2, <1>3
    <3>2. CASE y.player # p
      <4>1. tmp'[y.player] = tmp[y.player] /\ tmp[y.player] # i
        BY <3>2, <2>2, <1>1, <1>2 DEF Only, StartKnows
      <4>2. tmp[y.player] # 0 => file'[tmp[y.player]] = file[tmp[y.player]]
        BY <4>1, <2>2, <1>1, <1>2 DEF Only, StartKnows
      <4> QED BY <4>1, <4>2, <2>3
    <3> QED BY <3>1, <3>2
  <2> QED BY <2>1, <2>3, <2>6, <2>7, <1>2
<1>13. Cover'
  <2> SUFFICES ASSUME NEW r \in Mentioned', r \notin Started' PROVE r \in Filed'
    BY DEF Cover
  <2>1. r \in 1 .. RunsMax
    BY DEF Mentioned
  <2>2. CASE r = x.run
    BY <2>1, <2>2, <1>1, <1>2, <1>3, <1>6 DEF Filed, StartKnows
  <2>3. CASE r # x.run
    <3>1. r \in Filed
      BY <2>3, <1>5 DEF Cover
    <3>2. runner[r] \in Players /\ tmp[runner[r]] # 0 /\ file[tmp[runner[r]]].run = r
      BY <3>1 DEF Filed
    <3>3. runner[r] # p
      <4>1. ASSUME runner[r] = p PROVE FALSE
        <5>1. x.run <= r /\ r < x.run
          BY <4>1, <3>2, <1>1, <1>5 DEF StartKnows
        <5>2. x.run \in Int /\ r \in Int
          BY <2>1, <1>1 DEF StartKnows
        <5> QED BY <5>1, <5>2
      <4> QED BY <4>1
    <3>4. tmp'[runner[r]] = tmp[runner[r]] /\ tmp[runner[r]] # i
      BY <3>2, <3>3, <1>1, <1>2 DEF Only, StartKnows
    <3>5. file'[tmp[runner[r]]] = file[tmp[runner[r]]]
      BY <3>2, <3>4, <1>1, <1>2 DEF Only, StartKnows
    <3> QED BY <2>1, <3>2, <3>4, <3>5, <1>6 DEF Filed
  <2> QED BY <2>2, <2>3
<1> QED BY <1>7, <1>8, <1>9, <1>10, <1>11, <1>12, <1>13 DEF Dealt, Files

-----------------------------------------------------------------------------
(***************************************************************************)
(* The frames of the queue are in order; those of a run in progress are    *)
(* captured, and those of none are not.                                    *)
(***************************************************************************)
FramesQueued ==
  \A j \in 1 .. Len(queue) : queue[j].type = "FRAME" =>
    /\ queue[j].frame \in 1 .. frames
    /\ \A k \in 1 .. Len(queue) :
         j < k /\ queue[k].type = "FRAME" => queue[j].frame < queue[k].frame
    /\ queue[j].run # 0 =>
         \E n \in 1 .. Len(captured[queue[j].run]) :
           captured[queue[j].run][n] = queue[j].frame
    /\ queue[j].run = 0 =>
         \A r \in 1 .. RunsMax : \A n \in 1 .. Len(captured[r]) :
           captured[r][n] # queue[j].frame

\* Captured frames are in order too, and each is of one run.
FramesCaptured ==
  \A r \in 1 .. RunsMax : \A n \in 1 .. Len(captured[r]) :
    /\ captured[r][n] \in 1 .. frames
    /\ \A m \in 1 .. Len(captured[r]) : n < m => captured[r][n] < captured[r][m]
    /\ \A q \in 1 .. RunsMax : \A m \in 1 .. Len(captured[q]) :
         captured[r][n] = captured[q][m] => r = q

Frames == FramesQueued /\ FramesCaptured

\* A step that signals nothing.
LEMMA QuietFrames ==
  ASSUME Frames, Quiet
  PROVE  Frames'
<1>1. queue' = queue /\ frames' = frames /\ captured' = captured
  BY DEF Quiet
<1> QED BY <1>1, SMTT(30) DEF Frames, FramesQueued, FramesCaptured

\* A signal leaves the queue.
LEMMA PopFrames ==
  ASSUME TypeInv, Frames, NEW x, Popped(x)
  PROVE  Frames'
<1>1. PopRest(x) /\ frames' = frames /\ captured' = captured
  BY PopRestIs DEF Popped, GameStays
<1>2. FramesQueued'
  <2> SUFFICES ASSUME NEW j \in 1 .. Len(queue'), queue'[j].type = "FRAME"
               PROVE  /\ queue'[j].frame \in 1 .. frames
                      /\ \A k \in 1 .. Len(queue') :
                           j < k /\ queue'[k].type = "FRAME" => queue'[j].frame < queue'[k].frame
                      /\ queue'[j].run # 0 =>
                           \E n \in 1 .. Len(captured[queue'[j].run]) :
                             captured[queue'[j].run][n] = queue'[j].frame
                      /\ queue'[j].run = 0 =>
                           \A r \in 1 .. RunsMax : \A n \in 1 .. Len(captured[r]) :
                             captured[r][n] # queue'[j].frame
    BY <1>1 DEF FramesQueued
  <2>1. queue'[j] = queue[j + 1] /\ j + 1 \in 1 .. Len(queue)
    BY <1>1 DEF PopRest
  <2>2. \A k \in 1 .. Len(queue') : /\ queue'[k] = queue[k + 1] /\ k + 1 \in 1 .. Len(queue)
                                    /\ j < k => j + 1 < k + 1
    BY <1>1 DEF PopRest
  <2>3. FramesQueued
    BY DEF Frames
  <2>4. /\ queue[j + 1].frame \in 1 .. frames
        /\ queue[j + 1].run # 0 =>
             \E n \in 1 .. Len(captured[queue[j + 1].run]) :
               captured[queue[j + 1].run][n] = queue[j + 1].frame
        /\ queue[j + 1].run = 0 =>
             \A r \in 1 .. RunsMax : \A n \in 1 .. Len(captured[r]) :
               captured[r][n] # queue[j + 1].frame
    BY <2>1, <2>3 DEF FramesQueued
  <2>5. ASSUME NEW k \in 1 .. Len(queue'), j < k, queue'[k].type = "FRAME"
        PROVE  queue'[j].frame < queue'[k].frame
    BY <2>1, <2>2, <2>3, <2>5 DEF FramesQueued
  <2> QED BY <2>1, <2>4, <2>5
<1>3. FramesCaptured'
  BY <1>1 DEF Frames, FramesCaptured
<1> QED BY <1>2, <1>3 DEF Frames

\* What is captured when a signal is queued.
PushCaptured(x) ==
  /\ frames \in Nat /\ frames <= frames'
  /\ x.type = "FRAME" => frames' = frames + 1 /\ x.frame = frames + 1 /\ x.run \in 0 .. RunsMax
  /\ x.type # "FRAME" => captured' = captured /\ frames' = frames
  /\ \A r \in 1 .. RunsMax : \A n \in 1 .. Len(captured[r]) :
       n \in 1 .. Len(captured'[r]) /\ captured'[r][n] = captured[r][n]
  /\ \A r \in 1 .. RunsMax : \A n \in 1 .. Len(captured'[r]) :
       \/ n \in 1 .. Len(captured[r])
       \/ /\ x.type = "FRAME" /\ r = x.run /\ captured'[r][n] = x.frame
          /\ n = Len(captured'[r]) /\ n = Len(captured[r]) + 1
  /\ x.type = "FRAME" /\ x.run # 0 =>
       /\ Len(captured'[x.run]) \in 1 .. Len(captured'[x.run])
       /\ captured'[x.run][Len(captured'[x.run])] = x.frame
  /\ \A r \in 1 .. RunsMax : Len(captured[r]) \in Nat /\ Len(captured'[r]) \in Nat

\* A frame of a run in progress; nothing otherwise.
LEMMA PushCapturedIs ==
  ASSUME TypeInv, NEW x, Pushed(x)
  PROVE  PushCaptured(x)
<1>1. /\ FieldsOf(x, scene) /\ Captures(x) /\ captured \in [1 .. RunsMax -> Seq(Nat)]
      /\ frames \in 0 .. scene.frames
  BY DEF Pushed, TypeInv, TypeHistory
<1>2. frames \in Nat /\ x.run \in 0 .. RunsMax /\ scene.frames \in Int
  BY <1>1, RecorderAssumption DEF FieldsOf, TypeInv, TypeHistory
<1>3. \A r \in 1 .. RunsMax : captured[r] \in Seq(Nat) /\ Len(captured[r]) \in Nat
  BY <1>1, LenProperties
<1>4. CASE x.type # "FRAME"
  <2>1. captured' = captured /\ frames' = frames
    BY <1>1, <1>4 DEF Captures
  <2> QED BY <2>1, <1>2, <1>3, <1>4 DEF PushCaptured
<1>5. CASE x.type = "FRAME"
  <2>1. /\ frames' = frames + 1 /\ x.frame = frames'
        /\ \A r \in 1 .. RunsMax : r # x.run => captured'[r] = captured[r]
        /\ x.run # 0 => captured'[x.run] = Append(captured[x.run], x.frame)
        /\ x.frame \in Nat
    BY <1>1, <1>2, <1>5 DEF Captures
  <2>2. ASSUME NEW r \in 1 .. RunsMax, r = x.run
        PROVE  /\ Len(captured'[r]) = Len(captured[r]) + 1
               /\ \A n \in 1 .. Len(captured[r]) : captured'[r][n] = captured[r][n]
               /\ captured'[r][Len(captured[r]) + 1] = x.frame
    <3>1. captured[r] \in Seq(Nat) /\ captured'[r] = Append(captured[r], x.frame)
      BY <2>1, <2>2, <1>3, RecorderAssumption
    <3> QED BY <3>1, <2>1, AppendProperties
  <2>3. ASSUME NEW r \in 1 .. RunsMax
        PROVE  /\ \A n \in 1 .. Len(captured[r]) :
                    n \in 1 .. Len(captured'[r]) /\ captured'[r][n] = captured[r][n]
               /\ \A n \in 1 .. Len(captured'[r]) :
                    \/ n \in 1 .. Len(captured[r])
                    \/ /\ x.type = "FRAME" /\ r = x.run /\ captured'[r][n] = x.frame
                       /\ n = Len(captured'[r]) /\ n = Len(captured[r]) + 1
               /\ Len(captured'[r]) \in Nat
    <3>1. CASE r = x.run
      <4>1. /\ Len(captured'[r]) = Len(captured[r]) + 1 /\ Len(captured[r]) \in Nat
            /\ \A n \in 1 .. Len(captured[r]) : captured'[r][n] = captured[r][n]
            /\ captured'[r][Len(captured[r]) + 1] = x.frame
        BY <3>1, <2>2, <1>3
      <4> QED BY <4>1, <3>1, <1>5
    <3>2. CASE r # x.run
      BY <3>2, <2>1, <1>3
    <3> QED BY <3>1, <3>2
  <2>4. x.run # 0 => /\ Len(captured'[x.run]) \in 1 .. Len(captured'[x.run])
                     /\ captured'[x.run][Len(captured'[x.run])] = x.frame
    <3>1. ASSUME x.run # 0 PROVE /\ Len(captured'[x.run]) \in 1 .. Len(captured'[x.run])
                                 /\ captured'[x.run][Len(captured'[x.run])] = x.frame
      <4>1. x.run \in 1 .. RunsMax
        BY <3>1, <1>2, RecorderAssumption
      <4>2. /\ Len(captured'[x.run]) = Len(captured[x.run]) + 1 /\ Len(captured[x.run]) \in Nat
            /\ captured'[x.run][Len(captured[x.run]) + 1] = x.frame
        BY <4>1, <2>2, <1>3
      <4> QED BY <4>2
    <3> QED BY <3>1
  <2>5. frames <= frames' /\ frames' = frames + 1 /\ x.frame = frames + 1
    BY <2>1, <1>2
  <2> QED BY <1>2, <1>3, <1>5, <2>3, <2>4, <2>5 DEF PushCaptured
<1> QED BY <1>4, <1>5

\* A signal is queued: a frame has a new number.
LEMMA PushFrames ==
  ASSUME TypeInv, TypeInv', Plugin, OrderPlayers, Frames, NEW x, Pushed(x)
  PROVE  Frames'
<1>1. PushCaptured(x) /\ PushRuns(x) /\ FramesQueued /\ FramesCaptured
  BY PushCapturedIs, PushRunsAre DEF Frames
<1>2. \A k \in 1 .. Len(queue) : queue[k].run \in 0 .. RunsMax
  <2>1. queue \in Seq(SignalOf(scene))
    BY DEF TypeInv, TypeQueue
  <2>2. \A k \in 1 .. Len(queue) : queue[k] \in SignalOf(scene)
    BY <2>1, ElementOfSeq
  <2> QED BY <2>2, SignalFields DEF FieldsOf
<1>3. \A f \in 1 .. frames : f \in 1 .. frames' /\ f < frames + 1 /\ f # frames + 1
  BY <1>1 DEF PushCaptured
<1>4. \A k \in 1 .. Len(queue) : queue[k].run # 0 => queue[k].run \in 1 .. RunsMax
  BY <1>2, RecorderAssumption
<1>5. FramesCaptured'
  <2> SUFFICES ASSUME NEW r \in 1 .. RunsMax, NEW n \in 1 .. Len(captured'[r])
               PROVE  /\ captured'[r][n] \in 1 .. frames'
                      /\ \A m \in 1 .. Len(captured'[r]) :
                           n < m => captured'[r][n] < captured'[r][m]
                      /\ \A q \in 1 .. RunsMax : \A m \in 1 .. Len(captured'[q]) :
                           captured'[r][n] = captured'[q][m] => r = q
    BY DEF FramesCaptured
  <2>1. \A q \in 1 .. RunsMax : \A m \in 1 .. Len(captured[q]) :
          captured[q][m] \in 1 .. frames /\ captured[q][m] # frames + 1
          /\ captured[q][m] < frames + 1
    BY <1>1, <1>3 DEF FramesCaptured
  <2>2. captured'[r][n] \in 1 .. frames'
    <3>1. CASE n \in 1 .. Len(captured[r])
      <4>1. captured'[r][n] = captured[r][n]
        BY <3>1, <1>1 DEF PushCaptured
      <4>2. captured[r][n] \in 1 .. frames
        BY <3>1, <2>1
      <4> QED BY <4>1, <4>2, <1>3
    <3>2. CASE n \notin 1 .. Len(captured[r])
      <4>1. captured'[r][n] = frames + 1 /\ frames' = frames + 1 /\ frames \in Nat
        BY <3>2, <1>1 DEF PushCaptured
      <4> QED BY <4>1
    <3> QED BY <3>1, <3>2
  <2>3. ASSUME NEW m \in 1 .. Len(captured'[r]), n < m
        PROVE  captured'[r][n] < captured'[r][m]
    <3>1. n \in 1 .. Len(captured[r])
      <4>1. Len(captured'[r]) \in Nat /\ Len(captured[r]) \in Nat
        BY <1>1 DEF PushCaptured
      <4>2. n # Len(captured'[r])
        BY <4>1, <2>3
      <4> QED BY <4>2, <1>1 DEF PushCaptured
    <3>2. CASE m \in 1 .. Len(captured[r])
      BY <3>1, <3>2, <2>3, <1>1 DEF PushCaptured, FramesCaptured
    <3>3. CASE m \notin 1 .. Len(captured[r])
      <4>1. captured'[r][m] = frames + 1
        BY <3>3, <1>1 DEF PushCaptured
      <4>2. captured'[r][n] = captured[r][n]
        BY <3>1, <1>1 DEF PushCaptured
      <4> QED BY <4>1, <4>2, <3>1, <2>1
    <3> QED BY <3>2, <3>3
  <2>4. ASSUME NEW q \in 1 .. RunsMax, NEW m \in 1 .. Len(captured'[q]),
               captured'[r][n] = captured'[q][m]
        PROVE  r = q
    <3>1. CASE n \in 1 .. Len(captured[r]) /\ m \in 1 .. Len(captured[q])
      <4>1. captured'[r][n] = captured[r][n] /\ captured'[q][m] = captured[q][m]
        BY <3>1, <1>1 DEF PushCaptured
      <4>2. captured[r][n] = captured[q][m]
        BY <4>1, <2>4
      <4> QED BY <3>1, <4>2, <1>1 DEF FramesCaptured
    <3>2. CASE n \notin 1 .. Len(captured[r]) /\ m \notin 1 .. Len(captured[q])
      BY <3>2, <1>1 DEF PushCaptured
    <3>3. CASE n \notin 1 .. Len(captured[r]) /\ m \in 1 .. Len(captured[q])
      BY <3>3, <2>1, <2>4, <1>1 DEF PushCaptured
    <3>4. CASE n \in 1 .. Len(captured[r]) /\ m \notin 1 .. Len(captured[q])
      BY <3>4, <2>1, <2>4, <1>1 DEF PushCaptured
    <3> QED BY <3>1, <3>2, <3>3, <3>4
  <2> QED BY <2>2, <2>3, <2>4
<1>6. FramesQueued'
  <2> DEFINE N == Len(queue)
  <2> SUFFICES ASSUME NEW j \in 1 .. Len(queue'), queue'[j].type = "FRAME"
               PROVE  /\ queue'[j].frame \in 1 .. frames'
                      /\ \A k \in 1 .. Len(queue') :
                           j < k /\ queue'[k].type = "FRAME" => queue'[j].frame < queue'[k].frame
                      /\ queue'[j].run # 0 =>
                           \E n \in 1 .. Len(captured'[queue'[j].run]) :
                             captured'[queue'[j].run][n] = queue'[j].frame
                      /\ queue'[j].run = 0 =>
                           \A r \in 1 .. RunsMax : \A n \in 1 .. Len(captured'[r]) :
                             captured'[r][n] # queue'[j].frame
    BY DEF FramesQueued
  <2>1. /\ \A k \in 1 .. Len(queue') : k = N + 1 \/ k \in 1 .. N
        /\ \A k \in 1 .. N : queue'[k] = queue[k] /\ k # N + 1
        /\ queue'[N + 1] = x
        /\ N \in Nat /\ Len(queue') = N + 1
    BY <1>1 DEF PushRuns, Pushed, IsPushed
  <2> HIDE DEF N
  <2>2. CASE j = N + 1
    <3>1. queue'[j] = x /\ x.type = "FRAME"
      BY <2>1, <2>2
    <3>2. x.frame = frames + 1 /\ frames' = frames + 1 /\ frames \in Nat /\ x.run \in 0 .. RunsMax
      BY <3>1, <1>1 DEF PushCaptured
    <3>3. x.frame \in 1 .. frames'
      BY <3>2
    <3>4. \A k \in 1 .. Len(queue') : ~(j < k)
      BY <2>1, <2>2
    <3>5. x.run # 0 => \E n \in 1 .. Len(captured'[x.run]) : captured'[x.run][n] = x.frame
      BY <3>1, <1>1 DEF PushCaptured
    <3>6. ASSUME x.run = 0, NEW r \in 1 .. RunsMax, NEW n \in 1 .. Len(captured'[r])
          PROVE  captured'[r][n] # x.frame
      <4>1. r # x.run
        BY <3>6, RecorderAssumption
      <4>2. n \in 1 .. Len(captured[r]) /\ captured'[r][n] = captured[r][n]
        BY <4>1, <1>1 DEF PushCaptured
      <4>3. captured[r][n] \in 1 .. frames
        BY <4>2, <1>1 DEF FramesCaptured
      <4> QED BY <4>2, <4>3, <3>2, <1>3
    <3> QED BY <3>1, <3>3, <3>4, <3>5, <3>6
  <2>3. CASE j \in 1 .. N
    <3>1. /\ queue'[j] = queue[j] /\ queue[j].type = "FRAME"
          /\ queue[j].frame \in 1 .. frames
      BY <2>1, <2>3, <1>1 DEF FramesQueued, N
    <3>2. queue[j].frame \in 1 .. frames'
      BY <3>1, <1>3
    <3>3. ASSUME NEW k \in 1 .. Len(queue'), j < k, queue'[k].type = "FRAME"
          PROVE  queue[j].frame < queue'[k].frame
      <4>1. CASE k \in 1 .. N
        BY <4>1, <3>1, <3>3, <2>1, <2>3, <1>1 DEF FramesQueued, N
      <4>2. CASE k = N + 1
        <5>1. queue'[k].frame = frames + 1
          BY <4>2, <3>3, <2>1, <1>1 DEF PushCaptured
        <5> QED BY <5>1, <3>1, <1>3
      <4> QED BY <4>1, <4>2, <2>1
    <3>4. ASSUME queue[j].run # 0
          PROVE  \E n \in 1 .. Len(captured'[queue[j].run]) :
                   captured'[queue[j].run][n] = queue[j].frame
      <4>1. queue[j].run \in 1 .. RunsMax
        BY <3>4, <2>3, <1>4 DEF N
      <4>2. PICK n \in 1 .. Len(captured[queue[j].run]) :
              captured[queue[j].run][n] = queue[j].frame
        BY <3>1, <3>4, <2>3, <1>1 DEF FramesQueued, N
      <4> QED BY <4>1, <4>2, <1>1 DEF PushCaptured
    <3>5. ASSUME queue[j].run = 0, NEW r \in 1 .. RunsMax, NEW n \in 1 .. Len(captured'[r])
          PROVE  captured'[r][n] # queue[j].frame
      <4>1. CASE n \in 1 .. Len(captured[r])
        <5>1. captured[r][n] # queue[j].frame
          BY <4>1, <3>1, <3>5, <2>3, <1>1 DEF FramesQueued, N
        <5> QED BY <5>1, <4>1, <1>1 DEF PushCaptured
      <4>2. CASE n \notin 1 .. Len(captured[r])
        <5>1. captured'[r][n] = frames + 1
          BY <4>2, <1>1 DEF PushCaptured
        <5> QED BY <5>1, <3>1, <1>3
      <4> QED BY <4>1, <4>2
    <3> QED BY <3>1, <3>2, <3>3, <3>4, <3>5
  <2> QED BY <2>1, <2>2, <2>3
<1> QED BY <1>5, <1>6 DEF Frames

-----------------------------------------------------------------------------
(***************************************************************************)
(* What the files hold: of a run's captured frames cs, those which are not *)
(* in the queue, w, any more.                                              *)
(***************************************************************************)
\* The frames in the queue.
Waiting == {queue[k].frame : k \in {j \in 1 .. Len(queue) : queue[j].type = "FRAME"}}

SeenIn(cs, w, n) == \A k \in 1 .. Len(cs) : k > n <=> cs[k] \in w

ShownOf(cs, n) == [k \in 1 .. n |-> Content(cs[k])]

KeyFirst(cells) == Len(cells) # 0 /\ cells[1] # EVENT => cells[1] = KEYFRAME

Recorded(cells, cs, w, n) ==
  n \in 0 .. Len(cs) /\ SeenIn(cs, w, n) /\ Holds(cells, ShownOf(cs, n)) /\ KeyFirst(cells)

Counted(E, cp, gc) == cp = CountOf(E, "checkpoint") /\ gc = CountOf(E, "gocheck")

\* The runs whose files, open or not, are as they should be; n frames of r are
\* in inode i.
OpenAs(r, i, n) ==
  \A s \in Slots : fd[s].inode = i =>
    /\ Counted(EventsOf(file[i].cells), cps[s], gcs[s])
    /\ ~keyNext[s] => n > 0 /\ last[s] = captured[r][n]

ClosedAs(i) ==
  (\A s \in Slots : fd[s].inode # i) =>
    Counted(EventsOf(file[i].cells), file[i].cp, file[i].gc)

Kept ==
  {r \in 1 .. RunsMax :
     \E n \in Nat : /\ Recorded(file[tmp[runner[r]]].cells, captured[r], Waiting, n)
                    /\ OpenAs(r, tmp[runner[r]], n) /\ ClosedAs(tmp[runner[r]])}

\* The runs of which no frame has left the queue.
Unseen == {r \in 1 .. RunsMax : SeenIn(captured[r], Waiting, 0)}

SavedWell ==
  \A y \in saved :
    /\ Holds(file[y.inode].cells, ShownOf(captured[y.run], Len(captured[y.run])))
    /\ KeyFirst(file[y.inode].cells)
    /\ file[y.inode].cp = y.cp /\ file[y.inode].gc = y.gc
    /\ Counted(EventsOf(file[y.inode].cells), y.cp, y.gc)

Contents == Started \subseteq Unseen /\ Mentioned \cap Filed \subseteq Kept /\ SavedWell

-----------------------------------------------------------------------------
\* One frame more is shown.
LEMMA ShownMore ==
  ASSUME NEW cs, NEW n \in Nat
  PROVE  ShownOf(cs, n + 1) = Append(ShownOf(cs, n), Content(cs[n + 1]))
<1> DEFINE F == ShownOf(cs, n)
           G == Append(F, Content(cs[n + 1]))
           H == ShownOf(cs, n + 1)
<1>1. \A k \in 1 .. n + 1 : Content(cs[k]) \in [Columns -> Cell]
  BY ContentTyped
<1>2. F \in Seq([Columns -> Cell]) /\ Len(F) = n /\ \A k \in 1 .. n : F[k] = Content(cs[k])
  BY <1>1 DEF ShownOf
<1>3. H \in Seq([Columns -> Cell]) /\ Len(H) = n + 1
      /\ \A k \in 1 .. n + 1 : H[k] = Content(cs[k])
  BY <1>1 DEF ShownOf
<1>4. n + 1 \in 1 .. n + 1
  OBVIOUS
<1>5. Content(cs[n + 1]) \in [Columns -> Cell]
  BY <1>1, <1>4
<1>6. /\ G \in Seq([Columns -> Cell]) /\ Len(G) = n + 1
      /\ \A k \in 1 .. n : G[k] = F[k]
      /\ G[n + 1] = Content(cs[n + 1])
  <2> HIDE DEF F
  <2> QED BY <1>2, <1>5, AppendProperties
<1> HIDE DEF F, G, H
<1>7. \A k \in 1 .. n + 1 : G[k] = H[k]
  BY <1>2, <1>3, <1>6
<1>8. G = H
  BY <1>3, <1>6, <1>7, SeqEqual
<1> QED BY <1>8 DEF F, G, H

\* Nothing and the last frame shown.
LEMMA ShownLast ==
  ASSUME NEW cs
  PROVE  /\ ShownOf(cs, 0) = <<>>
         /\ \A n \in Nat : n > 0 => LastOf(ShownOf(cs, n)) = Content(cs[n])
         /\ \A n \in Nat : Len(ShownOf(cs, n)) = n
<1>1. ShownOf(cs, 0) = <<>>
  BY DEF ShownOf
<1>2. ASSUME NEW n \in Nat
      PROVE  Len(ShownOf(cs, n)) = n /\ \A k \in 1 .. n : ShownOf(cs, n)[k] = Content(cs[k])
  BY DEF ShownOf
<1>3. ASSUME NEW n \in Nat, n > 0 PROVE LastOf(ShownOf(cs, n)) = Content(cs[n])
  <2> DEFINE F == ShownOf(cs, n)
  <2>1. Len(F) = n /\ F[n] = Content(cs[n])
    BY <1>2, <1>3
  <2> HIDE DEF F
  <2>2. LastOf(F) = F[(n + 1) - 1] /\ (n + 1) - 1 = n
    BY <2>1, <1>3 DEF LastOf, Prev
  <2> QED BY <2>1, <2>2 DEF F
<1> QED BY <1>1, <1>2, <1>3

\* An empty file holds no frames; a file's events are a sequence.
LEMMA HoldsFacts ==
  ASSUME NEW cells, NEW F, Holds(cells, F)
  PROVE  /\ cells = <<>> => Len(F) = 0
         /\ EventsOf(cells) \in Seq(Cell)
<1> DEFINE recs == Split(cells).records
<1>1. Describes(recs, F) /\ (cells = <<>> <=> recs.types = <<>>)
  BY DEF Holds
<1> HIDE DEF recs
<1>2. /\ recs.events \in Seq(Cell) /\ F \in Seq([Columns -> Cell])
      /\ Len(recs.types) = Len(F) + Len(recs.events)
  BY <1>1 DEF Describes, Records
<1>3. recs.types = <<>> => Len(recs.types) = 0
  OBVIOUS
<1>4. Len(F) \in Nat /\ Len(recs.events) \in Nat
  BY <1>2, LenProperties
<1> QED BY <1>1, <1>2, <1>3, <1>4 DEF recs, EventsOf

\* One event more is counted.
LEMMA CountMore ==
  ASSUME NEW E \in Seq(Cell), NEW ev \in {"checkpoint", "gocheck"}, NEW any \in {"checkpoint", "gocheck"}
  PROVE  /\ CountOf(E, any) \in Nat
         /\ CountOf(Append(E, EventId(ev)), any) =
              IF ev = any THEN CountOf(E, any) + 1 ELSE CountOf(E, any)
<1> DEFINE N == Len(E)
           G == Append(E, EventId(ev))
           S == {k \in 1 .. N : E[k] = EventId(any)}
           T == {k \in 1 .. N + 1 : G[k] = EventId(any)}
<1>1. N \in Nat /\ DOMAIN E = 1 .. N
  BY LenProperties
<1>2. EventId(ev) \in Cell
  BY EventIdTyped
<1>3. G \in Seq(Cell) /\ Len(G) = N + 1 /\ DOMAIN G = 1 .. N + 1
      /\ G[N + 1] = EventId(ev) /\ \A k \in 1 .. N : G[k] = E[k]
  BY <1>2, AppendProperties, LenProperties
<1>4. CountOf(E, any) = Cardinality(S) /\ CountOf(G, any) = Cardinality(T)
  BY <1>1, <1>3 DEF CountOf
<1>5. IsFiniteSet(S) /\ Cardinality(S) \in Nat
  <2>1. IsFiniteSet(1 .. N)
    BY <1>1, FS_Interval
  <2> QED BY <2>1, FS_Subset, FS_CardinalityType
<1>6. {} # {0}
  OBVIOUS
<1>7. EventId(ev) = EventId(any) <=> ev = any
  BY <1>6 DEF EventId
<1> HIDE DEF G, N
<1>8. CASE ev = any
  <2>1. T = S \cup {N + 1}
    BY <1>1, <1>3, <1>7, <1>8
  <2>2. N + 1 \notin S
    BY <1>1
  <2>3. Cardinality(T) = Cardinality(S) + 1
    BY <2>1, <2>2, <1>5, FS_AddElement
  <2> QED BY <2>3, <1>4, <1>5, <1>8 DEF G
<1>9. CASE ev # any
  <2>1. T = S
    BY <1>1, <1>3, <1>7, <1>9
  <2> QED BY <2>1, <1>4, <1>5, <1>9 DEF G
<1> QED BY <1>8, <1>9

\* No events.
LEMMA CountNone ==
  Counted(<<>>, 0, 0)
<1>1. \A ev : {k \in DOMAIN <<>> : <<>>[k] = EventId(ev)} = {}
  OBVIOUS
<1>2. \A ev : CountOf(<<>>, ev) = 0
  BY <1>1, FS_EmptySet DEF CountOf
<1> QED BY <1>2 DEF Counted

-----------------------------------------------------------------------------
\* A frame that is waiting is a signal's.
LEMMA WaitingIs ==
  \A f : f \in Waiting <=> \E k \in 1 .. Len(queue) : queue[k].type = "FRAME" /\ queue[k].frame = f
BY DEF Waiting

\* A signal that is queued leaves what has been seen; a new frame has not been.
LEMMA PushSeen ==
  ASSUME TypeInv, Plugin, TypeInv', Order, Frames, NEW x, Pushed(x),
         NEW r \in 1 .. RunsMax, NEW n \in 0 .. Len(captured[r]),
         SeenIn(captured[r], Waiting, n)
  PROVE  /\ n \in 0 .. Len(captured'[r]) /\ SeenIn(captured'[r], Waiting', n)
         /\ ShownOf(captured'[r], n) = ShownOf(captured[r], n)
         /\ \A k \in 1 .. n : captured'[r][k] = captured[r][k]
<1>1. PushCaptured(x) /\ PushRuns(x) /\ FramesCaptured
  BY PushCapturedIs, PushRunsAre DEF Frames, Order
<1>2. /\ Len(captured[r]) \in Nat /\ Len(captured'[r]) \in Nat
      /\ \A k \in 1 .. Len(captured[r]) :
           k \in 1 .. Len(captured'[r]) /\ captured'[r][k] = captured[r][k]
  BY <1>1 DEF PushCaptured
<1>3. Len(captured[r]) <= Len(captured'[r])
  <2>1. Len(captured[r]) = 0 \/ Len(captured[r]) \in 1 .. Len(captured[r])
    BY <1>2
  <2>2. Len(captured[r]) = 0 \/ Len(captured[r]) \in 1 .. Len(captured'[r])
    BY <2>1, <1>2
  <2> QED BY <2>2, <1>2
<1>4. n \in 0 .. Len(captured'[r]) /\ \A k \in 1 .. n : k \in 1 .. Len(captured[r])
  BY <1>2, <1>3
<1>5. \A k \in 1 .. n : captured'[r][k] = captured[r][k]
  BY <1>2, <1>4
<1>6. ShownOf(captured'[r], n) = ShownOf(captured[r], n)
  BY <1>5 DEF ShownOf
<1>7. /\ \A k \in 1 .. Len(queue') : k = Len(queue) + 1 \/ k \in 1 .. Len(queue)
      /\ \A k \in 1 .. Len(queue) : k \in 1 .. Len(queue') /\ queue'[k] = queue[k]
      /\ Len(queue) + 1 \in 1 .. Len(queue') /\ queue'[Len(queue) + 1] = x
  BY <1>1 DEF PushRuns
<1>8. ASSUME NEW k \in 1 .. Len(captured[r])
      PROVE  captured[r][k] \in Waiting' <=> captured[r][k] \in Waiting
  <2>1. captured[r][k] \in 1 .. frames
    BY <1>1 DEF FramesCaptured
  <2>2. x.type = "FRAME" => x.frame # captured[r][k]
    <3>1. frames \in Nat /\ (x.type = "FRAME" => x.frame = frames + 1)
      BY <1>1 DEF PushCaptured
    <3> QED BY <2>1, <3>1
  <2>3. captured[r][k] \in Waiting <=>
          \E j \in 1 .. Len(queue) : queue[j].type = "FRAME" /\ queue[j].frame = captured[r][k]
    BY WaitingIs
  <2>4. captured[r][k] \in Waiting' <=>
          \E j \in 1 .. Len(queue') : queue'[j].type = "FRAME" /\ queue'[j].frame = captured[r][k]
    BY DEF Waiting
  <2> QED BY <2>2, <2>3, <2>4, <1>7
<1>9. ASSUME NEW k \in 1 .. Len(captured'[r])
      PROVE  k > n <=> captured'[r][k] \in Waiting'
  <2>1. CASE k \in 1 .. Len(captured[r])
    BY <2>1, <1>2, <1>8 DEF SeenIn
  <2>2. CASE k \notin 1 .. Len(captured[r])
    <3>1. x.type = "FRAME" /\ captured'[r][k] = x.frame /\ k = Len(captured[r]) + 1
      BY <2>2, <1>1 DEF PushCaptured
    <3>2. k > n
      BY <3>1, <1>2
    <3>3. x.frame \in Waiting'
      BY <3>1, <1>7 DEF Waiting
    <3> QED BY <3>1, <3>2, <3>3
  <2> QED BY <2>1, <2>2
<1> QED BY <1>4, <1>5, <1>6, <1>9 DEF SeenIn

\* The signal that leaves the queue is no frame.
LEMMA PopOtherSeen ==
  ASSUME TypeInv, NEW x, Popped(x), x.type # "FRAME"
  PROVE  Waiting' = Waiting
<1>1. PopRest(x)
  BY PopRestIs
<1>2. ASSUME NEW f \in Waiting PROVE f \in Waiting'
  <2>1. PICK k \in 1 .. Len(queue) : queue[k].type = "FRAME" /\ queue[k].frame = f
    BY WaitingIs
  <2>2. k # 1
    BY <2>1, <1>1 DEF PopRest
  <2>3. k - 1 \in 1 .. Len(queue') /\ queue'[k - 1] = queue[k]
    BY <2>2, <1>1 DEF PopRest
  <2> QED BY <2>1, <2>3 DEF Waiting
<1>3. ASSUME NEW f \in Waiting' PROVE f \in Waiting
  <2>1. PICK k \in 1 .. Len(queue') : queue'[k].type = "FRAME" /\ queue'[k].frame = f
    BY DEF Waiting
  <2>2. k + 1 \in 1 .. Len(queue) /\ queue'[k] = queue[k + 1]
    BY <1>1 DEF PopRest
  <2> QED BY <2>1, <2>2, WaitingIs
<1> QED BY <1>2, <1>3

\* It is a frame: it is not waiting any more, and the others still are.
LEMMA PopFrameSeen ==
  ASSUME TypeInv, Frames, NEW x, Popped(x), x.type = "FRAME"
  PROVE  /\ x.frame \in Waiting /\ x.frame \in Nat
         /\ \A f : f \in Waiting' <=> f \in Waiting /\ f # x.frame
         /\ \A f \in Waiting : f \in Nat /\ x.frame <= f
<1>1. PopRest(x) /\ FramesQueued /\ frames \in Nat
  BY PopRestIs, RecorderAssumption DEF Frames, TypeInv, TypeHistory
<1>2. /\ 1 \in 1 .. Len(queue) /\ queue[1] = x /\ x.frame \in 1 .. frames
      /\ \A k \in 1 .. Len(queue) : queue[k].type = "FRAME" =>
           queue[k].frame \in 1 .. frames /\ (1 < k => x.frame < queue[k].frame)
  <2>1. 1 \in 1 .. Len(queue) /\ queue[1] = x
    BY <1>1 DEF PopRest
  <2>2. x.frame \in 1 .. frames
    BY <2>1, <1>1 DEF FramesQueued
  <2>3. ASSUME NEW k \in 1 .. Len(queue), queue[k].type = "FRAME"
        PROVE  queue[k].frame \in 1 .. frames /\ (1 < k => x.frame < queue[k].frame)
    BY <2>1, <2>3, <1>1 DEF FramesQueued
  <2> QED BY <2>1, <2>2, <2>3
<1>3. x.frame \in Waiting
  BY <1>2, WaitingIs
<1>4. ASSUME NEW f \in Waiting PROVE f \in Nat /\ x.frame <= f
  <2>1. PICK k \in 1 .. Len(queue) : queue[k].type = "FRAME" /\ queue[k].frame = f
    BY WaitingIs
  <2>2. k = 1 \/ 1 < k
    OBVIOUS
  <2> QED BY <2>1, <2>2, <1>2
<1>5. ASSUME NEW f \in Waiting, f # x.frame PROVE f \in Waiting'
  <2>1. PICK k \in 1 .. Len(queue) : queue[k].type = "FRAME" /\ queue[k].frame = f
    BY WaitingIs
  <2>2. k # 1
    BY <2>1, <1>2, <1>5
  <2>3. k - 1 \in 1 .. Len(queue') /\ queue'[k - 1] = queue[k]
    BY <2>2, <1>1 DEF PopRest
  <2> QED BY <2>1, <2>3 DEF Waiting
<1>6. ASSUME NEW f \in Waiting' PROVE f \in Waiting /\ f # x.frame
  <2>1. PICK k \in 1 .. Len(queue') : queue'[k].type = "FRAME" /\ queue'[k].frame = f
    BY DEF Waiting
  <2>2. k + 1 \in 1 .. Len(queue) /\ queue'[k] = queue[k + 1] /\ 1 < k + 1
    BY <1>1 DEF PopRest
  <2>3. x.frame < f /\ f \in 1 .. frames
    BY <2>1, <2>2, <1>2
  <2>4. f # x.frame
    BY <2>3, <1>2
  <2> QED BY <2>1, <2>2, <2>4, WaitingIs
<1>7. x.frame \in Nat
  BY <1>2
<1> QED BY <1>3, <1>4, <1>5, <1>6, <1>7

\* The runs it is not of have been seen as far as before; of its own run, it is
\* the next frame.
LEMMA PopSeen ==
  ASSUME TypeInv, Frames, NEW x, Popped(x), NEW r \in 1 .. RunsMax, NEW n \in Nat,
         SeenIn(captured[r], Waiting, n), n \in 0 .. Len(captured[r])
  PROVE  /\ x.type # "FRAME" \/ r # x.run => SeenIn(captured[r], Waiting', n)
         /\ x.type = "FRAME" /\ r = x.run =>
              /\ n + 1 \in 0 .. Len(captured[r]) /\ n + 1 \in 1 .. Len(captured[r])
              /\ captured[r][n + 1] = x.frame
              /\ SeenIn(captured[r], Waiting', n + 1)
<1>1. PopRest(x) /\ FramesQueued /\ FramesCaptured /\ r # 0
  BY PopRestIs, RecorderAssumption DEF Frames
<1>2. queue[1] = x /\ 1 \in 1 .. Len(queue) /\ x.run \in 0 .. RunsMax
  BY <1>1 DEF PopRest, Popped, FieldsOf
<1>3. CASE x.type # "FRAME"
  BY <1>3, PopOtherSeen
<1>4. CASE x.type = "FRAME" /\ r # x.run
  <2>1. ASSUME NEW k \in 1 .. Len(captured[r]) PROVE captured[r][k] # x.frame
    <3>1. CASE x.run = 0
      BY <3>1, <1>1, <1>2, <1>4 DEF FramesQueued
    <3>2. CASE x.run # 0
      <4>1. x.run \in 1 .. RunsMax
        BY <3>2, <1>2, RecorderAssumption
      <4>2. PICK m \in 1 .. Len(captured[x.run]) : captured[x.run][m] = x.frame
        BY <3>2, <1>1, <1>2, <1>4 DEF FramesQueued
      <4> QED BY <4>1, <4>2, <1>1, <1>4 DEF FramesCaptured
    <3> QED BY <3>1, <3>2
  <2>2. \A f : f \in Waiting' <=> f \in Waiting /\ f # x.frame
    BY <1>4, PopFrameSeen
  <2> QED BY <2>1, <2>2, <1>4 DEF SeenIn
<1>5. CASE x.type = "FRAME" /\ r = x.run
  <2>1. PICK m \in 1 .. Len(captured[r]) : captured[r][m] = x.frame
    BY <1>1, <1>2, <1>5 DEF FramesQueued
  <2>2. /\ x.frame \in Waiting /\ x.frame \in Nat
        /\ \A f : f \in Waiting' <=> f \in Waiting /\ f # x.frame
        /\ \A f \in Waiting : f \in Nat /\ x.frame <= f
    BY <1>5, PopFrameSeen
  <2>3. m > n
    BY <2>1, <2>2 DEF SeenIn
  <2>4. n + 1 \in 1 .. Len(captured[r]) /\ n + 1 \in 0 .. Len(captured[r]) /\ n + 1 > n
    BY <2>3
  <2>5. captured[r][n + 1] \in Waiting
    BY <2>4 DEF SeenIn
  <2>6. x.frame <= captured[r][n + 1] /\ captured[r][n + 1] \in Nat
    BY <2>2, <2>5
  <2>7. ~(n + 1 < m)
    <3>1. n + 1 < m => captured[r][n + 1] < captured[r][m]
      BY <2>4, <1>1 DEF FramesCaptured
    <3> QED BY <3>1, <2>1, <2>2, <2>6
  <2>8. m = n + 1
    BY <2>3, <2>7
  <2>9. ASSUME NEW k \in 1 .. Len(captured[r]) PROVE k > n + 1 <=> captured[r][k] \in Waiting'
    <3>1. CASE k > n + 1
      <4>1. captured[r][n + 1] < captured[r][k]
        BY <3>1, <2>4, <1>1 DEF FramesCaptured
      <4>2. captured[r][k] # x.frame
        BY <4>1, <2>1, <2>2, <2>8
      <4>3. k > n
        BY <3>1
      <4> QED BY <3>1, <4>2, <4>3, <2>2 DEF SeenIn
    <3>2. CASE k = n + 1
      BY <3>2, <2>1, <2>2, <2>8
    <3>3. CASE ~(k > n)
      <4>1. ~(k > n + 1)
        BY <3>3
      <4> QED BY <3>3, <4>1, <2>2 DEF SeenIn
    <3> QED BY <3>1, <3>2, <3>3
  <2> QED BY <2>1, <2>4, <2>8, <2>9, <1>5 DEF SeenIn
<1> QED BY <1>3, <1>4, <1>5

-----------------------------------------------------------------------------
\* What a file keeps of its run when nothing is written to it.
LEMMA KeptStays ==
  ASSUME NEW r \in 1 .. RunsMax, NEW n \in Nat, runner'[r] = runner[r],
         n \in 0 .. Len(captured'[r]), SeenIn(captured'[r], Waiting', n),
         ShownOf(captured'[r], n) = ShownOf(captured[r], n),
         \A k \in 1 .. n : captured'[r][k] = captured[r][k],
         Recorded(file[tmp[runner[r]]].cells, captured[r], Waiting, n),
         OpenAs(r, tmp[runner[r]], n), ClosedAs(tmp[runner[r]]),
         tmp'[runner[r]] = tmp[runner[r]],
         file'[tmp[runner[r]]] = file[tmp[runner[r]]],
         \A s \in Slots :
           \/ fd[s].inode # tmp[runner[r]] /\ fd'[s].inode # tmp[runner[r]]
           \/ fd'[s] = fd[s] /\ cps'[s] = cps[s] /\ gcs'[s] = gcs[s]
              /\ keyNext'[s] = keyNext[s] /\ last'[s] = last[s]
  PROVE  r \in Kept'
<1> DEFINE i == tmp[runner[r]]
<1>1. Recorded(file'[i].cells, captured'[r], Waiting', n)
  BY DEF Recorded
<1>2. \A s \in Slots : fd'[s].inode = i =>
        /\ Counted(EventsOf(file'[i].cells), cps'[s], gcs'[s])
        /\ ~keyNext'[s] => n > 0 /\ last'[s] = captured'[r][n]
  <2> SUFFICES ASSUME NEW s \in Slots, fd'[s].inode = i
               PROVE  /\ Counted(EventsOf(file'[i].cells), cps'[s], gcs'[s])
                      /\ ~keyNext'[s] => n > 0 /\ last'[s] = captured'[r][n]
    OBVIOUS
  <2>1. fd'[s] = fd[s] /\ cps'[s] = cps[s] /\ gcs'[s] = gcs[s]
        /\ keyNext'[s] = keyNext[s] /\ last'[s] = last[s] /\ fd[s].inode = i
    OBVIOUS
  <2>2. /\ Counted(EventsOf(file[i].cells), cps[s], gcs[s])
        /\ ~keyNext[s] => n > 0 /\ last[s] = captured[r][n]
    BY <2>1 DEF OpenAs
  <2>3. n > 0 => n \in 1 .. n
    OBVIOUS
  <2> QED BY <2>1, <2>2, <2>3
<1>3. (\A s \in Slots : fd'[s].inode # i) =>
        Counted(EventsOf(file'[i].cells), file'[i].cp, file'[i].gc)
  <2>1. (\A s \in Slots : fd'[s].inode # i) => \A s \in Slots : fd[s].inode # i
    OBVIOUS
  <2> QED BY <2>1 DEF ClosedAs
<1>4. tmp'[runner'[r]] = i
  OBVIOUS
<1> HIDE DEF i
<1>5. PICK j : j = tmp'[runner'[r]]
  OBVIOUS
<1>6. Recorded(file'[j].cells, captured'[r], Waiting', n)
  BY <1>1, <1>4, <1>5
<1>7. \A s \in Slots : fd'[s].inode = j =>
        /\ Counted(EventsOf(file'[j].cells), cps'[s], gcs'[s])
        /\ ~keyNext'[s] => n > 0 /\ last'[s] = captured'[r][n]
  BY <1>2, <1>4, <1>5
<1>8. (\A s \in Slots : fd'[s].inode # j) =>
        Counted(EventsOf(file'[j].cells), file'[j].cp, file'[j].gc)
  BY <1>3, <1>4, <1>5
<1> QED BY <1>5, <1>6, <1>7, <1>8 DEF Kept, OpenAs, ClosedAs

\* A step that signals nothing.
LEMMA QuietContents ==
  ASSUME TypeInv, Contents, Quiet
  PROVE  Contents'
<1>1. /\ queue' = queue /\ fd' = fd /\ file' = file /\ tmp' = tmp /\ cps' = cps /\ gcs' = gcs
      /\ keyNext' = keyNext /\ last' = last
      /\ saved' = saved /\ runner' = runner /\ captured' = captured /\ Alive' \subseteq Alive
  BY DEF Quiet, writer
<1>2. Started' = Started /\ Filed' = Filed /\ Mentioned' \subseteq Mentioned /\ Waiting' = Waiting
  BY <1>1 DEF Started, Filed, Mentioned, Waiting
<1>3. Unseen' = Unseen
  BY <1>1, <1>2 DEF Unseen
<1>4. Kept' = Kept
  <2>1. ASSUME NEW r, NEW i, NEW n PROVE OpenAs(r, i, n)' <=> OpenAs(r, i, n)
    BY <1>1 DEF OpenAs
  <2>2. ASSUME NEW i PROVE ClosedAs(i)' <=> ClosedAs(i)
    BY <1>1 DEF ClosedAs
  <2>3. ASSUME NEW r \in Kept PROVE r \in Kept'
    <3>1. PICK n \in Nat : /\ Recorded(file[tmp[runner[r]]].cells, captured[r], Waiting, n)
                           /\ OpenAs(r, tmp[runner[r]], n) /\ ClosedAs(tmp[runner[r]])
      BY DEF Kept
    <3>2. n \in 0 .. Len(captured[r]) /\ SeenIn(captured[r], Waiting, n) /\ r \in 1 .. RunsMax
      BY <3>1 DEF Recorded, Kept
    <3> QED BY <3>1, <3>2, <1>1, <1>2, KeptStays
  <2>4. ASSUME NEW r \in Kept' PROVE r \in Kept
    BY <1>1, <1>2 DEF Kept, OpenAs, ClosedAs
  <2> QED BY <2>3, <2>4
<1>5. SavedWell'
  BY <1>1 DEF Contents, SavedWell
<1> QED BY <1>2, <1>3, <1>4, <1>5 DEF Contents

\* A signal is queued.
LEMMA PushContents ==
  ASSUME TypeInv, Plugin, TypeInv', Plugin', Order, Cover, Files, Frames, Contents,
         NEW x, Pushed(x)
  PROVE  Contents'
<1>1. /\ PushCaptured(x) /\ PushStays /\ PushRuns(x) /\ OrderPlayers /\ FilesTmp /\ FilesSaved
  BY PushCapturedIs, PushRunsAre DEF Order, Files
<1>2. /\ fd' = fd /\ file' = file /\ tmp' = tmp /\ cps' = cps /\ gcs' = gcs
      /\ keyNext' = keyNext /\ last' = last /\ saved' = saved
      /\ runs \in Nat
      /\ \A r \in 1 .. runs : runner'[r] = runner[r]
  BY <1>1 DEF PushStays, PushRuns
<1>3. /\ \A r \in Mentioned' : r \in Mentioned \/ (x.type = "START" /\ r = x.run)
      /\ x.type = "START" => x.run = runs + 1
      /\ \A r \in Filed' : r \in 1 .. runs => r \in Filed
      /\ \A r \in Mentioned : r \in 1 .. runs
  BY <1>1, PushMentions, MentionedKnown
<1>4. Started' \subseteq Unseen'
  <2> SUFFICES ASSUME NEW r \in Started' PROVE r \in Unseen'
    OBVIOUS
  <2>1. PICK k \in 1 .. Len(queue') : queue'[k].type = "START" /\ queue'[k].run = r
    BY DEF Started
  <2>2. r \in 1 .. RunsMax
    BY DEF Started
  <2>3. CASE k \in 1 .. Len(queue)
    <3>1. r \in Started
      BY <2>1, <2>2, <2>3, <1>1 DEF Started, PushRuns
    <3>2. SeenIn(captured[r], Waiting, 0)
      BY <3>1 DEF Contents, Unseen
    <3>3. 0 \in 0 .. Len(captured[r])
      BY <2>2, <1>1 DEF PushCaptured
    <3>4. SeenIn(captured'[r], Waiting', 0)
      BY <2>2, <3>2, <3>3, PushSeen
    <3> QED BY <2>2, <3>4 DEF Unseen
  <2>4. CASE k \notin 1 .. Len(queue)
    <3>1. x.type = "START" /\ x.run = r /\ r = runs + 1
      BY <2>1, <2>4, <1>1, <1>3 DEF PushRuns
    <3>2. captured'[r] = captured[r]
      BY <3>1, <1>1 DEF PushCaptured
    <3>3. captured[r] = <<>>
      <4>1. runs < r
        BY <3>1, <1>2
      <4> QED BY <4>1, <2>2 DEF Plugin, RunsKnown
    <3>4. \A j \in 1 .. Len(captured'[r]) : FALSE
      BY <3>2, <3>3
    <3> QED BY <2>2, <3>4 DEF Unseen, SeenIn
  <2> QED BY <2>3, <2>4
<1>5. Mentioned' \cap Filed' \subseteq Kept'
  <2> SUFFICES ASSUME NEW r \in Mentioned', r \in Filed' PROVE r \in Kept'
    OBVIOUS
  <2>1. r \in Mentioned
    <3>1. ASSUME x.type = "START", r = x.run PROVE FALSE
      <4>1. r = runs + 1
        BY <3>1, <1>3
      <4>2. runner'[r] \in Players /\ tmp[runner'[r]] # 0 /\ file[tmp[runner'[r]]].run = r
        BY <1>2 DEF Filed
      <4>3. r \in 1 .. runs
        BY <4>2, <1>1 DEF FilesTmp
      <4> QED BY <4>1, <4>3, <1>2
    <3> QED BY <3>1, <1>3
  <2>2. r \in 1 .. runs /\ r \in Filed /\ r \in 1 .. RunsMax /\ runner'[r] = runner[r]
    <3>1. r \in 1 .. runs /\ r \in 1 .. RunsMax
      BY <2>1, <1>3 DEF Mentioned
    <3> QED BY <3>1, <1>2, <1>3
  <2>3. PICK n \in Nat : /\ Recorded(file[tmp[runner[r]]].cells, captured[r], Waiting, n)
                         /\ OpenAs(r, tmp[runner[r]], n) /\ ClosedAs(tmp[runner[r]])
    BY <2>1, <2>2 DEF Contents, Kept
  <2>4. n \in 0 .. Len(captured[r]) /\ SeenIn(captured[r], Waiting, n)
    BY <2>3 DEF Recorded
  <2>5. /\ n \in 0 .. Len(captured'[r]) /\ SeenIn(captured'[r], Waiting', n)
        /\ ShownOf(captured'[r], n) = ShownOf(captured[r], n)
        /\ \A k \in 1 .. n : captured'[r][k] = captured[r][k]
    BY <2>2, <2>4, PushSeen
  <2> QED BY <2>2, <2>3, <2>5, <1>2, KeptStays
<1>6. SavedWell'
  <2>1. ASSUME NEW y \in saved PROVE captured'[y.run] = captured[y.run]
    <3>1. y.run \in 1 .. RunsMax /\ y.run \notin Mentioned
      BY <1>1 DEF FilesSaved, TypeInv, TypeFiles
    <3>2. CASE x.type # "FRAME"
      BY <3>2, <1>1 DEF PushCaptured
    <3>3. CASE x.type = "FRAME"
      <4>1. Continues(x) /\ Captures(x)
        BY <3>3 DEF Pushed
      <4>2. y.run # x.run
        <5>1. x.run # 0 => x.run \in Alive
          BY <4>1 DEF Continues
        <5>2. x.run # 0 => x.run \in Mentioned
          BY <5>1 DEF Alive, Mentioned
        <5>3. y.run # 0
          BY <3>1, RecorderAssumption
        <5> QED BY <3>1, <5>2, <5>3
      <4> QED BY <3>1, <3>3, <4>1, <4>2 DEF Captures
    <3> QED BY <3>2, <3>3
  <2> QED BY <2>1, <1>2 DEF Contents, SavedWell
<1> QED BY <1>4, <1>5, <1>6 DEF Contents

-----------------------------------------------------------------------------
\* A signal changes what is its slot's or its run's.
Local(x) ==
  /\ Only(fd, fd', Slots, x.slot) /\ Only(cps, cps', Slots, x.slot)
  /\ Only(gcs, gcs', Slots, x.slot) /\ Only(keyNext, keyNext', Slots, x.slot)
  /\ Only(last, last', Slots, x.slot)
  /\ \A i \in 1 .. RunsMax : file'[i] = file[i] \/ file'[i].run = x.run
  /\ \A p \in Players : \/ tmp'[p] = tmp[p] \/ tmp'[p] = 0
                        \/ file'[tmp'[p]].run = x.run

\* The other runs' files stay as they are.
LEMMA PopOther ==
  ASSUME TypeInv, TypeInv', Plugin, Chain, Order, Files, Frames, Contents, NEW x, Popped(x),
         Dealt(x), Local(x), NEW r \in Mentioned', r \in Filed', r # x.run
  PROVE  r \in Kept'
<1>1. /\ PopRest(x) /\ Mentioned' \subseteq Mentioned /\ FilesTmp /\ FilesOpen
      /\ captured' = captured /\ x.slot \in Slots /\ r \in 1 .. RunsMax /\ r # 0
      /\ runner' = runner /\ Opens(x) /\ Opened[x.slot] = Before(x)
  <2>1. PopRest(x) /\ FilesTmp /\ FilesOpen /\ captured' = captured /\ r \in 1 .. RunsMax
        /\ Opens(x)
    BY PopRestIs DEF Files, Popped, GameStays, Mentioned, Dealt
  <2> QED BY <2>1, PopMentions, PopFront, RecorderAssumption DEF PopRest
<1> DEFINE i == tmp[runner[r]]
<1>2. runner[r] \in Players /\ tmp'[runner[r]] # 0 /\ file'[tmp'[runner[r]]].run = r
  BY <1>1 DEF Filed
<1>3. tmp'[runner[r]] = i /\ i # 0
  BY <1>2 DEF Local
<1>4. i \in 1 .. RunsMax
  <2>1. i \in 0 .. RunsMax
    BY <1>2 DEF TypeInv, TypeFiles
  <2> QED BY <2>1, <1>3, RecorderAssumption
<1>5. file'[i] = file[i] /\ file[i].run = r
  BY <1>2, <1>3, <1>4 DEF Local
<1>6. r \in Filed
  BY <1>1, <1>2, <1>3, <1>5 DEF Filed
<1>7. PICK n \in Nat : /\ Recorded(file[i].cells, captured[r], Waiting, n)
                       /\ OpenAs(r, i, n) /\ ClosedAs(i)
  BY <1>1, <1>6 DEF Contents, Kept
<1>8. n \in 0 .. Len(captured[r]) /\ SeenIn(captured[r], Waiting, n)
  BY <1>7 DEF Recorded
<1>9. SeenIn(captured[r], Waiting', n)
  BY <1>1, <1>8, PopSeen
<1>10. fd[x.slot].inode # i
  <2>1. fd[x.slot].inode = i => Opened[x.slot] = r
    BY <1>1, <1>3, <1>5 DEF Opened
  <2> QED BY <2>1, <1>1 DEF Before
<1>11. fd'[x.slot].inode # i
  <2>1. fd'[x.slot].inode = i => Opened'[x.slot] = r
    BY <1>1, <1>3, <1>5 DEF Opened
  <2>2. Opened'[x.slot] = After(x)
    BY <1>1 DEF Opens
  <2> QED BY <2>1, <2>2, <1>1 DEF After
<1>12. \A s \in Slots :
         \/ fd[s].inode # i /\ fd'[s].inode # i
         \/ fd'[s] = fd[s] /\ cps'[s] = cps[s] /\ gcs'[s] = gcs[s]
            /\ keyNext'[s] = keyNext[s] /\ last'[s] = last[s]
  BY <1>10, <1>11 DEF Local, Only
<1> QED BY <1>1, <1>3, <1>5, <1>7, <1>8, <1>9, <1>12, KeptStays

\* A replay stays as it is.
LEMMA PopSaved ==
  ASSUME TypeInv, TypeInv', Plugin, Order, Files, NEW x, Popped(x), Dealt(x), Local(x),
         NEW y \in saved, y \in saved'
  PROVE  file'[y.inode] = file[y.inode] /\ captured' = captured
<1>1. captured' = captured
  BY DEF Popped, GameStays
<1>2. /\ y.inode \in 1 .. RunsMax /\ y.run \in 1 .. RunsMax
      /\ y.run \notin Mentioned /\ file'[y.inode].run = y.run
  BY DEF TypeInv, TypeFiles, Files, FilesSaved, Dealt
<1>3. y.run # x.run
  <2>1. y.run # 0
    BY <1>2, RecorderAssumption
  <2> QED BY <2>1, <1>2, PopMentions
<1> QED BY <1>1, <1>2, <1>3 DEF Local

\* The runs that have not begun have not been seen.
LEMMA PopUnseen ==
  ASSUME TypeInv, Plugin, Order, Frames, Contents, NEW x, Popped(x)
  PROVE  Started' \subseteq Unseen'
<1> SUFFICES ASSUME NEW r \in Started' PROVE r \in Unseen'
  OBVIOUS
<1>1. /\ r \in Started /\ r \in 1 .. RunsMax /\ r # 0
      /\ x.run # 0 => x.run \notin Started'
      /\ captured' = captured
  <2>1. Started' \subseteq Started /\ (x.run # 0 => x.run \notin Started')
    BY PopMentions
  <2>2. r \in 1 .. RunsMax /\ captured' = captured
    BY DEF Started, Popped, GameStays
  <2> QED BY <2>1, <2>2, RecorderAssumption
<1>2. SeenIn(captured[r], Waiting, 0)
  BY <1>1 DEF Contents, Unseen
<1>3. r # x.run
  BY <1>1
<1>4. 0 \in 0 .. Len(captured[r])
  <2>1. captured[r] \in Seq(Nat)
    BY <1>1 DEF TypeInv, TypeHistory
  <2>2. Len(captured[r]) \in Nat
    BY <2>1, LenProperties
  <2> QED BY <2>2
<1>5. SeenIn(captured[r], Waiting', 0)
  BY <1>1, <1>2, <1>3, <1>4, PopSeen
<1> QED BY <1>1, <1>5 DEF Unseen

\* A replay's records and counts.
WellSaved(y) ==
  /\ Holds(file'[y.inode].cells, ShownOf(captured[y.run], Len(captured[y.run])))
  /\ KeyFirst(file'[y.inode].cells)
  /\ file'[y.inode].cp = y.cp /\ file'[y.inode].gc = y.gc
  /\ Counted(EventsOf(file'[y.inode].cells), y.cp, y.gc)

\* What is left to show of a signal.
LEMMA PopContents ==
  ASSUME TypeInv, TypeInv', Plugin, Chain, Order, Files, Frames, Contents, NEW x, Popped(x),
         Dealt(x), Local(x),
         x.run \in Mentioned' /\ x.run \in Filed' => x.run \in Kept',
         \A y \in saved' : y \in saved \/ WellSaved(y)
  PROVE  Contents'
<1>1. Started' \subseteq Unseen'
  BY PopUnseen
<1>2. Mentioned' \cap Filed' \subseteq Kept'
  BY PopOther
<1>3. SavedWell'
  <2> SUFFICES ASSUME NEW y \in saved'
               PROVE  /\ Holds(file'[y.inode].cells,
                               ShownOf(captured'[y.run], Len(captured'[y.run])))
                      /\ KeyFirst(file'[y.inode].cells)
                      /\ file'[y.inode].cp = y.cp /\ file'[y.inode].gc = y.gc
                      /\ Counted(EventsOf(file'[y.inode].cells), y.cp, y.gc)
    BY DEF SavedWell
  <2>1. captured' = captured
    BY DEF Popped, GameStays
  <2>2. CASE y \in saved
    <3>1. file'[y.inode] = file[y.inode]
      BY <2>2, PopSaved
    <3> QED BY <3>1, <2>1, <2>2 DEF Contents, SavedWell
  <2>3. CASE WellSaved(y)
    BY <2>1, <2>3 DEF WellSaved
  <2> QED BY <2>2, <2>3
<1> QED BY <1>1, <1>2, <1>3 DEF Contents

\* The run of a signal has a file, which is its slot's if that is open.
RunHas(x, i, n) ==
  /\ x.run \in 1 .. RunsMax /\ runner[x.run] \in Players /\ i = tmp[runner[x.run]]
  /\ i \in 1 .. RunsMax /\ i # 0 /\ file[i].run = x.run
  /\ n \in 0 .. Len(captured[x.run]) /\ n \in Nat /\ SeenIn(captured[x.run], Waiting, n)
  /\ file[i].cells \in Seq(Cell) /\ Holds(file[i].cells, ShownOf(captured[x.run], n))
  /\ KeyFirst(file[i].cells)
  /\ OpenAs(x.run, i, n) /\ ClosedAs(i)
  /\ x.slot \in Slots /\ captured' = captured /\ runner' = runner
  /\ x.type \in {"START", "UNPAUSE"} => fd[x.slot].inode = 0
  /\ x.type \notin {"START", "UNPAUSE"} =>
       /\ fd[x.slot].inode = i /\ path[x.slot] = runner[x.run]
       /\ fd[x.slot].pos = Len(file[i].cells)
  /\ \A t \in Slots : t # x.slot => fd[t].inode # i

\* Unless the signal begins it.
LEMMA RunHasFile ==
  ASSUME TypeInv, Plugin, Chain, Order, Cover, Files, Contents, NEW x, Popped(x),
         x.type # "START", x.run # 0
  PROVE  \E i, n : RunHas(x, i, n)
<1>1. /\ PopRest(x) /\ FilesTmp /\ FilesOpen /\ x.slot \in Slots
      /\ captured' = captured /\ runner' = runner
  BY PopRestIs DEF Files, Popped, GameStays, PopRest
<1>2. /\ x.run \in Mentioned /\ x.run \in 1 .. RunsMax /\ x.run \notin Started'
      /\ \A r \in Started : r \in Started' \/ (x.type = "START" /\ r = x.run)
  BY PopMentions
<1>3. x.run \in Filed
  BY <1>2 DEF Cover
<1>4. PICK i : i = tmp[runner[x.run]]
  OBVIOUS
<1>5. runner[x.run] \in Players /\ i # 0 /\ file[i].run = x.run
  BY <1>3, <1>4 DEF Filed
<1>6. i \in 1 .. RunsMax
  <2>1. i \in 0 .. RunsMax
    BY <1>4, <1>5 DEF TypeInv, TypeFiles
  <2> QED BY <2>1, <1>5, RecorderAssumption
<1>7. PICK n \in Nat : /\ Recorded(file[i].cells, captured[x.run], Waiting, n)
                       /\ OpenAs(x.run, i, n) /\ ClosedAs(i)
  BY <1>2, <1>3, <1>4 DEF Contents, Kept
<1>8. file[i].cells \in Seq(Cell)
  BY <1>6 DEF TypeInv, TypeFiles, FileOf
<1>9. /\ Opened[x.slot] = Before(x)
      /\ \A t \in Slots : t # x.slot /\ Opened[t] # 0 /\ After(x) # 0 => Opened[t] # After(x)
      /\ \A s \in Slots, t \in Slots : fd[s].inode = fd[t].inode /\ fd[s].inode # 0 => s = t
  BY PopFront
<1>10. CASE x.type = "UNPAUSE"
  <2>1. Opened[x.slot] = 0 /\ After(x) = x.run
    BY <1>9, <1>10 DEF Before, After
  <2>2. fd[x.slot].inode = 0
    BY <2>1, <1>1, OpenedKnown
  <2>3. ASSUME NEW t \in Slots, t # x.slot PROVE fd[t].inode # i
    <3>1. fd[t].inode = i => Opened[t] = x.run
      BY <1>5 DEF Opened
    <3> QED BY <3>1, <2>1, <2>3, <1>9
  <2>4. x.type \in {"START", "UNPAUSE"}
    BY <1>10
  <2> QED BY <2>2, <2>3, <2>4, <1>1, <1>2, <1>4, <1>5, <1>6, <1>7, <1>8 DEF RunHas, Recorded
<1>11. CASE x.type # "UNPAUSE"
  <2>1. Opened[x.slot] = x.run
    BY <1>9, <1>11 DEF Before
  <2>2. fd[x.slot].inode # 0
    BY <2>1, <1>1, OpenedKnown
  <2>3. path[x.slot] = runner[x.run] /\ tmp[path[x.slot]] = fd[x.slot].inode
    BY <2>1, <2>2, <1>1, OpenedKnown
  <2>4. fd[x.slot].inode = i
    BY <2>3, <1>4
  <2>5. fd[x.slot].pos = Len(file[i].cells)
    BY <2>2, <2>4, <1>1 DEF FilesOpen
  <2>6. \A t \in Slots : t # x.slot => fd[t].inode # i
    BY <2>4, <2>2, <1>1, <1>9
  <2>7. x.type \notin {"START", "UNPAUSE"}
    BY <1>11
  <2> QED BY <2>3, <2>4, <2>5, <2>6, <2>7, <1>1, <1>2, <1>4, <1>5, <1>6, <1>7, <1>8
         DEF RunHas, Recorded
<1> QED BY <1>10, <1>11

-----------------------------------------------------------------------------
\* The run's file afterwards: m of its frames are in it.
NowHas(x, i, m) ==
  /\ tmp'[runner[x.run]] = i /\ m \in Nat
  /\ captured' = captured /\ runner' = runner /\ x.run \in 1 .. RunsMax /\ x.slot \in Slots
  /\ Recorded(file'[i].cells, captured[x.run], Waiting', m)
  /\ \A t \in Slots : t # x.slot => fd'[t].inode # i
  /\ fd'[x.slot].inode = i =>
       /\ Counted(EventsOf(file'[i].cells), cps'[x.slot], gcs'[x.slot])
       /\ ~keyNext'[x.slot] => m > 0 /\ last'[x.slot] = captured[x.run][m]
  /\ fd'[x.slot].inode # i =>
       Counted(EventsOf(file'[i].cells), file'[i].cp, file'[i].gc)

\* It is as it should be.
LEMMA NowKept ==
  ASSUME NEW x, NEW i, NEW m, NowHas(x, i, m)
  PROVE  x.run \in Kept'
<1>1. tmp'[runner'[x.run]] = i /\ m \in Nat /\ x.run \in 1 .. RunsMax
      /\ Recorded(file'[i].cells, captured'[x.run], Waiting', m)
  BY DEF NowHas
<1>2. \A s \in Slots : fd'[s].inode = i =>
        /\ Counted(EventsOf(file'[i].cells), cps'[s], gcs'[s])
        /\ ~keyNext'[s] => m > 0 /\ last'[s] = captured'[x.run][m]
  BY DEF NowHas
<1>3. (\A s \in Slots : fd'[s].inode # i) =>
        Counted(EventsOf(file'[i].cells), file'[i].cp, file'[i].gc)
  BY DEF NowHas
<1> QED BY <1>1, <1>2, <1>3 DEF Kept, OpenAs, ClosedAs

\* An event is in the file and in the counts.
LEMMA EventContents ==
  ASSUME TypeInv, TypeInv', Plugin, Chain, Order, Cover, Files, Frames, Contents,
         NEW x, Popped(x), Dealt(x), x.type = "EVENT", EventDoes(x)
  PROVE  Contents'
<1> DEFINE s == x.slot
           id == EventId(x.event)
<1>1. x.run # 0 /\ x.type # "START" /\ x.type # "FRAME" /\ x.type \notin {"START", "UNPAUSE"}
      /\ x.event \in {"checkpoint", "gocheck"}
  BY RecorderAssumption DEF Popped, FieldsOf
<1>2. PICK i, n : RunHas(x, i, n)
  BY <1>1, RunHasFile
<1>3. /\ fd[s].inode = i /\ fd[s].pos = Len(file[i].cells) /\ i \in 1 .. RunsMax /\ i # 0
      /\ file[i].run = x.run /\ s \in Slots
  BY <1>1, <1>2 DEF RunHas
<1>4. Written(s, EventCells(id), i, fd[s].pos)
  BY <1>3 DEF EventDoes, IsOpen
<1>5. /\ file'[i].cells = file[i].cells \o EventCells(id)
      /\ file'[i].run = x.run /\ \A j \in 1 .. RunsMax : j # i => file'[j] = file[j]
      /\ fd'[s].inode = i /\ \A t \in Slots : t # s => fd'[t] = fd[t]
  BY <1>3, <1>4 DEF Written
<1>6. /\ cps'[s] = (IF x.event = "checkpoint" THEN cps[s] + 1 ELSE cps[s])
      /\ gcs'[s] = (IF x.event = "gocheck" THEN gcs[s] + 1 ELSE gcs[s])
      /\ Only(cps, cps', Slots, s) /\ Only(gcs, gcs', Slots, s)
      /\ UNCHANGED <<path, last, keyNext, tmp, saved>>
  BY DEF EventDoes
<1>7. Local(x)
  BY <1>5, <1>6 DEF Local, Only
<1>8. PICK cells : cells = file[i].cells
  OBVIOUS
<1>9. PICK all : all = file'[i].cells
  OBVIOUS
<1>10. PICK F : F = ShownOf(captured[x.run], n)
  OBVIOUS
<1>11. cells \in Seq(Cell) /\ Holds(cells, F) /\ KeyFirst(cells) /\ id \in Cell
       /\ all = cells \o EventCells(id)
  BY <1>2, <1>5, <1>8, <1>9, <1>10, EventIdTyped DEF RunHas
<1>12. /\ all \in Seq(Cell) /\ Holds(all, F)
       /\ EventsOf(all) = Append(EventsOf(cells), id)
       /\ BeginsWith(all, cells, EVENT)
  BY <1>11, HoldsEvent
<1>13. KeyFirst(all)
  BY <1>11, <1>12 DEF KeyFirst, BeginsWith
<1>14. Counted(EventsOf(cells), cps[s], gcs[s]) /\ (~keyNext[s] => n > 0 /\ last[s] = captured[x.run][n])
  BY <1>2, <1>3, <1>8 DEF RunHas, OpenAs
<1>15. EventsOf(cells) \in Seq(Cell)
  BY <1>11, HoldsFacts
<1>16. Counted(EventsOf(all), cps'[s], gcs'[s])
  <2>1. PICK E : E = EventsOf(cells)
    OBVIOUS
  <2>2. E \in Seq(Cell) /\ EventsOf(all) = Append(E, id) /\ cps[s] = CountOf(E, "checkpoint")
        /\ gcs[s] = CountOf(E, "gocheck")
    BY <2>1, <1>12, <1>14, <1>15 DEF Counted
  <2>3. CountOf(Append(E, id), "checkpoint") =
          IF x.event = "checkpoint" THEN CountOf(E, "checkpoint") + 1 ELSE CountOf(E, "checkpoint")
    BY <2>2, <1>1, CountMore
  <2>4. CountOf(Append(E, id), "gocheck") =
          IF x.event = "gocheck" THEN CountOf(E, "gocheck") + 1 ELSE CountOf(E, "gocheck")
    BY <2>2, <1>1, CountMore
  <2> QED BY <2>2, <2>3, <2>4, <1>6 DEF Counted
<1>17. x.run \in 1 .. RunsMax /\ n \in 0 .. Len(captured[x.run]) /\ n \in Nat
       /\ SeenIn(captured[x.run], Waiting, n) /\ captured' = captured /\ runner' = runner
       /\ tmp[runner[x.run]] = i /\ \A t \in Slots : t # s => fd[t].inode # i
  BY <1>2 DEF RunHas
<1>18. SeenIn(captured[x.run], Waiting', n)
  BY <1>1, <1>17, PopSeen
<1>19. Recorded(file'[i].cells, captured[x.run], Waiting', n)
  BY <1>9, <1>10, <1>12, <1>13, <1>17, <1>18 DEF Recorded
<1>20. NowHas(x, i, n)
  BY <1>3, <1>5, <1>6, <1>9, <1>14, <1>16, <1>17, <1>19 DEF NowHas
<1>21. x.run \in Kept'
  BY <1>20, NowKept
<1> QED BY <1>6, <1>7, <1>21, PopContents

\* A frame is in the file.
LEMMA FrameContents ==
  ASSUME TypeInv, TypeInv', Plugin, Chain, Order, Cover, Files, Frames, Contents,
         NEW x, Popped(x), Dealt(x), x.type = "FRAME", FrameDoes(x)
  PROVE  Contents'
<1> DEFINE s == x.slot
<1>1. x.type # "START" /\ x.type \notin {"START", "UNPAUSE"}
  OBVIOUS
<1>2. UNCHANGED <<path, cps, gcs, tmp, saved>>
  BY DEF FrameDoes
<1>3. CASE x.run = 0
  <2>1. Opened[s] = 0 /\ FilesTmp /\ FilesOpen /\ s \in Slots
    BY <1>1, <1>3, PopFront, PopRestIs DEF Before, Files, PopRest
  <2>2. fd[s].inode = 0
    BY <2>1, OpenedKnown
  <2>3. fd' = fd /\ file' = file /\ last' = last /\ keyNext' = keyNext
    BY <2>2 DEF FrameDoes, IsOpen
  <2>4. Local(x)
    BY <2>3, <1>2 DEF Local, Only
  <2>5. x.run \notin Mentioned'
    BY <1>3, RecorderAssumption DEF Mentioned
  <2> QED BY <2>4, <2>5, <1>2, PopContents
<1>4. CASE x.run # 0
  <2>1. PICK i, n : RunHas(x, i, n)
    BY <1>1, <1>4, RunHasFile
  <2>2. /\ fd[s].inode = i /\ fd[s].pos = Len(file[i].cells) /\ i \in 1 .. RunsMax /\ i # 0
        /\ file[i].run = x.run /\ s \in Slots
    BY <1>1, <2>1 DEF RunHas
  <2>3. PICK more : more = IF keyNext[s] THEN KeyFrameCells(Content(x.frame))
                           ELSE DeltaCells(Content(x.frame), Content(last[s]))
    OBVIOUS
  <2>4. /\ Written(s, more, i, fd[s].pos)
        /\ last'[s] = x.frame /\ Only(last, last', Slots, s)
        /\ keyNext'[s] = FALSE /\ Only(keyNext, keyNext', Slots, s)
    BY <2>2, <2>3 DEF FrameDoes, IsOpen
  <2>5. /\ file'[i].cells = file[i].cells \o more
        /\ file'[i].run = x.run /\ \A j \in 1 .. RunsMax : j # i => file'[j] = file[j]
        /\ fd'[s].inode = i /\ \A t \in Slots : t # s => fd'[t] = fd[t]
    BY <2>2, <2>4 DEF Written
  <2>6. Local(x)
    BY <2>4, <2>5, <1>2 DEF Local, Only
  <2>7. PICK cells : cells = file[i].cells
    OBVIOUS
  <2>8. PICK all : all = file'[i].cells
    OBVIOUS
  <2>9. PICK F : F = ShownOf(captured[x.run], n)
    OBVIOUS
  <2>10. PICK f : f = Content(x.frame)
    OBVIOUS
  <2>11. cells \in Seq(Cell) /\ Holds(cells, F) /\ KeyFirst(cells) /\ f \in [Columns -> Cell]
         /\ all = cells \o more
    BY <2>1, <2>5, <2>7, <2>8, <2>9, <2>10, ContentTyped DEF RunHas
  <2>12. Counted(EventsOf(cells), cps[s], gcs[s]) /\ (~keyNext[s] => n > 0 /\ last[s] = captured[x.run][n])
    BY <2>1, <2>2, <2>7 DEF RunHas, OpenAs
  <2>13. x.run \in 1 .. RunsMax /\ n \in 0 .. Len(captured[x.run]) /\ n \in Nat
         /\ SeenIn(captured[x.run], Waiting, n) /\ captured' = captured /\ runner' = runner
         /\ tmp[runner[x.run]] = i /\ \A t \in Slots : t # s => fd[t].inode # i
    BY <2>1 DEF RunHas
  <2>14. /\ n + 1 \in 0 .. Len(captured[x.run])
         /\ captured[x.run][n + 1] = x.frame
         /\ SeenIn(captured[x.run], Waiting', n + 1)
    BY <2>13, PopSeen
  <2>15. ShownOf(captured[x.run], n + 1) = Append(F, f)
    BY <2>9, <2>10, <2>13, <2>14, ShownMore
  <2>16. /\ all \in Seq(Cell) /\ Holds(all, Append(F, f))
         /\ EventsOf(all) = EventsOf(cells) /\ KeyFirst(all)
    <3>1. CASE keyNext[s]
      <4>1. all = cells \o KeyFrameCells(f)
        BY <3>1, <2>3, <2>10, <2>11
      <4>2. HasFrameMore(all, cells, F, f, KEYFRAME)
        BY <4>1, <2>11, HoldsKey
      <4> QED BY <4>2, <2>11 DEF HasFrameMore, BeginsWith, KeyFirst
    <3>2. CASE ~keyNext[s]
      <4>1. n > 0 /\ last[s] = captured[x.run][n]
        BY <3>2, <2>12
      <4>2. LastOf(F) = Content(last[s]) /\ Len(F) = n
        BY <4>1, <2>9, <2>13, ShownLast
      <4>3. LastOf(F) \in [Columns -> Cell]
        BY <4>2, ContentTyped
      <4>4. all = cells \o DeltaCells(f, LastOf(F))
        BY <3>2, <4>2, <2>3, <2>10, <2>11
      <4>5. HasFrameMore(all, cells, F, f, DELTA)
        BY <4>3, <4>4, <2>11, HoldsDelta
      <4>6. Len(cells) # 0
        <5>1. cells # <<>>
          BY <4>1, <4>2, <2>11, HoldsFacts
        <5> QED BY <5>1, <2>11, EmptySeq
      <4> QED BY <4>5, <4>6, <2>11 DEF HasFrameMore, BeginsWith, KeyFirst
    <3> QED BY <3>1, <3>2
  <2>17. Recorded(file'[i].cells, captured[x.run], Waiting', n + 1)
    BY <2>8, <2>14, <2>15, <2>16 DEF Recorded
  <2>18. n + 1 \in Nat /\ n + 1 > 0
    BY <2>13
  <2>19. NowHas(x, i, n + 1)
    BY <2>2, <2>4, <2>5, <2>7, <2>8, <2>12, <2>13, <2>14, <2>16, <2>17, <2>18, <1>2 DEF NowHas
  <2>20. x.run \in Kept'
    BY <2>19, NowKept
  <2> QED BY <2>6, <2>20, <1>2, PopContents
<1> QED BY <1>3, <1>4

-----------------------------------------------------------------------------
\* The counts are in the header.
LEMMA PauseContents ==
  ASSUME TypeInv, TypeInv', Plugin, Chain, Order, Cover, Files, Frames, Contents,
         NEW x, Popped(x), Dealt(x), x.type = "PAUSE", PauseDoes(x)
  PROVE  Contents'
<1> DEFINE s == x.slot
<1>1. x.run # 0 /\ x.type # "START" /\ x.type # "FRAME" /\ x.type \notin {"START", "UNPAUSE"}
  BY RecorderAssumption DEF Popped, FieldsOf
<1>2. PICK i, n : RunHas(x, i, n)
  BY <1>1, RunHasFile
<1>3. /\ fd[s].inode = i /\ i # 0 /\ i \in 1 .. RunsMax /\ file[i].run = x.run /\ s \in Slots
  BY <1>1, <1>2 DEF RunHas
<1>4. UNCHANGED <<path, last, keyNext, cps, gcs, tmp, saved>>
  BY DEF PauseDoes
<1>5. /\ file'[i].cells = file[i].cells /\ file'[i].run = file[i].run
      /\ file'[i].cp = cps[s] /\ file'[i].gc = gcs[s]
      /\ Only(file, file', 1 .. RunsMax, i)
      /\ fd'[s] = Closed /\ Only(fd, fd', Slots, s)
  BY <1>3 DEF PauseDoes, IsOpen, Closes
<1>6. Local(x)
  BY <1>3, <1>4, <1>5 DEF Local, Only
<1>7. Counted(EventsOf(file[i].cells), cps[s], gcs[s])
  BY <1>2, <1>3 DEF RunHas, OpenAs
<1>8. /\ x.run \in 1 .. RunsMax /\ n \in 0 .. Len(captured[x.run]) /\ n \in Nat
      /\ SeenIn(captured[x.run], Waiting, n) /\ captured' = captured /\ runner' = runner
      /\ tmp[runner[x.run]] = i /\ \A t \in Slots : t # s => fd[t].inode # i
      /\ Holds(file[i].cells, ShownOf(captured[x.run], n)) /\ KeyFirst(file[i].cells)
  BY <1>2 DEF RunHas
<1>9. SeenIn(captured[x.run], Waiting', n)
  BY <1>1, <1>8, PopSeen
<1>10. Recorded(file'[i].cells, captured[x.run], Waiting', n)
  BY <1>5, <1>8, <1>9 DEF Recorded
<1>11. fd'[s].inode = 0 /\ \A t \in Slots : t # s => fd'[t].inode # i
  BY <1>5, <1>8 DEF Closed, Only
<1>12. NowHas(x, i, n)
  BY <1>3, <1>4, <1>5, <1>7, <1>8, <1>10, <1>11 DEF NowHas
<1>13. x.run \in Kept'
  BY <1>12, NowKept
<1> QED BY <1>4, <1>6, <1>13, PopContents

\* The counts are those of the header again.
LEMMA UnpauseContents ==
  ASSUME TypeInv, TypeInv', Plugin, Chain, Order, Cover, Files, Frames, Contents,
         NEW x, Popped(x), Dealt(x), x.type = "UNPAUSE", UnpauseDoes(x)
  PROVE  Contents'
<1> DEFINE s == x.slot
<1>1. x.run # 0 /\ x.type # "START" /\ x.type # "FRAME" /\ x.type \in {"START", "UNPAUSE"}
  BY RecorderAssumption DEF Popped, FieldsOf
<1>2. PICK i, n : RunHas(x, i, n)
  BY <1>1, RunHasFile
<1>3. /\ fd[s].inode = 0 /\ i # 0 /\ i \in 1 .. RunsMax /\ file[i].run = x.run /\ s \in Slots
      /\ tmp[x.player] = i
  BY <1>1, <1>2, UnpauseFile DEF RunHas
<1>4. /\ UNCHANGED <<last, file, tmp, saved>>
      /\ keyNext'[s] = TRUE /\ Only(keyNext, keyNext', Slots, s)
      /\ fd'[s] = [inode |-> i, pos |-> Len(file[i].cells)]
      /\ cps'[s] = file[i].cp /\ gcs'[s] = file[i].gc
      /\ Only(fd, fd', Slots, s) /\ Only(cps, cps', Slots, s) /\ Only(gcs, gcs', Slots, s)
  BY <1>3 DEF UnpauseDoes
<1>5. fd'[s].inode = i
  BY <1>4
<1>6. Local(x)
  BY <1>3, <1>4 DEF Local, Only
<1>7. /\ x.run \in 1 .. RunsMax /\ n \in 0 .. Len(captured[x.run]) /\ n \in Nat
      /\ SeenIn(captured[x.run], Waiting, n) /\ captured' = captured /\ runner' = runner
      /\ tmp[runner[x.run]] = i /\ \A t \in Slots : t # s => fd[t].inode # i
      /\ Holds(file[i].cells, ShownOf(captured[x.run], n)) /\ KeyFirst(file[i].cells)
      /\ ClosedAs(i)
  BY <1>2 DEF RunHas
<1>8. Counted(EventsOf(file[i].cells), file[i].cp, file[i].gc)
  BY <1>3, <1>7 DEF ClosedAs
<1>9. SeenIn(captured[x.run], Waiting', n)
  BY <1>1, <1>7, PopSeen
<1>10. Recorded(file'[i].cells, captured[x.run], Waiting', n)
  BY <1>4, <1>7, <1>9 DEF Recorded
<1>11. \A t \in Slots : t # s => fd'[t].inode # i
  BY <1>4, <1>7 DEF Only
<1>12. NowHas(x, i, n)
  BY <1>3, <1>4, <1>5, <1>7, <1>8, <1>10, <1>11 DEF NowHas
<1>13. x.run \in Kept'
  BY <1>12, NowKept
<1> QED BY <1>4, <1>6, <1>13, PopContents

\* The run is not mentioned any more.
LEMMA RejectContents ==
  ASSUME TypeInv, TypeInv', Plugin, Chain, Order, Cover, Files, Frames, Contents,
         NEW x, Popped(x), Dealt(x), x.type = "REJECT", RejectDoes(x)
  PROVE  Contents'
<1>1. /\ fd'[x.slot] = Closed /\ Only(fd, fd', Slots, x.slot)
      /\ Only(cps, cps', Slots, x.slot) /\ Only(gcs, gcs', Slots, x.slot)
      /\ UNCHANGED <<path, last, keyNext, file, saved>>
      /\ \A p \in Players : tmp'[p] = tmp[p] \/ tmp'[p] = 0
  BY DEF RejectDoes, Only
<1>2. Local(x)
  BY <1>1 DEF Local, Only
<1>3. x.run \notin Mentioned'
  <2>1. x.run # 0 => x.run \notin Mentioned'
    BY PopMentions
  <2> QED BY <2>1, RecorderAssumption DEF Mentioned
<1> QED BY <1>1, <1>2, <1>3, PopContents

\* All of the run's frames have been seen when it is finished.
LEMMA FinishedSeen ==
  ASSUME TypeInv, Plugin, Order, Frames, NEW x, Popped(x), x.type = "FINISH",
         NEW n, n \in Nat, SeenIn(captured[x.run], Waiting, n), n \in 0 .. Len(captured[x.run]),
         x.run \in 1 .. RunsMax
  PROVE  n = Len(captured[x.run])
<1>1. /\ PopRest(x) /\ FramesQueued /\ FramesCaptured /\ OrderQueue /\ x.run # 0
  BY PopRestIs, RecorderAssumption DEF Frames, Order
<1>2. SUFFICES ASSUME n # Len(captured[x.run]) PROVE FALSE
  OBVIOUS
<1>3. Len(captured[x.run]) \in 1 .. Len(captured[x.run]) /\ Len(captured[x.run]) > n
  BY <1>2
<1>4. PICK k : k = Len(captured[x.run])
  OBVIOUS
<1>5. k \in 1 .. Len(captured[x.run]) /\ captured[x.run][k] \in Waiting
  BY <1>3, <1>4 DEF SeenIn
<1>6. PICK j \in 1 .. Len(queue) : queue[j].type = "FRAME" /\ queue[j].frame = captured[x.run][k]
  BY <1>5, WaitingIs
<1>7. queue[j].run \in 0 .. RunsMax
  <2>1. queue \in Seq(SignalOf(scene))
    BY DEF TypeInv, TypeQueue
  <2>2. queue[j] \in SignalOf(scene)
    BY <2>1, ElementOfSeq
  <2> QED BY <2>2, SignalFields DEF FieldsOf
<1>8. queue[j].run # 0
  BY <1>1, <1>5, <1>6 DEF FramesQueued
<1>9. queue[j].run \in 1 .. RunsMax
  BY <1>7, <1>8, RecorderAssumption
<1>10. PICK m \in 1 .. Len(captured[queue[j].run]) : captured[queue[j].run][m] = queue[j].frame
  BY <1>1, <1>6, <1>8 DEF FramesQueued
<1>11. queue[j].run = x.run
  BY <1>1, <1>5, <1>6, <1>9, <1>10, SMTT(30) DEF FramesCaptured
<1>12. j # 1 /\ queue[1] = x /\ 1 \in 1 .. Len(queue)
  BY <1>1, <1>6 DEF PopRest
<1>13. 1 < j
  BY <1>12
<1>14. InOrder(x, queue[j])
  BY <1>1, <1>8, <1>11, <1>12, <1>13 DEF OrderQueue
<1> QED BY <1>11, <1>14 DEF InOrder

\* The replay holds them all.
LEMMA FinishContents ==
  ASSUME TypeInv, TypeInv', Plugin, Chain, Order, Cover, Files, Frames, Contents,
         NEW x, Popped(x), Dealt(x), x.type = "FINISH", FinishDoes(x)
  PROVE  Contents'
<1> DEFINE s == x.slot
<1>1. x.run # 0 /\ x.type # "START" /\ x.type \notin {"START", "UNPAUSE"}
  BY RecorderAssumption DEF Popped, FieldsOf
<1>2. PICK i, n : RunHas(x, i, n)
  BY <1>1, RunHasFile
<1>3. /\ fd[s].inode = i /\ i # 0 /\ i \in 1 .. RunsMax /\ file[i].run = x.run /\ s \in Slots
      /\ path[s] \in Players
  BY <1>1, <1>2 DEF RunHas
<1>4. /\ UNCHANGED <<path, last, keyNext, cps, gcs>>
      /\ file'[i].cells = file[i].cells /\ file'[i].run = file[i].run
      /\ file'[i].cp = cps[s] /\ file'[i].gc = gcs[s]
      /\ Only(file, file', 1 .. RunsMax, i)
      /\ fd'[s] = Closed /\ Only(fd, fd', Slots, s)
      /\ Only(tmp, tmp', Players, path[s]) /\ tmp'[path[s]] = 0
  BY <1>3 DEF FinishDoes, IsOpen, Closes
<1>5. Local(x)
  BY <1>3, <1>4 DEF Local, Only
<1>6. x.run \notin Mentioned'
  BY <1>1, PopMentions
<1>7. \A y \in saved' : \/ y \in saved
                        \/ y.inode = i /\ y.run = x.run /\ y.cp = cps[s] /\ y.gc = gcs[s]
  BY <1>3 DEF FinishDoes, IsOpen
<1>8. /\ x.run \in 1 .. RunsMax /\ n \in 0 .. Len(captured[x.run]) /\ n \in Nat
      /\ SeenIn(captured[x.run], Waiting, n)
      /\ Holds(file[i].cells, ShownOf(captured[x.run], n)) /\ KeyFirst(file[i].cells)
  BY <1>2 DEF RunHas
<1>9. Counted(EventsOf(file[i].cells), cps[s], gcs[s])
  BY <1>2, <1>3 DEF RunHas, OpenAs
<1>10. n = Len(captured[x.run])
  BY <1>8, FinishedSeen
<1>11. Holds(file'[i].cells, ShownOf(captured[x.run], Len(captured[x.run])))
  BY <1>4, <1>8, <1>10
<1>12. \A y \in saved' : y \in saved \/ WellSaved(y)
  BY <1>4, <1>7, <1>8, <1>9, <1>11 DEF WellSaved
<1> QED BY <1>5, <1>6, <1>12, PopContents

\* The file is empty.
LEMMA StartContents ==
  ASSUME TypeInv, TypeInv', Plugin, Chain, Order, Cover, Files, Frames, Contents,
         NEW x, Popped(x), Dealt(x), x.type = "START", StartDoes(x)
  PROVE  Contents'
<1> DEFINE s == x.slot
           p == x.player
<1>0. PICK i : i = IF tmp[p] # 0 THEN tmp[p] ELSE x.run
  OBVIOUS
<1>1. StartKnows(x, i)
  BY <1>0, StartInode
<1>2. /\ tmp'[p] = i /\ Only(tmp, tmp', Players, p)
      /\ file'[i] = NewFile(p, x.run) /\ Only(file, file', 1 .. RunsMax, i)
      /\ fd'[s] = [inode |-> i, pos |-> 0] /\ Only(fd, fd', Slots, s)
      /\ keyNext'[s] = TRUE /\ Only(keyNext, keyNext', Slots, s)
      /\ cps'[s] = 0 /\ Only(cps, cps', Slots, s)
      /\ gcs'[s] = 0 /\ Only(gcs, gcs', Slots, s)
      /\ Only(last, last', Slots, s)
      /\ saved' = saved
  BY <1>0 DEF StartDoes
<1>3. file'[i].run = x.run /\ file'[i].cells = <<>> /\ fd'[s].inode = i
  BY <1>2 DEF NewFile
<1>4. Local(x)
  BY <1>2, <1>3 DEF Local, Only
<1>5. /\ x.slot \in Slots /\ p = runner[x.run]
      /\ \A t \in Slots : t # s => fd'[t].inode # i
  <2>1. /\ x.slot \in Slots /\ p = runner[x.run] /\ i # 0
        /\ \A t \in Slots : t # s /\ fd[t].inode # 0 => fd[t].inode # i
    BY <1>1 DEF StartKnows
  <2> QED BY <2>1, <1>2 DEF Only
<1>6. x.run \in 1 .. RunsMax /\ runner' = runner /\ captured' = captured
  BY DEF Popped, FieldsOf, GameStays
<1>7. x.run \in Started
  <2>1. PopRest(x)
    BY PopRestIs
  <2> QED BY <2>1, <1>6 DEF PopRest, Started
<1>8. SeenIn(captured[x.run], Waiting, 0)
  BY <1>7 DEF Contents, Unseen
<1>9. 0 \in 0 .. Len(captured[x.run]) /\ 0 \in Nat
  <2>1. captured[x.run] \in Seq(Nat)
    BY <1>6 DEF TypeInv, TypeHistory
  <2>2. Len(captured[x.run]) \in Nat
    BY <2>1, LenProperties
  <2> QED BY <2>2
<1>10. SeenIn(captured[x.run], Waiting', 0)
  <2>1. x.type # "FRAME"
    OBVIOUS
  <2> QED BY <2>1, <1>6, <1>8, <1>9, PopSeen
<1>11. Holds(<<>>, ShownOf(captured[x.run], 0)) /\ EventsOf(<<>>) = <<>>
  BY HoldsNothing, ShownLast
<1>12. KeyFirst(<<>>)
  BY DEF KeyFirst
<1>13. Recorded(file'[i].cells, captured[x.run], Waiting', 0)
  BY <1>3, <1>9, <1>10, <1>11, <1>12 DEF Recorded
<1>14. Counted(EventsOf(file'[i].cells), cps'[s], gcs'[s])
  BY <1>2, <1>3, <1>11, CountNone
<1>15. NowHas(x, i, 0)
  BY <1>2, <1>3, <1>5, <1>6, <1>9, <1>13, <1>14 DEF NowHas
<1>16. x.run \in Kept'
  BY <1>15, NowKept
<1> QED BY <1>2, <1>4, <1>16, PopContents

-----------------------------------------------------------------------------
(***************************************************************************)
(* The invariant.                                                          *)
(***************************************************************************)
Recording == Chain /\ Order /\ Cover /\ Files /\ Frames /\ Contents

Sound == TypeInv /\ Plugin /\ (refused \/ Recording)

\* Nothing is recorded yet.
LEMMA InitSound ==
  Init => Sound
<1> SUFFICES ASSUME Init PROVE Sound
  OBVIOUS
<1> USE RecorderAssumption
<1>1. TypeInv
  <2>0. 0 \in 0 .. RunsMax
    OBVIOUS
  <2>1. TypeGame
    <3>1. early \in BOOLEAN /\ noSubmit \in [Slots -> BOOLEAN]
      BY Zenon DEF Init
    <3>2. run \in [Slots -> 0 .. RunsMax] /\ parked \in [Players -> 0 .. RunsMax]
      BY <2>0 DEF Init
    <3>3. /\ occupant \in [Slots -> Players \cup {Nobody}]
          /\ phase \in [Slots -> {"none", "running", "paused"}]
      BY DEF Init
    <3> QED BY <3>1, <3>2, <3>3 DEF TypeGame
  <2>2. TypeHistory
    <3>1. captured \in [1 .. RunsMax -> Seq(Nat)]
      BY DEF Init
    <3>2. scene \in Scenes /\ scene.frames \in 0 .. (2 ^ FrameSize - 1)
      BY DEF Init
    <3>3. frames \in 0 .. scene.frames
      <4>1. frames = 0 /\ scene.frames \in Int /\ 0 <= scene.frames
        BY <3>2 DEF Init
      <4> QED BY <4>1
    <3>4. refused \in BOOLEAN
      BY Zenon DEF Init
    <3>5. runs \in 0 .. RunsMax /\ runner \in [1 .. RunsMax -> Players \cup {Nobody}]
      BY <2>0 DEF Init
    <3> QED BY <3>1, <3>2, <3>3, <3>4, <3>5 DEF TypeHistory
  <2>3. TypeQueue
    BY DEF Init, TypeQueue
  <2>4. TypeSlots
    <3>1. scene.frames \in 0 .. (2 ^ FrameSize - 1)
      BY DEF Init
    <3>2. 0 \in 0 .. scene.frames
      <4>1. scene.frames \in Int /\ 0 <= scene.frames
        BY <3>1
      <4> QED BY <4>1
    <3> QED BY <3>2 DEF Init, TypeSlots, Closed
  <2>5. TypeFiles
    BY DEF Init, TypeFiles, FileOf, NewFile
  <2> QED BY <2>1, <2>2, <2>3, <2>4, <2>5 DEF TypeInv
<1>2. Plugin
  BY DEF Init, Plugin, SlotsKeep, ParkedKeep, OneSlotEach, RunsKnown
<1>3. queue = <<>> /\ Len(queue) = 0 /\ (\A k \in 1 .. Len(queue) : FALSE)
      /\ \A s \in Slots : fd[s].inode = 0 /\ run[s] = 0 /\ phase[s] = "none"
  BY DEF Init, Closed
<1>4. \A r \in 1 .. RunsMax : r # 0 /\ captured[r] = <<>> /\ \A k \in 1 .. Len(captured[r]) : FALSE
  BY DEF Init
<1>5. Alive = {} /\ Mentioned = {} /\ Started = {} /\ runs = 0 /\ saved = {}
      /\ \A p \in Players : tmp[p] = 0
  BY <1>3, <1>4 DEF Init, Alive, Mentioned, Started
<1>6. Chain
  <2>1. ChainQueue
    BY <1>3 DEF ChainQueue
  <2>2. ChainEnd
    BY <1>3 DEF ChainEnd, OpenAfter, Opened, Current, Running
  <2>3. ChainOne
    <3>1. \A r \in 1 .. runs : FALSE
      BY <1>5
    <3> QED BY <3>1 DEF ChainOne
  <2> QED BY <2>1, <2>2, <2>3 DEF Chain
<1>7. Order
  BY <1>3, <1>5 DEF Order, OrderQueue, OrderAlive, OrderPlayers
<1>8. Cover
  BY <1>5 DEF Cover
<1>9. Files
  BY <1>3, <1>5 DEF Files, FilesTmp, FilesApart, FilesOpen, FilesStart, FilesSaved
<1>10. Frames
  BY <1>3, <1>4 DEF Frames, FramesQueued, FramesCaptured
<1>11. Contents
  BY <1>5 DEF Contents, SavedWell
<1> QED BY <1>1, <1>2, <1>6, <1>7, <1>8, <1>9, <1>10, <1>11 DEF Sound, Recording

-----------------------------------------------------------------------------
\* The signal that is taken is popped.
LEMMA TakenPopped ==
  ASSUME NEW x, NEW type, Taken(x, type), GameStays
  PROVE  Popped(x) /\ x.type = type /\ refused' = refused
BY DEF Taken, Popped, GameStays

\* A signal is dealt with.
LEMMA WriterSteps ==
  ASSUME Sound, Writer
  PROVE  Sound'
<1>1. TypeInv /\ Plugin
  BY DEF Sound
<1>2. PICK x : x = Head(queue)
  OBVIOUS
<1>3. /\ TypeInv' /\ Plugin' /\ Popped(x) /\ refused' = refused
      /\ Recording => Dealt(x) /\ Contents'
  <2>1. CASE Start
    <3>1. TypeInv' /\ Plugin' /\ Taken(x, "START") /\ GameStays /\ StartDoes(x)
      BY <2>1, <1>1, <1>2, StartTyped
    <3>2. Popped(x) /\ x.type = "START" /\ refused' = refused
      BY <3>1, TakenPopped
    <3>3. Recording => Dealt(x)
      BY <3>1, <3>2, <1>1, StartDealt DEF Recording
    <3>4. Recording => Contents'
      BY <3>1, <3>2, <3>3, <1>1, StartContents DEF Recording
    <3> QED BY <3>1, <3>2, <3>3, <3>4
  <2>2. CASE Event
    <3>1. TypeInv' /\ Plugin' /\ Taken(x, "EVENT") /\ GameStays /\ EventDoes(x)
      BY <2>2, <1>1, <1>2, EventTyped
    <3>2. Popped(x) /\ x.type = "EVENT" /\ refused' = refused
      BY <3>1, TakenPopped
    <3>3. Recording => Dealt(x)
      BY <3>1, <3>2, <1>1, EventDealt DEF Recording
    <3>4. Recording => Contents'
      BY <3>1, <3>2, <3>3, <1>1, EventContents DEF Recording
    <3> QED BY <3>1, <3>2, <3>3, <3>4
  <2>3. CASE WriteFrame
    <3>1. TypeInv' /\ Plugin' /\ Taken(x, "FRAME") /\ GameStays /\ FrameDoes(x)
      BY <2>3, <1>1, <1>2, WriteFrameTyped
    <3>2. Popped(x) /\ x.type = "FRAME" /\ refused' = refused
      BY <3>1, TakenPopped
    <3>3. Recording => Dealt(x)
      BY <3>1, <3>2, <1>1, FrameDealt DEF Recording
    <3>4. Recording => Contents'
      BY <3>1, <3>2, <3>3, <1>1, FrameContents DEF Recording
    <3> QED BY <3>1, <3>2, <3>3, <3>4
  <2>4. CASE Pause
    <3>1. TypeInv' /\ Plugin' /\ Taken(x, "PAUSE") /\ GameStays /\ PauseDoes(x)
      BY <2>4, <1>1, <1>2, PauseTyped
    <3>2. Popped(x) /\ x.type = "PAUSE" /\ refused' = refused
      BY <3>1, TakenPopped
    <3>3. Recording => Dealt(x)
      BY <3>1, <3>2, <1>1, PauseDealt DEF Recording
    <3>4. Recording => Contents'
      BY <3>1, <3>2, <3>3, <1>1, PauseContents DEF Recording
    <3> QED BY <3>1, <3>2, <3>3, <3>4
  <2>5. CASE Unpause
    <3>1. TypeInv' /\ Plugin' /\ Taken(x, "UNPAUSE") /\ GameStays /\ UnpauseDoes(x)
      BY <2>5, <1>1, <1>2, UnpauseTyped
    <3>2. Popped(x) /\ x.type = "UNPAUSE" /\ refused' = refused
      BY <3>1, TakenPopped
    <3>3. Recording => Dealt(x)
      BY <3>1, <3>2, <1>1, UnpauseDealt DEF Recording
    <3>4. Recording => Contents'
      BY <3>1, <3>2, <3>3, <1>1, UnpauseContents DEF Recording
    <3> QED BY <3>1, <3>2, <3>3, <3>4
  <2>6. CASE Reject
    <3>1. TypeInv' /\ Plugin' /\ Taken(x, "REJECT") /\ GameStays /\ RejectDoes(x)
      BY <2>6, <1>1, <1>2, RejectTyped
    <3>2. Popped(x) /\ x.type = "REJECT" /\ refused' = refused
      BY <3>1, TakenPopped
    <3>3. Recording => Dealt(x)
      BY <3>1, <3>2, <1>1, RejectDealt DEF Recording
    <3>4. Recording => Contents'
      BY <3>1, <3>2, <3>3, <1>1, RejectContents DEF Recording
    <3> QED BY <3>1, <3>2, <3>3, <3>4
  <2>7. CASE Finish
    <3>1. TypeInv' /\ Plugin' /\ Taken(x, "FINISH") /\ GameStays /\ FinishDoes(x)
      BY <2>7, <1>1, <1>2, FinishTyped
    <3>2. Popped(x) /\ x.type = "FINISH" /\ refused' = refused
      BY <3>1, TakenPopped
    <3>3. Recording => Dealt(x)
      BY <3>1, <3>2, <1>1, FinishDealt DEF Recording
    <3>4. Recording => Contents'
      BY <3>1, <3>2, <3>3, <1>1, FinishContents DEF Recording
    <3> QED BY <3>1, <3>2, <3>3, <3>4
  <2> QED BY <2>1, <2>2, <2>3, <2>4, <2>5, <2>6, <2>7 DEF Writer
<1>4. ASSUME Recording PROVE Recording'
  <2>1. Opens(x) /\ Cover' /\ Files' /\ Contents'
    BY <1>3, <1>4 DEF Dealt
  <2>2. Chain'
    BY <1>1, <1>3, <1>4, <2>1, PopChain DEF Recording
  <2>3. Order'
    BY <1>1, <1>3, <1>4, PopOrder DEF Recording
  <2>4. Frames'
    BY <1>1, <1>3, <1>4, PopFrames DEF Recording
  <2> QED BY <2>1, <2>2, <2>3, <2>4 DEF Recording
<1> QED BY <1>3, <1>4 DEF Sound

\* The game does something.
LEMMA GameSound ==
  ASSUME Sound, Game
  PROVE  Sound'
<1>1. TypeInv /\ Plugin
  BY DEF Sound
<1>2. TypeInv' /\ Plugin' /\ (refused' \/ Quiet \/ \E x : Pushed(x))
  BY <1>1, GameSteps
<1>3. ASSUME Quiet PROVE refused' \/ Recording'
  <2>1. refused' = refused
    BY <1>3 DEF Quiet
  <2>2. ASSUME Recording PROVE Recording'
    <3>1. Chain' /\ Order' /\ Cover' /\ Files'
      BY <1>1, <1>3, <2>2, QuietKeeps DEF Recording
    <3>2. Frames'
      BY <1>3, <2>2, QuietFrames DEF Recording
    <3>3. Contents'
      BY <1>1, <1>3, <2>2, QuietContents DEF Recording
    <3> QED BY <3>1, <3>2, <3>3 DEF Recording
  <2> QED BY <2>1, <2>2 DEF Sound
<1>4. ASSUME NEW x, Pushed(x) PROVE refused' \/ Recording'
  <2>1. refused' = refused
    BY <1>4 DEF Pushed
  <2>2. ASSUME Recording PROVE Recording'
    <3>1. Chain'
      BY <1>1, <1>2, <1>4, <2>2, PushChain DEF Recording, Files, Order
    <3>2. Order'
      BY <1>1, <1>2, <1>4, <2>2, PushOrder DEF Recording
    <3>3. Cover' /\ Files'
      BY <1>1, <1>2, <1>4, <2>2, PushFiles DEF Recording
    <3>4. Frames'
      BY <1>1, <1>2, <1>4, <2>2, PushFrames DEF Recording, Order
    <3>5. Contents'
      BY <1>1, <1>2, <1>4, <2>2, PushContents DEF Recording
    <3> QED BY <3>1, <3>2, <3>3, <3>4, <3>5 DEF Recording
  <2> QED BY <2>1, <2>2 DEF Sound
<1> QED BY <1>2, <1>3, <1>4 DEF Sound

\* Nothing happens.
LEMMA StutterSound ==
  ASSUME Sound, UNCHANGED vars
  PROVE  Sound'
<1>1. Quiet
  BY DEF Quiet, vars, count, plugin, writer, Current, Running, Alive
<1>2. TypeInv /\ Plugin
  BY DEF Sound
<1>3. TypeInv'
  BY <1>2 DEF vars, player, plugin, writer, count, TypeInv, TypeGame, TypeHistory, TypeQueue,
              TypeSlots, TypeFiles
<1>4. Plugin'
  BY <1>2 DEF vars, player, plugin, writer, count, Plugin, SlotsKeep, ParkedKeep, OneSlotEach,
              RunsKnown
<1>5. refused' = refused
  BY DEF vars
<1>6. ASSUME Recording PROVE Recording'
  <2>1. Chain' /\ Order' /\ Cover' /\ Files'
    BY <1>1, <1>2, <1>6, QuietKeeps DEF Recording
  <2>2. Frames'
    BY <1>1, <1>6, QuietFrames DEF Recording
  <2>3. Contents'
    BY <1>1, <1>2, <1>6, QuietContents DEF Recording
  <2> QED BY <2>1, <2>2, <2>3 DEF Recording
<1> QED BY <1>3, <1>4, <1>5, <1>6 DEF Sound

\* The invariant holds.
LEMMA AlwaysSound ==
  Spec => []Sound
<1>1. Init => Sound
  BY InitSound
<1>2. Sound /\ [Next]_vars => Sound'
  <2> SUFFICES ASSUME Sound, [Next]_vars PROVE Sound'
    OBVIOUS
  <2> QED BY WriterSteps, GameSound, StutterSound DEF Next
<1> QED BY <1>1, <1>2, PTL DEF Spec

-----------------------------------------------------------------------------
(***************************************************************************)
(* Every variable has its type.                                            *)
(***************************************************************************)
THEOREM RecorderTypeCorrect == Spec => []TypeOK
<1>1. Sound => TypeOK
  <2> SUFFICES ASSUME Sound PROVE TypeOK
    OBVIOUS
  <2>1. TypeGame /\ TypeSlots /\ TypeFiles /\ queue \in Seq(SignalOf(scene))
    BY DEF Sound, TypeInv, TypeQueue
  <2>2. \A i \in DOMAIN queue : queue[i].slot \in Slots
    <3>1. ASSUME NEW i \in DOMAIN queue PROVE queue[i].slot \in Slots
      <4>1. i \in 1 .. Len(queue)
        BY <2>1, LenProperties
      <4>2. queue[i] \in SignalOf(scene)
        BY <2>1, <4>1, ElementOfSeq
      <4> QED BY <4>2, SignalFields DEF FieldsOf
    <3> QED BY <3>1
  <2>3. \A i \in 1 .. RunsMax : /\ file[i].cp \in Nat
                                /\ file[i].gc \in Nat
                                /\ file[i].player \in Players \cup {Nobody}
    BY <2>1 DEF TypeFiles, FileOf
  <2> QED BY <2>1, <2>2, <2>3 DEF TypeOK, TypeGame, TypeSlots, TypeFiles
<1> QED BY <1>1, AlwaysSound, PTL

(***************************************************************************)
(* What a bot is given of a saved replay is its run: every frame that was  *)
(* captured while the run was running, and no other.                       *)
(***************************************************************************)
THEOREM ReplaysAreRuns == Spec => []OneRunPerReplay
<1>1. Sound => OneRunPerReplay
  <2> SUFFICES ASSUME Sound, ~refused, NEW y \in saved
               PROVE  /\ Readable(y.inode) =>
                           LET shown == PlayedBack(y.inode)
                           IN  /\ shown.err = "ok"
                               /\ shown.frames = [k \in DOMAIN captured[y.run] |->
                                                    Content(captured[y.run][k])]
                      /\ file[y.inode].player = y.player
    BY DEF OneRunPerReplay
  <2>1. TypeInv /\ Files /\ Contents
    BY DEF Sound, Recording
  <2>2. /\ file[y.inode].player = y.player /\ y.inode \in 1 .. RunsMax /\ y.run \in 1 .. RunsMax
    BY <2>1 DEF TypeInv, TypeFiles, Files, FilesSaved
  <2>3. PICK cells : cells = file[y.inode].cells
    OBVIOUS
  <2>4. PICK cs : cs = captured[y.run]
    OBVIOUS
  <2>5. PICK F : F = ShownOf(cs, Len(cs))
    OBVIOUS
  <2>6. cells \in Seq(Cell) /\ cs \in Seq(Nat)
    BY <2>1, <2>2, <2>3, <2>4 DEF TypeInv, TypeFiles, TypeHistory, FileOf
  <2>7. Holds(cells, F) /\ KeyFirst(cells)
    BY <2>1, <2>3, <2>4, <2>5 DEF Contents, SavedWell
  <2>8. F = [k \in DOMAIN captured[y.run] |-> Content(captured[y.run][k])]
    <3>1. DOMAIN cs = 1 .. Len(cs)
      BY <2>6, LenProperties
    <3> QED BY <3>1, <2>4, <2>5 DEF ShownOf
  <2>9. ASSUME Readable(y.inode)
        PROVE  PlayedBack(y.inode).err = "ok" /\ PlayedBack(y.inode).frames = F
    <3>1. cells # <<>> /\ cells[1] # EVENT /\ Len(cells) < MaxBody
      BY <2>3, <2>9 DEF Readable
    <3>2. Len(cells) # 0
      BY <2>6, <3>1, EmptySeq
    <3>3. cells[1] = KEYFRAME
      BY <2>7, <3>1, <3>2 DEF KeyFirst
    <3>4. PICK body :
            /\ Compress([header |-> "ok", cells |-> cells]) = [err |-> "ok", krpz |-> body]
            /\ Shows(Parse(body), F, EventsOf(cells))
      BY <2>6, <2>7, <3>1, <3>2, <3>3, PlaysBack
    <3>5. Raw(y.inode) = [header |-> "ok", cells |-> cells]
      BY <2>3 DEF Raw
    <3>6. PlayedBack(y.inode) = Parse(body)
      <4>1. Compress(Raw(y.inode)).err = "ok" /\ Compress(Raw(y.inode)).krpz = body
        BY <3>4, <3>5
      <4> QED BY <4>1 DEF PlayedBack
    <3> QED BY <3>4, <3>6 DEF Shows
  <2> QED BY <2>2, <2>8, <2>9
<1> QED BY <1>1, AlwaysSound, PTL

(***************************************************************************)
(* The counts of a record are those of the replay's header and of the      *)
(* events in it.                                                           *)
(***************************************************************************)
THEOREM CountsAreThoseOfTheReplay == Spec => []CountsMatchReplay
<1>1. Sound => CountsMatchReplay
  <2> SUFFICES ASSUME Sound, ~refused, NEW y \in saved
               PROVE  LET f   == file[y.inode]
                          all == Split(f.cells)
                      IN
                      /\ all.err = "ok"
                      /\ y.cp = f.cp /\ y.cp = CountOf(all.records.events, "checkpoint")
                      /\ y.gc = f.gc /\ y.gc = CountOf(all.records.events, "gocheck")
    BY DEF CountsMatchReplay
  <2>1. Contents
    BY DEF Sound, Recording
  <2>2. /\ Holds(file[y.inode].cells, ShownOf(captured[y.run], Len(captured[y.run])))
        /\ file[y.inode].cp = y.cp /\ file[y.inode].gc = y.gc
        /\ Counted(EventsOf(file[y.inode].cells), y.cp, y.gc)
    BY <2>1 DEF Contents, SavedWell
  <2>3. Split(file[y.inode].cells).err = "ok"
    BY <2>2 DEF Holds
  <2> QED BY <2>2, <2>3 DEF Counted, EventsOf
<1> QED BY <1>1, AlwaysSound, PTL
=============================================================================
