------------------------------ MODULE Workers -------------------------------
(***************************************************************************)
(* The three threads of kz_replay.cpp and how they sleep, wake up and end: *)
(* the writer takes the run signals and frames of the game thread, the     *)
(* upload thread its uploads, and the compress thread the local runs that  *)
(* the writer has finished.  Each loops                                    *)
(*                                                                         *)
(*   while (g_krp_running || !queue.empty()) {                             *)
(*     while (front()) { work; pop(); }                                    *)
(*     lock; cv.wait(lock, [] { return !queue.empty() || !running; });     *)
(*   }                                                                     *)
(*                                                                         *)
(* and a producer pushes and calls notify_one WITHOUT the mutex: between   *)
(* the moment a thread has found its predicate false and the moment it     *)
(* sleeps, a notification is lost.  Only the compress thread waits at most *)
(* a second.                                                               *)
(*                                                                         *)
(* What a thread has to say goes into a log queue of its own, which the    *)
(* game thread empties once per frame; kz_log tries until there is room.   *)
(* FN_GameShutdown empties the queues once; then kz_rp_uninit joins.       *)
(***************************************************************************)
EXTENDS Naturals, Sequences

CONSTANTS
  Runs,        \* runs that end with a replay that stays on this server
  Cap,         \* Cap[w]: capacity of a thread's queue
  LogCap,      \* lines a thread's log queue holds
  Timed,       \* the threads whose wait is bounded: wait_for
  Faulty,      \* runs whose replay turns out not to be archivable
  FramesMax,   \* bound: frames pushed
  UploadsMax   \* bound: uploads pushed

Thread == {"writer", "upload", "compress"}

ASSUME WorkersAssumption ==
  /\ Cap \in [Thread -> Nat \ {0}]
  /\ LogCap \in Nat \ {0}
  /\ Timed \subseteq Thread
  /\ FramesMax \in Nat
  /\ UploadsMax \in Nat
  /\ Runs \cap {"frame", "upload"} = {}
  /\ Faulty \subseteq Runs

VARIABLES
  queue,    \* queue[w]: what thread w has to do
  at,       \* at[w]: where its loop is
  log,      \* log[w]: how many lines are in its log queue
  running,  \* g_krp_running
  game,     \* the game thread: "frame", and "notify", "join" of kz_rp_uninit
  owed,     \* the thread the game thread is about to notify
  frames, uploads,  \* counters of the bounded events
  (* History, read by the properties only. *)
  signalled,  \* runs whose FINISH signal was pushed
  saved,      \* runs whose raw replay the writer has renamed into replays/
  refused,    \* runs whose job found g_replay_compress_queue full
  archived,   \* runs whose compressed replay is in the map's folder
  leftRaw     \* runs whose replay the compress thread could not archive

hist == <<signalled, saved, refused, archived, leftRaw>>
vars == <<queue, at, log, running, game, owed, frames, uploads, hist>>

Init ==
  /\ queue = [w \in Thread |-> <<>>]
  /\ at = [w \in Thread |-> "front"]
  /\ log = [w \in Thread |-> 0]
  /\ running = TRUE
  /\ game = "frame"
  /\ owed = "none"
  /\ frames = 0
  /\ uploads = 0
  /\ signalled = {}
  /\ saved = {}
  /\ refused = {}
  /\ archived = {}
  /\ leftRaw = {}

Push(w, job) ==
  /\ Len(queue[w]) < Cap[w]
  /\ queue' = [queue EXCEPT ![w] = Append(@, job)]

\* notify_one, notify_all: a thread that sleeps looks at its predicate again.
Woken(W) == [w \in Thread |-> IF w \in W /\ at[w] = "asleep" THEN "check"
                                                             ELSE at[w]]

-----------------------------------------------------------------------------
(***************************************************************************)
(* The game thread pushes a frame or an upload, then notifies the thread.  *)
(***************************************************************************)
GamePush(w, job) ==
  /\ game = "frame"
  /\ owed = "none"
  /\ Push(w, job)
  /\ owed' = w

PushFrame ==
  /\ frames < FramesMax
  /\ frames' = frames + 1
  /\ GamePush("writer", "frame")
  /\ UNCHANGED <<at, log, running, game, uploads, hist>>

PushUpload ==
  /\ uploads < UploadsMax
  /\ uploads' = uploads + 1
  /\ GamePush("upload", "upload")
  /\ UNCHANGED <<at, log, running, game, frames, hist>>

GameNotify ==
  /\ owed # "none"
  /\ at' = Woken({owed})
  /\ owed' = "none"
  /\ UNCHANGED <<queue, log, running, game, frames, uploads, hist>>

\* kz_rp_run_finished, like all run signals, leaves waking the writer to the
\* frames.
PushFinish(r) ==
  /\ game = "frame"
  /\ owed = "none"
  /\ r \notin signalled
  /\ Push("writer", r)
  /\ signalled' = signalled \cup {r}
  /\ UNCHANGED <<at, log, running, game, owed, frames, uploads, saved, refused,
                 archived, leftRaw>>

(***************************************************************************)
(* FN_StartFrame writes the lines of the log queues to the log, one after  *)
(* the other.                                                              *)
(***************************************************************************)
Flush(w) ==
  /\ game = "frame"
  /\ log[w] > 0
  /\ log' = [log EXCEPT ![w] = @ - 1]
  /\ UNCHANGED <<queue, at, running, game, owed, frames, uploads, hist>>

(***************************************************************************)
(* FN_GameShutdown: write all lines there are, then kz_rp_uninit: clear    *)
(* g_krp_running, notify all three threads, join them.                     *)
(***************************************************************************)
Stop ==
  /\ game = "frame"
  /\ owed = "none"
  /\ log' = [w \in Thread |-> 0]
  /\ running' = FALSE
  /\ game' = "notify"
  /\ UNCHANGED <<queue, at, owed, frames, uploads, hist>>

\* Mutant: the upload thread is not told.
NotifyAll_NotUpload ==
  /\ game = "notify"
  /\ at' = Woken(Thread \ {"upload"})
  /\ game' = "join"
  /\ UNCHANGED <<queue, log, running, owed, frames, uploads, hist>>

NotifyAll ==
  /\ game = "notify"
  /\ at' = Woken(Thread)
  /\ game' = "join"
  /\ UNCHANGED <<queue, log, running, owed, frames, uploads, hist>>

Join ==
  /\ game = "join"
  /\ \A w \in Thread : at[w] = "done"
  /\ game' = "gone"
  /\ UNCHANGED <<queue, at, log, running, owed, frames, uploads, hist>>

-----------------------------------------------------------------------------
(***************************************************************************)
(* The loops.                                                              *)
(***************************************************************************)
Go(w, from, to) ==
  /\ at[w] = from
  /\ at' = [at EXCEPT ![w] = to]

rest == <<running, game, owed, frames, uploads>>

\* The inner loop ends when the queue is empty.
Drained(w) ==
  /\ queue[w] = <<>>
  /\ Go(w, "front", "check")
  /\ UNCHANGED <<queue, log, rest, hist>>

\* The predicate of the condition variable and, right behind it, the condition
\* of the outer loop: to go on, to end or to sleep.
\* Mutant: the outer loop does not look at what is left in the queue.
Check_RunningOnly(w) ==
  /\ \/ queue[w] # <<>> /\ running /\ Go(w, "check", "front")
     \/ ~running /\ Go(w, "check", "done")
     \/ queue[w] = <<>> /\ running /\ Go(w, "check", "about")
  /\ UNCHANGED <<queue, log, rest, hist>>

Check(w) ==
  /\ \/ queue[w] # <<>> /\ Go(w, "check", "front")
     \/ queue[w] = <<>> /\ ~running /\ Go(w, "check", "done")
     \/ queue[w] = <<>> /\ running /\ Go(w, "check", "about")
  /\ UNCHANGED <<queue, log, rest, hist>>

Sleep(w) ==
  /\ Go(w, "about", "asleep")
  /\ UNCHANGED <<queue, log, rest, hist>>

\* wait_for: after a second the thread goes on, notified or not.
\* Mutant: wait, as in the two other threads.
Timeout_Never(w) ==
  /\ w \notin Timed
  /\ w \in Timed
  /\ Go(w, "asleep", "check")
  /\ UNCHANGED <<queue, log, rest, hist>>

Timeout(w) ==
  /\ w \in Timed
  /\ Go(w, "asleep", "check")
  /\ UNCHANGED <<queue, log, rest, hist>>

\* A condition variable may wake a thread for no reason.
Spurious(w) ==
  /\ Go(w, "asleep", "check")
  /\ UNCHANGED <<queue, log, rest, hist>>

Pop(w) == queue' = [queue EXCEPT ![w] = Tail(@)]

(***************************************************************************)
(* The writer writes a frame, the upload thread sends a file, and takes    *)
(* the job off the queue; an upload is logged if kz_api_log_upload is set. *)
(***************************************************************************)
Do(w) ==
  /\ at[w] = "front"
  /\ queue[w] # <<>>
  /\ Head(queue[w]) \notin Runs
  /\ Pop(w)
  /\ UNCHANGED <<at, log, rest, hist>>

LogUpload ==
  /\ queue["upload"] # <<>>
  /\ Go("upload", "front", "logging")
  /\ UNCHANGED <<queue, log, rest, hist>>

\* kz_log of a thread that is not the game thread: without room it yields and
\* tries again.
WriteLog(w) ==
  /\ log[w] < LogCap
  /\ log' = [log EXCEPT ![w] = @ + 1]
  /\ Go(w, "logging", "logged")
  /\ UNCHANGED <<queue, rest, hist>>

EndUpload ==
  /\ Go("upload", "logged", "front")
  /\ Pop("upload")
  /\ UNCHANGED <<log, rest, hist>>

(***************************************************************************)
(* KRP_SIGNAL_FINISH of a run that is not submitted: the replay is         *)
(* renamed, which is logged, and handed to the compress thread, if there   *)
(* is room.                                                                *)
(***************************************************************************)
FinishRun(r) ==
  /\ queue["writer"] # <<>>
  /\ Head(queue["writer"]) = r
  /\ saved' = saved \cup {r}
  /\ Go("writer", "front", "logging")
  /\ UNCHANGED <<queue, log, rest, signalled, refused, archived, leftRaw>>

HandOver(r) ==
  /\ Go("writer", "logged", "notify")
  /\ Head(queue["writer"]) = r
  /\ \/ Push("compress", r) /\ UNCHANGED refused
     \/ /\ Len(queue["compress"]) >= Cap["compress"]
        /\ refused' = refused \cup {r}
        /\ UNCHANGED queue
  /\ UNCHANGED <<log, rest, signalled, saved, archived, leftRaw>>

FinishNotify ==
  /\ at["writer"] = "notify"
  /\ at' = [Woken({"compress"}) EXCEPT !["writer"] = "front"]
  /\ Pop("writer")
  /\ UNCHANGED <<log, rest, hist>>

(***************************************************************************)
(* The compress thread takes a job off the queue before it works on it: it *)
(* compresses the replay, moves the result to its map's folder and removes *)
(* the raw file.                                                           *)
(***************************************************************************)
TakeJob(r) ==
  /\ queue["compress"] # <<>>
  /\ Head(queue["compress"]) = r
  /\ Pop("compress")

Archive(r) ==
  /\ r \notin Faulty
  /\ at["compress"] = "front"
  /\ TakeJob(r)
  /\ archived' = archived \cup {r}
  /\ UNCHANGED <<at, log, rest, signalled, saved, refused, leftRaw>>

\* A file that cannot be read, compressed, opened again or moved, or whose
\* header names no map, is logged and left as it is: nobody tries again.  An
\* error of the codec is logged twice, first into the upload thread's queue.
ArchiveFails(r) ==
  /\ r \in Faulty
  /\ \E to \in {"erring", "logging"} : Go("compress", "front", to)
  /\ TakeJob(r)
  /\ leftRaw' = leftRaw \cup {r}
  /\ UNCHANGED <<log, rest, signalled, saved, refused, archived>>

WriteError ==
  /\ log["upload"] < LogCap
  /\ log' = [log EXCEPT !["upload"] = @ + 1]
  /\ Go("compress", "erring", "logging")
  /\ UNCHANGED <<queue, rest, hist>>

WriteFailure ==
  /\ log["compress"] < LogCap
  /\ log' = [log EXCEPT !["compress"] = @ + 1]
  /\ Go("compress", "logging", "front")
  /\ UNCHANGED <<queue, rest, hist>>

Loop(w) == Drained(w) \/ Check(w) \/ Sleep(w)

Work(w) ==
  \/ w \in {"writer", "upload"} /\ (Do(w) \/ WriteLog(w))
  \/ w = "upload" /\ (LogUpload \/ EndUpload)
  \/ /\ w = "writer"
     /\ (\E r \in Runs : FinishRun(r) \/ HandOver(r)) \/ FinishNotify
  \/ /\ w = "compress"
     /\ (\E r \in Runs : Archive(r) \/ ArchiveFails(r)) \/ WriteError \/ WriteFailure

Next ==
  \/ PushFrame \/ PushUpload \/ GameNotify
  \/ \E r \in Runs : PushFinish(r)
  \/ Stop \/ NotifyAll \/ Join
  \/ \E w \in Thread : Loop(w) \/ Work(w) \/ Timeout(w) \/ Spurious(w) \/ Flush(w)

Spec == Init /\ [][Next]_vars

(***************************************************************************)
(* Fairness: every thread gets the processor, a second passes, and while   *)
(* the server runs it runs frames, so the logs are written.  Nobody        *)
(* promises that a frame of a living player, an upload, a spurious wake-up *)
(* or a shutdown will come.                                                *)
(***************************************************************************)
Fairness ==
  /\ \A w \in Thread : WF_vars(Loop(w) \/ Work(w))
  /\ WF_vars(\E w \in Thread : Flush(w))
  /\ \A w \in Timed : WF_vars(Timeout(w))
  /\ WF_vars(GameNotify \/ NotifyAll \/ Join)

FairSpec == Spec /\ Fairness

-----------------------------------------------------------------------------
Job == Runs \cup {"frame", "upload"}

\* Where a thread's loop can be.
Place == {"front", "erring", "logging", "logged", "notify", "check", "about",
          "asleep", "done"}

\* Every variable has its type.
TypeOK ==
  /\ queue \in [Thread -> Seq(Job)]
  /\ \A w \in Thread : Len(queue[w]) <= Cap[w]
  /\ at \in [Thread -> Place]
  /\ log \in [Thread -> 0 .. LogCap]
  /\ running \in BOOLEAN
  /\ game \in {"frame", "notify", "join", "gone"}
  /\ owed \in Thread \cup {"none"}
  /\ frames \in Nat
  /\ uploads \in Nat
  /\ signalled \subseteq Runs
  /\ saved \subseteq Runs
  /\ refused \subseteq Runs
  /\ archived \subseteq Runs
  /\ leftRaw \subseteq Runs

\* The jobs in a thread's queue.
Queued(w) == {queue[w][i] : i \in DOMAIN queue[w]}

(***************************************************************************)
(* The shutdown waits for the work: when kz_rp_uninit returns, every run   *)
(* that was finished has its replay on disk and every upload was taken off *)
(* its queue, sent or not, although the threads only look at g_krp_running *)
(* now and then.                                                           *)
(***************************************************************************)
NothingLeftBehind ==
  game = "gone" =>
    signalled = saved /\ queue["writer"] = <<>> /\ queue["upload"] = <<>>

(***************************************************************************)
(* The writer pushes for the compress thread when that sleeps, or when it  *)
(* is just about to, or waits for room in a log: while the server runs,    *)
(* the replay is archived all the same, unless that fails for the file.    *)
(***************************************************************************)
LocalRunsAreArchived ==
  \A r \in Runs :
    r \in Queued("compress") ~> r \in archived \cup leftRaw \/ ~running

\* The thread tries to log and the queue it logs into is full.
NoRoomToLog(w) ==
  \/ at[w] = "logging" /\ log[w] = LogCap
  \/ at[w] = "erring" /\ log["upload"] = LogCap

(***************************************************************************)
(* A shutdown ends: kz_rp_uninit, which notifies without the mutexes and   *)
(* then joins, comes to its end although the threads are anywhere in their *)
(* loops, with two exceptions.  A thread without a time limit that has     *)
(* looked at its predicate, and is not asleep yet when g_krp_running is    *)
(* cleared, may miss the notification; and a thread that finds a log queue *)
(* full after the last flush tries for ever.                               *)
(***************************************************************************)
ShutdownEnds ==
  game = "notify" /\ (\A w \in Thread \ Timed : at[w] # "about") ~>
    game = "gone" \/ \E w \in Thread : NoRoomToLog(w)

(***************************************************************************)
(* kz_global_api.inc, kz_api_run_finished with submit_run false: "it is    *)
(* compressed and stored in the map's replay folder".  When the process    *)
(* ends that has happened, unless the queue was full or a file failed.     *)
(***************************************************************************)
LastRunsAreArchived ==
  game = "gone" => saved \subseteq archived \cup refused \cup leftRaw

(***************************************************************************)
(* kz_global_api.inc, kz_api_run_finished: "Notifies the API that a run    *)
(* has been successfully completed".  While the server runs, a signal that *)
(* was taken is handled.                                                   *)
(***************************************************************************)
FinishesAreHandled ==
  \A r \in Runs : r \in signalled ~> r \in saved \/ ~running

(***************************************************************************)
(* docs/replay-format.md: "if a queued file is already .krpz it is         *)
(* uploaded as-is, otherwise the .krpr is reorganized and compressed       *)
(* first".  While the server runs, a file that is queued is uploaded.      *)
(***************************************************************************)
QueuedFilesAreUploaded ==
  queue["upload"] # <<>> ~> queue["upload"] = <<>> \/ ~running
=============================================================================
