------------------------------ MODULE Recorder ------------------------------
(***************************************************************************)
(* Recording of runs: the natives and hooks of kz_replay.cpp and main.cpp  *)
(* on the game thread, and kz_rp_writer_thread.                            *)
(*                                                                         *)
(* The gameplay plugin tells the module when the player in a slot starts,  *)
(* pauses, rejects or finishes a run; every call, and every frame of every *)
(* living player, becomes a signal in g_replay_writer_queue.  The writer   *)
(* thread keeps one open file per slot.  The file of an unfinished run is  *)
(* named after the player (replays/<map>/<steamid>.tmp), so that a paused  *)
(* run can be resumed from another slot; a finished one is renamed.        *)
(*                                                                         *)
(* A frame is a number, new for each frame, which stands for the bytes of  *)
(* Content; a file is the counts of its header and the cells of KrpCodec.  *)
(* One map; the disk does not fail.                                        *)
(***************************************************************************)
EXTENDS KrpCodec

CONSTANTS
  Slots,      \* indexes of g_players
  Players,    \* Steam ids
  Nobody,     \* no player
  Banned,     \* the players the server calls banned (kz_api_ban_action 3)
  RunsMax,    \* bound: how many runs are started
  Scenes      \* bounds, one of which holds for a behaviour: who plays in which
              \* slots, the capacity of g_replay_writer_queue (4096 in the code),
              \* how many frames are captured, checkpoints and gochecks made, how
              \* often a player joins, a paused run outlives its player's visit,
              \* the map changes

ASSUME RecorderAssumption ==
  /\ Nobody \notin Players
  /\ Banned \subseteq Players
  /\ RunsMax \in Nat
  /\ \A sc \in Scenes :
       /\ sc.slots \subseteq Slots
       /\ sc.players \subseteq Players
       /\ sc.frames \in 0..(2 ^ FrameSize - 1)
       /\ {sc.queueCap, sc.events, sc.joins, sc.parks, sc.maps} \subseteq Nat

VARIABLES
  \* The game thread.
  occupant,  \* occupant[s]: g_players[s].steamid_short, while connected
  noSubmit,  \* noSubmit[s]: g_players[s].no_submit
  early,     \* g_early_mapchange
  queue,     \* g_replay_writer_queue
  \* The gameplay plugin.
  phase,     \* phase[s]: "none", "running" or "paused"
  run,       \* run[s]: the number of its run, 0 for none
  parked,    \* parked[p]: the paused run p left behind, 0 for none
  \* The writer thread and its files.
  fd,        \* s_fd[s]: [inode, pos], inode 0 when closed
  path,      \* s_filepath[s]: the player the .tmp file is named after
  last,      \* s_last[s]: the last frame written, 0 for none
  keyNext,   \* s_counter[s] = 0
  cps, gcs,  \* s_checkpoints[s], s_gochecks[s]
  file,      \* file[i]: an inode's header and records
  tmp,       \* tmp[p]: the inode of p's .tmp file, 0 for none
  saved,     \* the finished replays
  \* History and bounds.
  scene,     \* the bounds of this behaviour
  runs, frames, events, joins, parks, maps,
  captured,  \* captured[r]: the frames queued while run r was running
  runner,    \* runner[r]: who started run r
  refused    \* the queue was full when a run was to be finished or rejected

player == <<occupant, noSubmit, early>>
plugin == <<phase, run, parked>>
writer == <<fd, path, last, keyNext, cps, gcs, file, tmp, saved>>
count  == <<scene, runs, frames, events, joins, parks, maps>>
vars   == <<player, queue, plugin, writer, count, captured, runner, refused>>

Closed == [inode |-> 0, pos |-> 0]

\* run: history, the run it is of.
NewFile(p, r) == [player |-> p, cp |-> 0, gc |-> 0, cells |-> <<>>, run |-> r]

Init ==
  /\ occupant = [s \in Slots |-> Nobody]
  /\ noSubmit = [s \in Slots |-> FALSE]
  /\ early = FALSE
  /\ queue = <<>>
  /\ phase = [s \in Slots |-> "none"]
  /\ run = [s \in Slots |-> 0]
  /\ parked = [p \in Players |-> 0]
  /\ fd = [s \in Slots |-> Closed]
  /\ path = [s \in Slots |-> Nobody]
  /\ last = [s \in Slots |-> 0]
  /\ keyNext = [s \in Slots |-> TRUE]
  /\ cps = [s \in Slots |-> 0]
  /\ gcs = [s \in Slots |-> 0]
  /\ file = [i \in 1..RunsMax |-> NewFile(Nobody, 0)]
  /\ tmp = [p \in Players |-> 0]
  /\ saved = {}
  /\ scene \in Scenes
  /\ runs = 0
  /\ frames = 0
  /\ events = 0
  /\ joins = 0
  /\ parks = 0
  /\ maps = 0
  /\ captured = [r \in 1..RunsMax |-> <<>>]
  /\ runner = [r \in 1..RunsMax |-> Nobody]
  /\ refused = FALSE

-----------------------------------------------------------------------------
(***************************************************************************)
(* The game thread.  A signal that does not fit is dropped, and the native *)
(* returns 0.  A signal's run is history: the run it is of, 0 for none.    *)
(***************************************************************************)
Fits == Len(queue) < scene.queueCap

Push(sig) == Fits /\ queue' = Append(queue, sig)

\* The run in progress in a slot.
Running(s) == IF phase[s] = "running" THEN run[s] ELSE 0

Absent(p) == \A s \in Slots : occupant[s] # p

\* FN_ClientPutInServer_Post: no_submit is left as the slot's last user had it.
Join(s, p) ==
  /\ s \in scene.slots
  /\ p \in scene.players
  /\ occupant[s] = Nobody
  /\ Absent(p)
  /\ joins < scene.joins
  /\ joins' = joins + 1
  /\ occupant' = [occupant EXCEPT ![s] = p]
  /\ UNCHANGED <<noSubmit, early, queue, plugin, writer, scene, runs, frames, events,
                 parks, maps, captured, runner, refused>>

\* kz_ws_ack_player_join's task, for a player who is still here.
BanAnswer(s) ==
  /\ occupant[s] \in Banned
  /\ noSubmit' = [noSubmit EXCEPT ![s] = TRUE]
  /\ UNCHANGED <<occupant, early, queue, plugin, writer, count, captured, runner,
                 refused>>

\* FN_ChangeLevel or the intermission; kz_ws_event_on_map_loaded.
LeaveMap ==
  /\ ~early
  /\ early' = TRUE
  /\ maps < scene.maps
  /\ maps' = maps + 1
  /\ UNCHANGED <<occupant, noSubmit, queue, plugin, writer, scene, runs, frames,
                 events, joins, parks, captured, runner, refused>>

EnterMap ==
  /\ early
  /\ \A s \in Slots : phase[s] = "none"
  /\ early' = FALSE
  /\ UNCHANGED <<occupant, noSubmit, queue, plugin, writer, count, captured, runner,
                 refused>>

\* KZ_SV_DropClient: during a map change the slot's data are left alone.
\* The plugin has rejected a run in progress; a paused one it may keep.
Drop(s) ==
  LET p == occupant[s] IN
  /\ p # Nobody
  /\ phase[s] # "running"
  /\ occupant' = [occupant EXCEPT ![s] = Nobody]
  /\ noSubmit' = IF early THEN noSubmit ELSE [noSubmit EXCEPT ![s] = FALSE]
  /\ \/ /\ phase[s] = "none"
        /\ UNCHANGED <<plugin, parks>>
     \/ /\ phase[s] = "paused"
        /\ parks < scene.parks
        /\ parks' = parks + 1
        /\ parked' = [parked EXCEPT ![p] = run[s]]
        /\ run' = [run EXCEPT ![s] = 0]
        /\ phase' = [phase EXCEPT ![s] = "none"]
  /\ UNCHANGED <<early, queue, writer, scene, runs, frames, events, joins, maps,
                 captured, runner, refused>>

\* kz_rp_write_frame, for every living player; whether in a run or not.
Frame(s) ==
  /\ occupant[s] # Nobody
  /\ frames < scene.frames
  /\ frames' = frames + 1
  /\ Push([type |-> "FRAME", slot |-> s, run |-> Running(s), frame |-> frames'])
  /\ captured' = IF phase[s] = "running"
                 THEN [captured EXCEPT ![run[s]] = Append(@, frames')]
                 ELSE captured
  /\ UNCHANGED <<player, plugin, writer, scene, runs, events, joins, parks, maps,
                 runner, refused>>

\* kz_rp_run_started.  A run in progress was rejected first.
RunStarted(s) ==
  /\ occupant[s] # Nobody
  /\ phase[s] = "none"
  /\ runs < RunsMax
  /\ runs' = runs + 1
  /\ Push([type |-> "START", slot |-> s, player |-> occupant[s], run |-> runs'])
  /\ phase' = [phase EXCEPT ![s] = "running"]
  /\ run' = [run EXCEPT ![s] = runs']
  /\ parked' = [parked EXCEPT ![occupant[s]] = 0]
  /\ runner' = [runner EXCEPT ![runs'] = occupant[s]]
  /\ UNCHANGED <<player, writer, scene, frames, events, joins, parks, maps,
                 captured, refused>>

RunEvent(s, ev) ==
  /\ phase[s] = "running"
  /\ events < scene.events
  /\ events' = events + 1
  /\ Push([type |-> "EVENT", slot |-> s, run |-> run[s], event |-> ev])
  /\ UNCHANGED <<player, plugin, writer, scene, runs, frames, joins, parks, maps,
                 captured, runner, refused>>

RunPaused(s) ==
  /\ phase[s] = "running"
  /\ Push([type |-> "PAUSE", slot |-> s, run |-> run[s]])
  /\ phase' = [phase EXCEPT ![s] = "paused"]
  /\ UNCHANGED <<player, run, parked, writer, count, captured, runner, refused>>

RunUnpaused(s) ==
  LET p == occupant[s] IN
  /\ p # Nobody
  /\ \/ phase[s] = "paused" /\ UNCHANGED <<run, parked>>
     \/ /\ phase[s] = "none"
        /\ parked[p] # 0
        /\ run' = [run EXCEPT ![s] = parked[p]]
        /\ parked' = [parked EXCEPT ![p] = 0]
  /\ Push([type |-> "UNPAUSE", slot |-> s, player |-> p, run |-> run'[s]])
  /\ phase' = [phase EXCEPT ![s] = "running"]
  /\ UNCHANGED <<player, writer, count, captured, runner, refused>>

\* The run is over for the plugin, whether or not the signal fits.
RunEnds(s, sig) ==
  /\ IF Fits THEN Push(sig) /\ UNCHANGED refused
             ELSE refused' = TRUE /\ UNCHANGED queue
  /\ phase' = [phase EXCEPT ![s] = "none"]
  /\ run' = [run EXCEPT ![s] = 0]
  /\ UNCHANGED <<player, parked, writer, count, captured, runner>>

RunRejected(s, delete) ==
  /\ phase[s] # "none"
  /\ RunEnds(s, [type |-> "REJECT", slot |-> s, run |-> Running(s), delete |-> delete])

RunFinished(s, submit) ==
  /\ phase[s] = "running"
  /\ RunEnds(s, [type |-> "FINISH", slot |-> s, player |-> occupant[s],
                 submit |-> submit, run |-> run[s], barred |-> noSubmit[s]])

Game ==
  \/ \E s \in Slots :
       \/ \E p \in Players : Join(s, p)
       \/ BanAnswer(s) \/ Drop(s) \/ Frame(s)
       \/ RunStarted(s) \/ RunPaused(s) \/ RunUnpaused(s)
       \/ \E ev \in {"checkpoint", "gocheck"} : RunEvent(s, ev)
       \/ \E b \in BOOLEAN : RunRejected(s, b) \/ RunFinished(s, b)
  \/ LeaveMap \/ EnterMap

-----------------------------------------------------------------------------
(***************************************************************************)
(* kz_rp_writer_thread: one case of its switch per action, for the signal  *)
(* at the front of the queue, which is popped when it has been dealt with. *)
(***************************************************************************)
TakeSignal(type) == queue # <<>> /\ Head(queue).type = type /\ queue' = Tail(queue)

UnchangedGame == UNCHANGED <<player, plugin, count, captured, runner, refused>>

IsOpen(s) == fd[s].inode # 0

\* What kz_rp_write_frame captures: the bytes of frame n, other bytes for each n.
Content(n) ==
  [c \in Columns |-> IF (n \div (2 ^ (c - 1))) % 2 = 1 THEN {0} ELSE {}]

\* The cells are written where the descriptor stands, which is the end of the
\* file unless the file is open in another slot as well.
Write(s, cells) ==
  LET i    == fd[s].inode
      old  == file[i].cells
      from == fd[s].pos
      to   == from + Len(cells)
  IN
  /\ file' = [file EXCEPT ![i].cells =
                [k \in 1..Max({Len(old), to}) |->
                   IF k \in (from + 1)..to THEN cells[k - from]
                   ELSE IF k <= Len(old) THEN old[k] ELSE {}]]
  /\ fd' = [fd EXCEPT ![s].pos = to]

\* fopen(..., "wb+"): an old .tmp file of the player is truncated.
Start ==
  LET sig == Head(queue)
      s   == sig.slot
      p   == sig.player
      i   == IF tmp[p] # 0 THEN tmp[p] ELSE sig.run
  IN
  /\ TakeSignal("START")
  /\ tmp' = [tmp EXCEPT ![p] = i]
  /\ file' = [file EXCEPT ![i] = NewFile(p, sig.run)]
  /\ fd' = [fd EXCEPT ![s] = [inode |-> i, pos |-> 0]]
  /\ path' = [path EXCEPT ![s] = p]
  /\ last' = [last EXCEPT ![s] = 0]
  /\ keyNext' = [keyNext EXCEPT ![s] = TRUE]
  /\ cps' = [cps EXCEPT ![s] = 0]
  /\ gcs' = [gcs EXCEPT ![s] = 0]
  /\ UNCHANGED saved
  /\ UnchangedGame

\* KRP_EVENT_CHECKPOINT, KRP_EVENT_GOCHECK
EventId(ev) == IF ev = "checkpoint" THEN {} ELSE {0}

\* Events are counted whether or not there is a file to write them to.
Event ==
  LET sig == Head(queue)
      s   == sig.slot
  IN
  /\ TakeSignal("EVENT")
  /\ IF IsOpen(s) THEN Write(s, EventCells(EventId(sig.event)))
                  ELSE UNCHANGED <<fd, file>>
  /\ cps' = [cps EXCEPT ![s] = IF sig.event = "checkpoint" THEN @ + 1 ELSE @]
  /\ gcs' = [gcs EXCEPT ![s] = IF sig.event = "gocheck" THEN @ + 1 ELSE @]
  /\ UNCHANGED <<path, last, keyNext, tmp, saved>>
  /\ UnchangedGame

WriteFrame ==
  LET sig == Head(queue)
      s   == sig.slot
  IN
  /\ TakeSignal("FRAME")
  /\ IF IsOpen(s)
     THEN /\ Write(s, IF keyNext[s]
                      THEN KeyFrameCells(Content(sig.frame))
                      ELSE DeltaCells(Content(sig.frame), Content(last[s])))
          /\ last' = [last EXCEPT ![s] = sig.frame]
          /\ keyNext' = [keyNext EXCEPT ![s] = FALSE]
     ELSE UNCHANGED <<fd, file, last, keyNext>>
  /\ UNCHANGED <<path, cps, gcs, tmp, saved>>
  /\ UnchangedGame

\* Mutant: the counts are not written to the header.
Pause_NoCounts ==
  LET s == Head(queue).slot IN
  /\ TakeSignal("PAUSE")
  /\ fd' = [fd EXCEPT ![s] = Closed]
  /\ UNCHANGED <<file, path, last, keyNext, cps, gcs, tmp, saved>>
  /\ UnchangedGame

Pause ==
  LET s == Head(queue).slot IN
  /\ TakeSignal("PAUSE")
  /\ IF IsOpen(s)
     THEN /\ file' = [file EXCEPT ![fd[s].inode] =
                        [@ EXCEPT !.cp = cps[s], !.gc = gcs[s]]]
          /\ fd' = [fd EXCEPT ![s] = Closed]
     ELSE UNCHANGED <<file, fd>>
  /\ UNCHANGED <<path, last, keyNext, cps, gcs, tmp, saved>>
  /\ UnchangedGame

\* Mutant: the frame after the break is a delta.
Unpause_KeepsCounter ==
  LET s == Head(queue).slot
      p == Head(queue).player
      i == tmp[p]
  IN
  /\ TakeSignal("UNPAUSE")
  /\ path' = [path EXCEPT ![s] = p]
  /\ IF i # 0
     THEN /\ fd' = [fd EXCEPT ![s] =
                      [inode |-> i, pos |-> Len(file[i].cells)]]
          /\ cps' = [cps EXCEPT ![s] = file[i].cp]
          /\ gcs' = [gcs EXCEPT ![s] = file[i].gc]
     ELSE /\ fd' = [fd EXCEPT ![s] = Closed]
          /\ UNCHANGED <<cps, gcs>>
  /\ UNCHANGED <<last, keyNext, file, tmp, saved>>
  /\ UnchangedGame

\* fopen(..., "rb+"), which fails when the player has no .tmp file; the counts
\* are those of the header.
Unpause ==
  LET s == Head(queue).slot
      p == Head(queue).player
      i == tmp[p]
  IN
  /\ TakeSignal("UNPAUSE")
  /\ path' = [path EXCEPT ![s] = p]
  /\ keyNext' = [keyNext EXCEPT ![s] = TRUE]
  /\ IF i # 0
     THEN /\ fd' = [fd EXCEPT ![s] =
                      [inode |-> i, pos |-> Len(file[i].cells)]]
          /\ cps' = [cps EXCEPT ![s] = file[i].cp]
          /\ gcs' = [gcs EXCEPT ![s] = file[i].gc]
     ELSE /\ fd' = [fd EXCEPT ![s] = Closed]
          /\ UNCHANGED <<cps, gcs>>
  /\ UNCHANGED <<last, file, tmp, saved>>
  /\ UnchangedGame

\* Mutant: the counts of a rejected run become -1 for "none".
Reject_NoCount ==
  LET sig == Head(queue)
      s   == sig.slot
  IN
  /\ TakeSignal("REJECT")
  /\ fd' = [fd EXCEPT ![s] = Closed]
  /\ tmp' = IF IsOpen(s) /\ sig.delete THEN [tmp EXCEPT ![path[s]] = 0] ELSE tmp
  /\ cps' = [cps EXCEPT ![s] = 0 - 1]
  /\ gcs' = [gcs EXCEPT ![s] = 0 - 1]
  /\ UNCHANGED <<path, last, keyNext, file, saved>>
  /\ UnchangedGame

Reject ==
  LET sig == Head(queue)
      s   == sig.slot
  IN
  /\ TakeSignal("REJECT")
  /\ fd' = [fd EXCEPT ![s] = Closed]
  /\ tmp' = IF IsOpen(s) /\ sig.delete THEN [tmp EXCEPT ![path[s]] = 0] ELSE tmp
  /\ cps' = [cps EXCEPT ![s] = 0]
  /\ gcs' = [gcs EXCEPT ![s] = 0]
  /\ UNCHANGED <<path, last, keyNext, file, saved>>
  /\ UnchangedGame

(***************************************************************************)
(* The replay is renamed, then submitted or only compressed; no_submit is  *)
(* read here, at the end of the queue, and belongs to the slot.            *)
(***************************************************************************)
Finish ==
  LET sig == Head(queue)
      s   == sig.slot
      i   == fd[s].inode
  IN
  /\ TakeSignal("FINISH")
  /\ IF IsOpen(s)
     THEN /\ file' = [file EXCEPT ![i] =
                        [@ EXCEPT !.cp = cps[s], !.gc = gcs[s]]]
          /\ tmp' = [tmp EXCEPT ![path[s]] = 0]
          /\ saved' = saved \cup
               {[inode |-> i, run |-> sig.run, player |-> sig.player,
                 cp |-> cps[s], gc |-> gcs[s], barred |-> sig.barred,
                 submit |-> sig.submit,
                 submitted |-> sig.submit /\ ~noSubmit[s]]}
          /\ fd' = [fd EXCEPT ![s] = Closed]
     ELSE UNCHANGED <<file, tmp, saved, fd>>
  /\ UNCHANGED <<path, last, keyNext, cps, gcs>>
  /\ UnchangedGame

Writer == Start \/ Event \/ WriteFrame \/ Pause \/ Unpause \/ Reject \/ Finish

Next == Game \/ Writer

Spec == Init /\ [][Next]_vars

-----------------------------------------------------------------------------
\* Every variable has its type.
TypeOK ==
  /\ occupant \in [Slots -> Players \cup {Nobody}]
  /\ noSubmit \in [Slots -> BOOLEAN]
  /\ early \in BOOLEAN
  /\ \A i \in DOMAIN queue : queue[i].slot \in Slots
  /\ phase \in [Slots -> {"none", "running", "paused"}]
  /\ run \in [Slots -> 0..RunsMax]
  /\ parked \in [Players -> 0..RunsMax]
  /\ fd \in [Slots -> [inode : 0..RunsMax, pos : Nat]]
  /\ path \in [Slots -> Players \cup {Nobody}]
  /\ last \in [Slots -> 0..scene.frames]
  /\ keyNext \in [Slots -> BOOLEAN]
  /\ cps \in [Slots -> Nat]
  /\ gcs \in [Slots -> Nat]
  /\ tmp \in [Players -> 0..RunsMax]
  /\ \A i \in 1..RunsMax : /\ file[i].cp \in Nat
                           /\ file[i].gc \in Nat
                           /\ file[i].player \in Players \cup {Nobody}
  /\ \A r \in saved : r.inode \in 1..RunsMax /\ r.run \in 1..RunsMax

Raw(i) == [header |-> "ok", cells |-> file[i].cells]

\* The upload thread compresses the replay, and a server's bot parses it.
PlayedBack(i) ==
  LET krpz == Compress(Raw(i))
  IN  IF krpz.err # "ok" THEN krpz ELSE Parse(krpz.krpz)

\* A reader refuses a replay without frames, one that begins with an event, and
\* one that is too long.
Readable(i) ==
  LET cells == file[i].cells
  IN  cells # <<>> /\ cells[1] # EVENT /\ Len(cells) < MaxBody

(***************************************************************************)
(* A replay is one run: what a bot is given of a saved replay, encoded,    *)
(* compressed, decompressed and decoded, is exactly the frames queued while*)
(* its run was running, in order: none of another run or player, none from *)
(* a pause, none twice, none with a wrong byte, although the file is       *)
(* closed, reopened from another slot and truncated in between, and its    *)
(* deltas need the frame before them.  (Unless the queue was full when a   *)
(* run was to end, which leaves its file open; an event came first; or the *)
(* replay is longer than what a reader accepts.)                           *)
(***************************************************************************)
OneRunPerReplay ==
  refused \/ \A r \in saved :
    /\ Readable(r.inode) =>
         LET shown == PlayedBack(r.inode)
         IN  /\ shown.err = "ok"
             /\ shown.frames = [k \in DOMAIN captured[r.run] |->
                                  Content(captured[r.run][k])]
    /\ file[r.inode].player = r.player

CountOf(ids, ev) == Cardinality({k \in DOMAIN ids : ids[k] = EventId(ev)})

(***************************************************************************)
(* docs/server-integration.md: the counts sent with a record are checked   *)
(* against the replay.  So the counts of a record are those of its header, *)
(* and of the events in its file, over pauses and changes of slot.         *)
(***************************************************************************)
CountsMatchReplay ==
  refused \/ \A r \in saved :
    LET f   == file[r.inode]
        all == Split(f.cells)
    IN
    /\ all.err = "ok"
    /\ r.cp = f.cp /\ r.cp = CountOf(all.records.events, "checkpoint")
    /\ r.gc = f.gc /\ r.gc = CountOf(all.records.events, "gocheck")

(***************************************************************************)
(* kz_global_api.inc: "Runs from players with submission disabled are      *)
(* never submitted": not if it was disabled when the run was finished.     *)
(***************************************************************************)
BarredNeverSubmitted ==
  \A r \in saved : r.barred => ~r.submitted

(***************************************************************************)
(* kz_global_api.inc: with submit_run true, "submit the run and its replay *)
(* to the API": the finished run of a player who is not banned is.         *)
(***************************************************************************)
CleanRunsAreSubmitted ==
  \A r \in saved : r.submit /\ r.player \notin Banned => r.submitted
=============================================================================
