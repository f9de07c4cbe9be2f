---------------------------- MODULE ReplayFiles ----------------------------
(***************************************************************************)
(* The compressed replays in the folder of one map: which of them is the   *)
(* best (kz_replay_uid.cpp) and which are pruned (kz_rp_prune_replays of   *)
(* kz_replay.cpp).                                                         *)
(*                                                                         *)
(* A name is <head>_<time, padded to eight digits>_<steamid>_<start>.krpz. *)
(* The best replay is found by the numbers in the name, the replays to     *)
(* prune by the order of the names as strings.                             *)
(*                                                                         *)
(* Two threads prune: the game thread when the map is loaded and when it   *)
(* is left, and the WebSocket thread after an upload.  A prune lists the   *)
(* folder, then looks at g_early_mapchange, then removes one file after    *)
(* the other; meanwhile other threads add files, and the game thread       *)
(* deletes records.                                                        *)
(***************************************************************************)
EXTENDS Integers, FiniteSets

CONSTANTS
  Names,       \* the names of the replays: records [head, time, tail]
  Limit,       \* the first time with more than eight digits (10^8 in the code)
  Max,         \* kz_api_replays_max
  Triggers,    \* is kz_api_replays_prune_trigger set? (it may change)
  Game, Ws     \* the two threads that prune

ASSUME ReplayFilesAssumption ==
  /\ Names \subseteq [head : Nat, time : Nat, tail : Nat]
  /\ IsFiniteSet(Names)
  /\ Limit \in Nat
  /\ Max \in Int
  /\ Triggers \subseteq BOOLEAN /\ Triggers # {}
  /\ Game # Ws

VARIABLES
  folder,    \* the .krpz files of the map
  seen,      \* every replay that was ever in the folder
  early,     \* g_early_mapchange
  prune,     \* prune[t]: [step, left], the prune thread t is in
  (* History, read by the properties only. *)
  unlisted,  \* the files added since the last map change of this map
  removed    \* removed[t]: were records deleted since thread t listed it, or
             \* since the other thread did, which was still pruning then?

fvars == <<folder, seen, early, prune, unlisted, removed>>

Pruners == {Game, Ws}

NoPrune == [step |-> "none", left |-> {}]

-----------------------------------------------------------------------------
(* The name as numbers.                                                    *)

Zero  == 48   \* the characters '0', '9' and 'x'
Nine  == 57
Small == 120

\* kz_replay_parse_uid: one decimal digit, or the name has no class.
Parsed(f) == f.head \in Zero .. Nine

ClassOf(f) == f.head - Zero

IsBetter(f, g) ==
  \/ ClassOf(f) < ClassOf(g)
  \/ ClassOf(f) = ClassOf(g) /\ f.time < g.time

\* kz_replay_find_best_in_dir, whichever of two equal files comes first.
FindBest(files) ==
  {f \in files : Parsed(f) /\ ~ \E g \in files : Parsed(g) /\ IsBetter(g, f)}

(***************************************************************************)
(* The name as a string.  A time of nine digits is compared digit by digit *)
(* with one of eight; where the shorter one ends there is a '_', which is  *)
(* greater than any digit.  Stretch(t) is the greatest time of ten digits  *)
(* that begins with the digits of t.                                       *)
(***************************************************************************)
Stretch(t) ==
  IF t < Limit THEN 100 * t + 99
  ELSE IF t < 10 * Limit THEN 10 * t + 9 ELSE t

TimeLess(s, t) ==
  \/ Stretch(s) < Stretch(t)
  \/ Stretch(s) = Stretch(t) /\ s > t

NameLess(f, g) ==
  \/ f.head < g.head
  \/ f.head = g.head /\ TimeLess(f.time, g.time)
  \/ f.head = g.head /\ f.time = g.time /\ f.tail < g.tail

\* Mutants: the list is cut one file too early, or one too late.
Surplus_Early(files) ==
  {f \in files : Cardinality({g \in files : NameLess(g, f)}) >= Max - 1}

Surplus_Late(files) ==
  {f \in files : Cardinality({g \in files : NameLess(g, f)}) > Max}

\* The files from position Max on of the sorted list.
Surplus(files) == {f \in files : Cardinality({g \in files : NameLess(g, f)}) >= Max}

-----------------------------------------------------------------------------
FilesInit ==
  /\ folder = {}
  /\ seen = {}
  /\ early = FALSE
  /\ prune = [t \in Pruners |-> NoPrune]
  /\ unlisted = {}
  /\ removed = [t \in Pruners |-> FALSE]

\* A thread enters kz_rp_prune_replays with the folder as it is.
List(t, files) ==
  /\ prune' = [prune EXCEPT ![t] =
       IF Max < 0 \/ Cardinality(files) <= Max
         THEN NoPrune ELSE [step |-> "sort", left |-> Surplus(files)]]
  /\ removed' = [removed EXCEPT ![t] =
       \E o \in Pruners \ {t} : prune[o] # NoPrune /\ removed[o]]

Add(f) ==
  /\ f \in Names \ seen
  /\ folder' = folder \cup {f}
  /\ seen' = seen \cup {f}

\* A confirmed upload: the replay is moved into the folder, which is pruned.
FileAck(f) ==
  /\ prune[Ws] = NoPrune
  /\ f.head # Small
  /\ Add(f)
  /\ List(Ws, folder')
  /\ unlisted' = unlisted \cup {f}
  /\ UNCHANGED early

\* A replay that is not submitted, put there by the compress thread, or one
\* that was downloaded.
Arrive(f) ==
  /\ Add(f)
  /\ unlisted' = unlisted \cup {f}
  /\ UNCHANGED <<early, prune, removed>>

\* The server, or a plugin, deletes a record.
DeleteReplay(f) ==
  /\ prune[Game] = NoPrune
  /\ f \in folder
  /\ folder' = folder \ {f}
  /\ removed' = [t \in Pruners |-> TRUE]
  /\ UNCHANGED <<seen, early, prune, unlisted>>

\* FN_ChangeLevel, and FN_MessageBegin of the intermission.
ChangeLevel ==
  /\ prune[Game] = NoPrune
  /\ early' = TRUE
  /\ List(Game, folder)
  /\ unlisted' = {}
  /\ UNCHANGED <<folder, seen>>

\* kz_ws_on_map_loaded, and kz_rp_update_header in it: the map is played.
MapLoaded ==
  /\ prune[Game] = NoPrune
  /\ early' = FALSE
  /\ List(Game, folder)
  /\ UNCHANGED <<folder, seen, unlisted>>

\* Another map is loaded, or left, and the folder of that map is pruned.
OtherMap ==
  /\ prune[Game] = NoPrune
  /\ early' \in BOOLEAN
  /\ UNCHANGED <<folder, seen, prune, unlisted, removed>>

\* The list is sorted; it is pruned now unless that waits for the map change.
Decide(t) ==
  /\ prune[t].step = "sort"
  /\ \E waits \in Triggers :
       prune' = [prune EXCEPT ![t] =
         IF ~ waits \/ early THEN [step |-> "remove", left |-> @.left] ELSE NoPrune]
  /\ UNCHANGED <<folder, seen, early, unlisted, removed>>

\* std::filesystem::remove of one file, the better ones first.
Remove(t) ==
  /\ prune[t].step = "remove"
  /\ \E f \in prune[t].left :
       /\ \A g \in prune[t].left : ~ NameLess(g, f)
       /\ folder' = folder \ {f}
       /\ prune' = [prune EXCEPT ![t] =
            IF @.left = {f} THEN NoPrune
            ELSE [step |-> "remove", left |-> @.left \ {f}]]
  /\ UNCHANGED <<seen, early, unlisted, removed>>

FilesNext ==
  \/ \E f \in Names : FileAck(f) \/ Arrive(f) \/ DeleteReplay(f)
  \/ ChangeLevel
  \/ MapLoaded
  \/ OtherMap
  \/ \E t \in Pruners : Decide(t) \/ Remove(t)

FilesSpec == FilesInit /\ [][FilesNext]_fvars

-----------------------------------------------------------------------------
\* The types; what the folder holds has been announced (in `seen`).
FilesTypeOK ==
  /\ folder \subseteq seen
  /\ seen \subseteq Names
  /\ early \in BOOLEAN
  /\ prune \in [Pruners -> [step : {"none", "sort", "remove"}, left : SUBSET Names]]
  /\ unlisted \subseteq seen
  /\ removed \in [Pruners -> BOOLEAN]

Ranked(f, g) == Parsed(f) /\ (Parsed(g) => IsBetter(f, g))

\* Pruning and selection agree ("Selection and pruning both rely on this
\* ordering", docs/replay-format.md:124): when a thread prunes a file, Max
\* files that are no worse are in the folder, even if the other thread prunes
\* at the same time and replays arrive; only a record deleted since one of
\* them listed the folder may leave fewer.  A prune that trusted the wrong order
\* would delete the server record of the map.
PruneKeepsTheBest ==
  \A t \in Pruners : \A f \in prune[t].left :
    /\ f \in folder
    /\ ~ removed[t]
    => Cardinality({g \in folder \ {f} : ~ Ranked(f, g)}) >= Max

\* "Keep only the best N replays per map folder" (addons/amxmodx/configs/
\* kz_global.cfg:31): when the game thread is not pruning, only files that have
\* arrived since the last map change of the map exceed the limit, whatever
\* g_early_mapchange, which another map may set, made the two threads decide.
FolderIsBounded ==
  prune[Game] = NoPrune /\ Max >= 0 => Cardinality(folder \ unlisted) <= Max

\* test/replay_uid_test.cpp:39 expects that a name of a class other than 0
\* and 1 is refused, so such a file is never the best of the map.
BestIsProOrNub == \A f \in FindBest(folder) : ClassOf(f) \in {0, 1}
=============================================================================
