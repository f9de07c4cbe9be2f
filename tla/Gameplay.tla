------------------------------ MODULE Gameplay ------------------------------
(***************************************************************************)
(* The KZ gameplay of kz_base: checkpoints (kz_base.cpp) and the           *)
(* multi-player bhop blocks (kz_mpbhop.cpp), which let a player touch a    *)
(* block only for a moment and then throw him back.                        *)
(*                                                                         *)
(* All of it runs on the game thread, between steps of the engine: a       *)
(* command, PlayerPreThink at the start of a player's move, DispatchTouch  *)
(* for whatever he touched in it.  The engine moves the player, and may    *)
(* put him anywhere.  Where he stands is known to kz_base only through the *)
(* ground entity of his last move and the flags its hooks kept.            *)
(*                                                                         *)
(* View angles, gravity, speed and sounds are left out, and so is          *)
(* g_onground, which only decides when angles and gravity are saved.  The  *)
(* timer of kz_player_t is never started or paused by any code of the      *)
(* repository: the second ring, of a paused run, is left out too.          *)
(***************************************************************************)
EXTENDS BhopBlocks, Integers

CONSTANTS
  Players,         \* the slots
  Maps,
  Entities,        \* the entities of each map
  Places,          \* where a player can be
  ZeroVector,      \* the place (0, 0, 0)
  Under,           \* Under[m][l]: the entity under place l of map m, or one
  Air, Ladder,     \*   of these two; entity 0 is the world
  Nowhere,         \* not a place
  Moving,          \* Moving[m]: the entities of m that move
  LowPlaces,       \* places where a player can only duck
  Functions,       \* the functions kz_base asks kz_global_api for,
  Exported,        \*   and those it exports
  KZ_MAX_CHECKPOINT_CACHE,
  Short, Long,     \* 0.25 s and 0.92 s
  MaxLag,          \* the longest time between two moves of a player
  MaxTime,         \* bounds for TLC: how long a map lasts,
  MaxCheckpoints,  \*   and how often the player of a slot saves
  MaxTeleports     \*   and uses a checkpoint

ASSUME GameplayAssumption ==
  /\ \A m \in Maps : Entities[m] \in Seq(Entity)
  /\ ZeroVector \in Places /\ Nowhere \notin Places
  /\ Air \notin Nat /\ Ladder \notin Nat /\ Air # Ladder
  /\ Under \in [Maps -> [Places -> Nat \cup {Air, Ladder}]]
  /\ KZ_MAX_CHECKPOINT_CACHE \in Nat \ {0}
  /\ Short \in Nat /\ Long \in Nat /\ MaxLag \in Nat
  /\ MaxTime \in Nat /\ MaxCheckpoints \in Nat /\ MaxTeleports \in Nat

\* A player whose moves come further apart can pass over the time in which a
\* block throws him.
ASSUME LagAssumption == MaxLag <= Long - Short

VARIABLES
  map, time,    \* the map and gpGlobals->time
  api,          \* g_api_initialized
  g_blocks,     \* the entities that are blocks
  engine,       \* engine[p], what the engine knows of p:
                \*   state "out", "dead" or "alive"; at, his origin;
                \*   ground, his ground entity, Air or Ladder
  move,         \* the move under way: [step, who, touched]
  bhop,         \* bhop[p], what kz_mpbhop.cpp knows of p: [teleported, frozen,
                \*   block_touch, first_touch, origin]
  kz,           \* kz[p], his kz_player_t: [checkpoints, cp_index, cp_count, tp_count]
  reported,     \* reported[p]: the checkpoints the recorder was told of
  (* History, read by the properties only. *)
  moved,        \* moved[p]: when p's last move came to its end
  since,        \* since[p]: when p came to rest on his block, or was thrown;
                \*   0 when he is on none
  stood,        \* stood[p]: where p stood last since he joined
  latest,       \* latest[p]: the last checkpoint of slot p
  own,          \* own[p]: it was saved since p joined
  guest         \* guest[p]: p has used a checkpoint that was not

vars == <<map, time, api, g_blocks, engine, move, bhop, kz, reported,
          moved, since, stood, latest, own, guest>>

Ring == 0 .. KZ_MAX_CHECKPOINT_CACHE - 1

NoMove == [step |-> "none", who |-> {}, touched |-> {}]

NewPlayer ==
  [checkpoints |-> [i \in Ring |-> ZeroVector],
   cp_index |-> 0, cp_count |-> 0, tp_count |-> 0]

NewBhop ==
  [teleported |-> FALSE, frozen |-> FALSE, block_touch |-> 0, first_touch |-> 0,
   origin |-> ZeroVector]

Nobody == [state |-> "out", at |-> ZeroVector, ground |-> Air]

Alive(p) == engine[p].state = "alive"

OnGround(p) == engine[p].ground \notin {Air, Ladder}

OnBlock(p) == engine[p].ground \in g_blocks

\* kz_teleport_player: the player is moved; his ground entity is still the
\* one of his last move.
Teleported(p, place) == [engine EXCEPT ![p].at = place]

-----------------------------------------------------------------------------
(* Maps and players.                                                       *)

\* FN_ServerActivate_Post and FN_AMXX_PLUGINSLOADED.  Nothing tells kz_base
\* that the players are gone.
MapStart(m) ==
  /\ move = NoMove
  /\ map' = m
  /\ time' = 0
  /\ g_blocks' = kz_mpbhop_init(Entities[m])
  /\ api' = (Functions \subseteq Exported)
  /\ engine' = [p \in Players |-> Nobody]
  /\ moved' = [p \in Players |-> 0]
  /\ since' = [p \in Players |-> 0]
  /\ UNCHANGED <<move, bhop, kz, reported, stood, latest, own, guest>>

Tick ==
  /\ move = NoMove
  /\ time < MaxTime
  /\ \A p \in Players : Alive(p) => time + 1 - moved[p] <= MaxLag
  /\ time' = time + 1
  /\ UNCHANGED <<map, api, g_blocks, engine, move, bhop, kz, reported,
                 moved, since, stood, latest, own, guest>>

kz_mpbhop_ClientPutInServer(p) ==
  /\ engine[p].state = "out" /\ move = NoMove
  /\ engine' = [engine EXCEPT ![p].state = "dead"]
  /\ bhop' = [bhop EXCEPT ![p] = [NewBhop EXCEPT !.origin = bhop[p].origin]]
  /\ stood' = [stood EXCEPT ![p] = Nowhere]
  /\ own' = [own EXCEPT ![p] = FALSE]
  /\ guest' = [guest EXCEPT ![p] = FALSE]
  /\ UNCHANGED <<map, time, api, g_blocks, move, kz, reported, moved, since, latest>>

kz_mpbhop_ClientDisconnected(p) ==
  /\ engine[p].state # "out" /\ move = NoMove
  /\ engine' = [engine EXCEPT ![p] = Nobody]
  /\ bhop' = [bhop EXCEPT ![p].teleported = FALSE, ![p].frozen = FALSE]
  /\ moved' = [moved EXCEPT ![p] = 0]
  /\ since' = [since EXCEPT ![p] = 0]
  /\ UNCHANGED <<map, time, api, g_blocks, move, kz, reported,
                 stood, latest, own, guest>>

Spawn(p, place) ==
  /\ engine[p].state = "dead" /\ move = NoMove
  /\ engine' = [engine EXCEPT ![p] =
                  [state |-> "alive", at |-> place, ground |-> Air]]
  /\ moved' = [moved EXCEPT ![p] = time]
  /\ since' = [since EXCEPT ![p] = 0]
  /\ UNCHANGED <<map, time, api, g_blocks, move, bhop, kz, reported,
                 stood, latest, own, guest>>

\* Where a dead player lies is of no concern: every hook returns at once.
Die(p) ==
  /\ Alive(p) /\ move = NoMove
  /\ engine' = [engine EXCEPT ![p] = [Nobody EXCEPT !.state = "dead"]]
  /\ moved' = [moved EXCEPT ![p] = 0]
  /\ since' = [since EXCEPT ![p] = 0]
  /\ UNCHANGED <<map, time, api, g_blocks, move, bhop, kz, reported,
                 stood, latest, own, guest>>

-----------------------------------------------------------------------------
(* A player's move: kz_mpbhop_PlayerPreThink, the engine, DispatchTouch.   *)

Think(p) ==
  /\ Alive(p) /\ move = NoMove
  /\ move' = [step |-> "think", who |-> {p}, touched |-> {}]
  /\ UNCHANGED <<map, time, api, g_blocks, engine, kz, reported,
                 moved, since, latest, own, guest>>

\* He was thrown in his last move: his speed is taken, the rest can wait.
ThinkAfterThrow(p) ==
  /\ Think(p)
  /\ bhop[p].teleported
  /\ bhop' = [bhop EXCEPT ![p].teleported = FALSE]
  /\ UNCHANGED stood

ThinkInAir(p) ==
  /\ Think(p)
  /\ ~bhop[p].teleported /\ ~OnGround(p)
  /\ bhop' = [bhop EXCEPT ![p].frozen = FALSE]
  /\ UNCHANGED stood

\* Mutant: a spot on a block is saved as well.
ThinkOnBlock_Saves(p) ==
  /\ Think(p)
  /\ ~bhop[p].teleported /\ OnGround(p) /\ OnBlock(p)
  /\ bhop' = [bhop EXCEPT ![p].frozen = TRUE, ![p].origin = engine[p].at]
  /\ UNCHANGED stood

ThinkOnBlock(p) ==
  /\ Think(p)
  /\ ~bhop[p].teleported /\ OnGround(p) /\ OnBlock(p)
  /\ bhop' = [bhop EXCEPT ![p].frozen = TRUE]
  /\ UNCHANGED stood

\* Not on something that moves, and with room to stand upright: a player who
\* ducks where he could stand counts as standing.
CanStand(p) ==
  /\ engine[p].ground \notin Moving[map]
  /\ engine[p].at \notin LowPlaces

ThinkOnGround(p) ==
  /\ Think(p)
  /\ ~bhop[p].teleported /\ OnGround(p) /\ ~OnBlock(p)
  /\ \/ /\ CanStand(p)
        /\ bhop' = [bhop EXCEPT ![p].frozen = FALSE, ![p].origin = engine[p].at]
        /\ stood' = [stood EXCEPT ![p] = engine[p].at]
     \/ /\ ~CanStand(p)
        /\ bhop' = [bhop EXCEPT ![p].frozen = FALSE]
        /\ UNCHANGED stood

kz_mpbhop_PlayerPreThink(p) ==
  \/ ThinkAfterThrow(p)
  \/ ThinkInAir(p)
  \/ ThinkOnBlock(p)
  \/ ThinkOnGround(p)

\* The engine moves the player.  He touches what he stands on, and perhaps
\* another block; for anything else DispatchTouch returns at once.
PM_Move(p, place, other) ==
  LET ground  == Under[map][place]
      touched == ({ground} \cap g_blocks) \cup other
  IN /\ move.step = "think" /\ p \in move.who
     /\ engine' = [engine EXCEPT ![p].at = place, ![p].ground = ground]
     /\ move' = IF touched = {} THEN NoMove
                ELSE [step |-> "touch", who |-> {p}, touched |-> touched]
     /\ moved' = IF ground \in g_blocks THEN moved ELSE [moved EXCEPT ![p] = time]
     /\ since' = IF ground \notin g_blocks THEN [since EXCEPT ![p] = 0]
                 ELSE IF ground = engine[p].ground THEN since
                 ELSE [since EXCEPT ![p] = time]
     /\ UNCHANGED <<map, time, api, g_blocks, bhop, kz, reported,
                    stood, latest, own, guest>>

Touch(p, e) ==
  /\ move.step = "touch" /\ p \in move.who /\ e \in move.touched
  /\ move' = IF move.touched = {e} THEN NoMove ELSE [move EXCEPT !.touched = @ \ {e}]
  /\ UNCHANGED <<map, time, api, g_blocks, kz, reported, stood, latest, own, guest>>

\* Mutant: the block is recorded before the ground entity is compared.
TouchAside_Records(p, e) ==
  /\ Touch(p, e)
  /\ e # engine[p].ground
  /\ bhop' = [bhop EXCEPT ![p].frozen = TRUE, ![p].block_touch = e,
                          ![p].first_touch = time]
  /\ UNCHANGED <<engine, moved, since>>

\* A block he does not stand on.
TouchAside(p, e) ==
  /\ Touch(p, e)
  /\ e # engine[p].ground
  /\ bhop' = [bhop EXCEPT ![p].frozen = TRUE]
  /\ UNCHANGED <<engine, moved, since>>

TouchGround(p, e) ==
  /\ Touch(p, e)
  /\ e = engine[p].ground
  /\ moved' = [moved EXCEPT ![p] = time]

\* Mutant: the first touch of a block does not count as standing on it.
TouchNext_NotFrozen(p, e) ==
  /\ TouchGround(p, e)
  /\ e # bhop[p].block_touch
  /\ bhop' = [bhop EXCEPT ![p].block_touch = e, ![p].first_touch = time]
  /\ UNCHANGED <<engine, since>>

TouchNext(p, e) ==
  /\ TouchGround(p, e)
  /\ e # bhop[p].block_touch
  /\ bhop' = [bhop EXCEPT ![p].frozen = TRUE, ![p].block_touch = e,
                          ![p].first_touch = time]
  /\ UNCHANGED <<engine, since>>

Touching(p) == time - bhop[p].first_touch

TouchBriefly(p, e) ==
  /\ TouchGround(p, e)
  /\ e = bhop[p].block_touch
  /\ Touching(p) <= Short
  /\ bhop' = [bhop EXCEPT ![p].frozen = TRUE]
  /\ UNCHANGED <<engine, since>>

\* The last touch is long ago: this one counts as the first.
TouchAgain(p, e) ==
  /\ TouchGround(p, e)
  /\ e = bhop[p].block_touch
  /\ Touching(p) > Short /\ Touching(p) > Long
  /\ bhop' = [bhop EXCEPT ![p].frozen = TRUE, ![p].first_touch = time]
  /\ UNCHANGED <<engine, since>>

\* Too long: he is thrown to the spot PlayerPreThink saved.
Throw(p, e) ==
  /\ TouchGround(p, e)
  /\ e = bhop[p].block_touch
  /\ Touching(p) > Short /\ Touching(p) <= Long
  /\ bhop' = [bhop EXCEPT ![p].frozen = TRUE, ![p].teleported = TRUE]
  /\ engine' = Teleported(p, bhop[p].origin)
  /\ since' = [since EXCEPT ![p] = time]

kz_mpbhop_DispatchTouch(p, e) ==
  \/ TouchAside(p, e)
  \/ TouchNext(p, e)
  \/ TouchBriefly(p, e)
  \/ TouchAgain(p, e)
  \/ Throw(p, e)

-----------------------------------------------------------------------------
(* Checkpoints.                                                            *)

\* Mutant: the index does not come round.
kz_cmd_checkpoint_NoWrap(p) ==
  /\ Alive(p) /\ move = NoMove
  /\ OnGround(p) \/ engine[p].ground = Ladder
  /\ ~bhop[p].frozen
  /\ kz[p].cp_index \in Ring
  /\ kz' = [kz EXCEPT ![p].checkpoints[kz[p].cp_index] = engine[p].at,
                      ![p].cp_index = @ + 1,
                      ![p].cp_count = @ + 1]
  /\ UNCHANGED <<map, time, api, g_blocks, engine, move, bhop, reported,
                 moved, since, stood, latest, own, guest>>

kz_cmd_checkpoint(p) ==
  /\ Alive(p) /\ move = NoMove
  /\ OnGround(p) \/ engine[p].ground = Ladder
  /\ ~bhop[p].frozen
  /\ kz[p].cp_count < MaxCheckpoints
  /\ reported' = IF api THEN [reported EXCEPT ![p] = @ + 1] ELSE reported
  /\ kz' = [kz EXCEPT ![p].checkpoints[kz[p].cp_index] = engine[p].at,
                      ![p].cp_index = (@ + 1) % KZ_MAX_CHECKPOINT_CACHE,
                      ![p].cp_count = @ + 1]
  /\ latest' = [latest EXCEPT ![p] = engine[p].at]
  /\ own' = [own EXCEPT ![p] = TRUE]
  /\ UNCHANGED <<map, time, api, g_blocks, engine, move, bhop,
                 moved, since, stood, guest>>

\* Mutant: before slot 0 comes slot 0.
LastSlot_NoWrap(p) == IF kz[p].cp_index = 0 THEN 0 ELSE kz[p].cp_index - 1

\* The slot before the one that is filled next.
LastSlot(p) ==
  IF kz[p].cp_index = 0 THEN KZ_MAX_CHECKPOINT_CACHE - 1 ELSE kz[p].cp_index - 1

kz_cmd_gocheck(p) ==
  LET place == kz[p].checkpoints[LastSlot(p)]
  IN /\ Alive(p) /\ move = NoMove
     /\ kz[p].cp_count # 0
     /\ place # ZeroVector
     /\ kz[p].tp_count < MaxTeleports
     /\ kz' = [kz EXCEPT ![p].tp_count = @ + 1]
     /\ engine' = Teleported(p, place)
     /\ guest' = [guest EXCEPT ![p] = @ \/ ~own[p]]
     /\ UNCHANGED <<map, time, api, g_blocks, move, bhop, reported,
                    moved, since, stood, latest, own>>

(***************************************************************************)
(* kz_cmd.cpp: the commands that FN_AMXX_ATTACH registers, and what a line *)
(* of a client runs.  A line is said in the chat or typed, its name with   *)
(* or without a slash.                                                     *)
(***************************************************************************)
kz_register_client_command(commands, name, callback, chat_only) ==
  IF \E c \in commands : c.name = name THEN commands
  ELSE commands \cup {[name |-> name, callback |-> callback, chat_only |-> chat_only]}

CheckpointNames == {"checkpoint", "cp"}

GocheckNames == {"gocheck", "gc", "teleport", "tp"}

g_commands ==
  LET add(commands, name) ==
        kz_register_client_command(commands, name,
          IF name \in CheckpointNames THEN "checkpoint" ELSE "gocheck", FALSE)
  IN add(add(add(add(add(add({}, "checkpoint"), "cp"), "gocheck"), "gc"),
             "teleport"), "tp")

dispatch_name(name, from_chat) ==
  {c.callback : c \in {d \in g_commands : d.name = name /\ (from_chat \/ ~d.chat_only)}}

kz_cmd_dispatch(said, slash, name) ==
  IF ~said THEN dispatch_name(name, FALSE)
  ELSE IF slash THEN dispatch_name(name, TRUE)
  ELSE {}

\* What the lines a client can say or type run.
Callbacks ==
  UNION {kz_cmd_dispatch(said, slash, name) :
           said, slash \in BOOLEAN, name \in CheckpointNames \cup GocheckNames}

FN_ClientCommand(p) ==
  \/ "checkpoint" \in Callbacks /\ kz_cmd_checkpoint(p)
  \/ "gocheck" \in Callbacks /\ kz_cmd_gocheck(p)

-----------------------------------------------------------------------------
Init ==
  /\ map \in Maps
  /\ time = 0
  /\ api = (Functions \subseteq Exported)
  /\ g_blocks = kz_mpbhop_init(Entities[map])
  /\ engine = [p \in Players |-> Nobody]
  /\ move = NoMove
  /\ bhop = [p \in Players |-> NewBhop]
  /\ kz = [p \in Players |-> NewPlayer]
  /\ reported = [p \in Players |-> 0]
  /\ moved = [p \in Players |-> 0]
  /\ since = [p \in Players |-> 0]
  /\ stood = [p \in Players |-> Nowhere]
  /\ latest = [p \in Players |-> Nowhere]
  /\ own = [p \in Players |-> FALSE]
  /\ guest = [p \in Players |-> FALSE]

Move(p) ==
  \/ kz_mpbhop_PlayerPreThink(p)
  \/ \E place \in Places : PM_Move(p, place, {})
  \/ \E place \in Places, e \in g_blocks : PM_Move(p, place, {e})
  \/ \E e \in g_blocks : kz_mpbhop_DispatchTouch(p, e)

Act(p) ==
  \/ kz_mpbhop_ClientPutInServer(p)
  \/ kz_mpbhop_ClientDisconnected(p)
  \/ \E place \in Places : Spawn(p, place)
  \/ Die(p)
  \/ Move(p)
  \/ FN_ClientCommand(p)

Next ==
  \/ \E m \in Maps : MapStart(m)
  \/ Tick
  \/ \E p \in Players : Act(p)

Spec == Init /\ [][Next]_vars

-----------------------------------------------------------------------------
(* Properties.                                                             *)

EngineType ==
  engine \in [Players -> [state : {"out", "dead", "alive"}, at : Places,
                          ground : Nat \cup {Air, Ladder}]]

\* A player in a move is alive.
MoveType ==
  /\ move \in [step : {"none", "think", "touch"}, who : SUBSET Players,
               touched : SUBSET Nat]
  /\ \A p \in move.who : Alive(p)

BhopType ==
  bhop \in [Players -> [teleported : BOOLEAN, frozen : BOOLEAN, block_touch : Nat,
                        first_touch : Nat, origin : Places]]

KzType ==
  /\ kz \in [Players -> [checkpoints : [Ring -> Places], cp_index : Ring,
                         cp_count : Nat, tp_count : Nat]]
  /\ reported \in [Players -> Nat]

TimeType ==
  /\ map \in Maps /\ time \in Nat /\ api \in BOOLEAN /\ g_blocks \subseteq Nat

HistoryType ==
  /\ moved \in [Players -> Nat] /\ since \in [Players -> Nat]
  /\ stood \in [Players -> Places \cup {Nowhere}]
  /\ latest \in [Players -> Places \cup {Nowhere}]
  /\ own \in [Players -> BOOLEAN] /\ guest \in [Players -> BOOLEAN]

\* What the hooks of kz_base keep about a player has the type of its fields;
\* an index of the ring is one of its slots.
TypeOK == EngineType /\ MoveType /\ BhopType /\ KzType /\ TimeType /\ HistoryType

\* kz_mpbhop_init, which goes through the entities class by class and asks of
\* a trigger only whether its target is a block already, marks nothing but
\* blocks, and skips a block only when it overlooks a link in each of the
\* chains that make it one (kz_mpbhop.cpp:66: "few blocks get skipped").
BlocksOf == [m \in Maps |-> {e \in DOMAIN Entities[m] : IsBlock(Entities[m], e)}]

SureBlocksOf ==
  [m \in Maps |-> {c[1] : c \in {d \in Chains(Entities[m]) : Seen(Entities[m], d)}}]

OnlyOverlookedAreSkipped ==
  g_blocks \subseteq BlocksOf[map] /\ SureBlocksOf[map] \subseteq g_blocks

\* Not so of the code: whatever triggers a block is one.
NoBlockIsSkipped == g_blocks = BlocksOf[map]

\* Nobody keeps resting on a block: from the time he landed on it, or was
\* thrown back onto it, kz_mpbhop_DispatchTouch throws him within Short and
\* two of his moves, whatever he touches meanwhile.
RestIsBounded ==
  \A p \in Players :
    (Alive(p) /\ OnBlock(p)) => time - since[p] <= Short + 2 * MaxLag

\* A throw takes a player to a spot that is not a block of the map, once he
\* has stood on its ground since he joined, unless he has used a checkpoint
\* that was saved before he joined: the spot kz_mpbhop_PlayerPreThink saved
\* is his own, whatever happened between.
ThrowsOffTheBlocks ==
  [][\A p \in Players, e \in g_blocks :
       (Throw(p, e) /\ stood[p] # Nowhere /\ ~guest[p]) =>
         /\ stood[p] = engine'[p].at
         /\ Under[map][engine'[p].at] \notin g_blocks]_vars

\* No checkpoint is saved in the air or by a player who stands on a block:
\* the flag that kz_cmd_checkpoint reads agrees with his ground entity, which
\* the engine changes between two hooks.
CheckpointsOffBlocks ==
  [][\A p \in Players :
       kz'[p].cp_count > kz[p].cp_count =>
         engine[p].state = "alive" /\ engine[p].ground \notin g_blocks \cup {Air}]_vars

\* A player who uses a checkpoint goes to the last one saved in his slot,
\* however often the ring has come round.
GocheckGoesToLatest ==
  [][\A p \in Players :
       kz'[p].tp_count > kz[p].tp_count => latest[p] = engine'[p].at]_vars
=============================================================================
