--------------------------- MODULE GameplayProofs ---------------------------
(***************************************************************************)
(* Proofs about Gameplay, for any number of slots, maps and places, any    *)
(* size of the ring, and any lag a block's window bounds.                  *)
(***************************************************************************)
EXTENDS Gameplay, FiniteSetTheorems, WellFoundedInduction, TLAPS

-----------------------------------------------------------------------------
(* The type invariant.                                                     *)

\* kz_mpbhop_init marks entities of the map only.
LEMMA BlocksType == ASSUME NEW m \in Maps PROVE kz_mpbhop_init(Entities[m]) \subseteq Nat
<1>1. Entities[m] \in Seq(Entity)
  BY GameplayAssumption
<1>2. DOMAIN Entities[m] \subseteq Nat
  BY <1>1
<1> QED BY <1>2 DEF kz_mpbhop_init

\* The index of a ring of n slots, advanced by one.
LEMMA RingStep ==
  ASSUME NEW n \in Nat \ {0}, NEW i \in 0 .. n - 1
  PROVE  (i + 1) % n = IF i = n - 1 THEN 0 ELSE i + 1
  <1>1. CASE i = n - 1
    <2>1. i + 1 = n
      BY <1>1
    <2>2. n % n = 0
      BY SMT
    <2> QED BY <2>1, <2>2, <1>1
  <1>2. CASE i # n - 1
    <2>1. i + 1 \in 0 .. n - 1
      BY <1>2
    <2> QED BY <2>1, <1>2
  <1> QED BY <1>1, <1>2

\* Starting a move concerns the flags of one player and nothing else.
LEMMA ThinkTypes ==
  ASSUME TypeOK, NEW p \in Players, kz_mpbhop_PlayerPreThink(p)
  PROVE  TypeOK'
  <1>1. Think(p)
    BY DEF kz_mpbhop_PlayerPreThink, ThinkAfterThrow, ThinkInAir, ThinkOnBlock,
           ThinkOnGround
  <1>2. engine[p].at \in Places
    BY DEF TypeOK, EngineType
  <1>3. BhopType'
    <2> USE DEF TypeOK, BhopType
    <2>1. CASE ThinkAfterThrow(p)
      BY <2>1 DEF ThinkAfterThrow
    <2>2. CASE ThinkInAir(p)
      BY <2>2 DEF ThinkInAir
    <2>3. CASE ThinkOnBlock(p)
      BY <2>3 DEF ThinkOnBlock
    <2>4. CASE ThinkOnGround(p)
      <3>1. CASE bhop' = [bhop EXCEPT ![p].frozen = FALSE, ![p].origin = engine[p].at]
        BY <1>2, <3>1
      <3>2. CASE bhop' = [bhop EXCEPT ![p].frozen = FALSE]
        BY <3>2
      <3> QED BY <2>4, <3>1, <3>2 DEF ThinkOnGround
    <2> QED BY <2>1, <2>2, <2>3, <2>4 DEF kz_mpbhop_PlayerPreThink
  <1>4. MoveType'
    BY <1>1 DEF Think, TypeOK, MoveType, Alive
  <1>5. EngineType' /\ KzType' /\ TimeType'
    BY <1>1 DEF Think, TypeOK, EngineType, KzType, TimeType
  <1>6. stood' \in [Players -> Places \cup {Nowhere}]
    BY <1>2 DEF kz_mpbhop_PlayerPreThink, ThinkAfterThrow, ThinkInAir, ThinkOnBlock,
           ThinkOnGround, TypeOK, HistoryType
  <1>7. HistoryType'
    BY <1>1, <1>6 DEF Think, TypeOK, HistoryType
  <1> QED BY <1>3, <1>4, <1>5, <1>7 DEF TypeOK

\* Every way in which a block answers a touch keeps the types.
LEMMA TouchTypes ==
  ASSUME TypeOK, NEW p \in Players, NEW e \in g_blocks, kz_mpbhop_DispatchTouch(p, e)
  PROVE  TypeOK'
  <1> USE DEF TypeOK
  <1>1. Touch(p, e)
    BY DEF kz_mpbhop_DispatchTouch, TouchAside, TouchGround, TouchNext, TouchBriefly,
           TouchAgain, Throw
  <1>2. e \in Nat /\ time \in Nat /\ bhop[p].origin \in Places
    BY DEF TimeType, BhopType
  <1>3. BhopType'
    <2> USE DEF BhopType
    <2>1. CASE TouchAside(p, e)
      BY <2>1 DEF TouchAside
    <2>2. CASE TouchNext(p, e)
      BY <1>2, <2>2 DEF TouchNext
    <2>3. CASE TouchBriefly(p, e)
      BY <2>3 DEF TouchBriefly
    <2>4. CASE TouchAgain(p, e)
      BY <1>2, <2>4 DEF TouchAgain
    <2>5. CASE Throw(p, e)
      BY <2>5 DEF Throw
    <2> QED BY <2>1, <2>2, <2>3, <2>4, <2>5 DEF kz_mpbhop_DispatchTouch
  <1>4. moved' \in [Players -> Nat] /\ since' \in [Players -> Nat]
    BY <1>2 DEF kz_mpbhop_DispatchTouch, TouchAside, TouchGround, TouchNext, TouchBriefly,
                TouchAgain, Throw, TimeType, HistoryType
  <1>5. EngineType' /\ \A q \in Players : engine'[q].state = engine[q].state
    BY <1>2, SMTT(30) DEF kz_mpbhop_DispatchTouch, TouchAside, TouchGround, TouchNext, TouchBriefly,
                TouchAgain, Throw, EngineType, Teleported
  <1>6. /\ move' \in [step : {"none", "think", "touch"}, who : SUBSET Players,
                      touched : SUBSET Nat]
        /\ move'.who \subseteq move.who
    BY <1>1 DEF Touch, MoveType, NoMove
  <1>7. MoveType'
    BY <1>5, <1>6 DEF MoveType, Alive
  <1>8. KzType' /\ TimeType' /\ HistoryType'
    BY <1>1, <1>4 DEF Touch, KzType, TimeType, HistoryType
  <1> QED BY <1>3, <1>5, <1>7, <1>8 DEF TypeOK

\* Initially the state of the hooks has its types.
LEMMA TypeInit == Init => TypeOK
  <1> SUFFICES ASSUME Init PROVE TypeOK
    OBVIOUS
  <1>1. EngineType
    BY GameplayAssumption DEF Init, EngineType, Nobody
  <1>2. MoveType
    BY DEF Init, MoveType, NoMove
  <1>3. BhopType
    BY GameplayAssumption DEF Init, BhopType, NewBhop
  <1>4. KzType
    BY GameplayAssumption DEF Init, KzType, NewPlayer, Ring
  <1>5. TimeType
    BY BlocksType DEF Init, TimeType
  <1>6. HistoryType
    BY DEF Init, HistoryType
  <1> QED BY <1>1, <1>2, <1>3, <1>4, <1>5, <1>6 DEF TypeOK

\* Every step keeps them.
LEMMA TypeNext == TypeOK /\ [Next]_vars => TypeOK'
  <1> SUFFICES ASSUME TypeOK, [Next]_vars PROVE TypeOK'
    OBVIOUS
  <1> USE DEF TypeOK
  <1>a. ASSUME move = NoMove, UNCHANGED move PROVE MoveType'
    BY <1>a DEF MoveType, NoMove
  <1>1. ASSUME NEW m \in Maps, MapStart(m) PROVE TypeOK'
    <2>1. EngineType'
      BY <1>1, GameplayAssumption DEF MapStart, EngineType, Nobody
    <2>2. TimeType'
      BY <1>1, BlocksType DEF MapStart, TimeType
    <2> QED BY <1>1, <1>a, <2>1, <2>2 DEF MapStart, BhopType, KzType, HistoryType
  <1>2. CASE Tick
    BY <1>2, <1>a DEF Tick, EngineType, BhopType, KzType, TimeType, HistoryType
  <1>3. ASSUME NEW p \in Players, kz_mpbhop_ClientPutInServer(p) PROVE TypeOK'
    <2>1. EngineType'
      BY <1>3 DEF kz_mpbhop_ClientPutInServer, EngineType
    <2>2. BhopType'
      BY <1>3 DEF kz_mpbhop_ClientPutInServer, BhopType, NewBhop
    <2> QED BY <1>3, <1>a, <2>1, <2>2 DEF kz_mpbhop_ClientPutInServer, KzType, TimeType, HistoryType
  <1>4. ASSUME NEW p \in Players, kz_mpbhop_ClientDisconnected(p) PROVE TypeOK'
    <2>1. EngineType'
      BY <1>4, GameplayAssumption DEF kz_mpbhop_ClientDisconnected, EngineType, Nobody
    <2>2. BhopType' /\ HistoryType'
      BY <1>4, ZenonT(40) DEF kz_mpbhop_ClientDisconnected, BhopType, HistoryType
    <2> QED BY <1>4, <1>a, <2>1, <2>2 DEF kz_mpbhop_ClientDisconnected, KzType, TimeType
  <1>5. ASSUME NEW p \in Players, NEW place \in Places, Spawn(p, place) PROVE TypeOK'
    <2>1. EngineType'
      BY <1>5 DEF Spawn, EngineType
    <2> QED BY <1>5, <1>a, <2>1 DEF Spawn, BhopType, KzType, TimeType, HistoryType
  <1>6. ASSUME NEW p \in Players, Die(p) PROVE TypeOK'
    <2>1. EngineType'
      BY <1>6, GameplayAssumption DEF Die, EngineType, Nobody
    <2> QED BY <1>6, <1>a, <2>1 DEF Die, BhopType, KzType, TimeType, HistoryType
  <1>7. ASSUME NEW p \in Players, NEW place \in Places, NEW other \in SUBSET g_blocks,
               PM_Move(p, place, other)
        PROVE TypeOK'
    <2>1. Under[map][place] \in Nat \cup {Air, Ladder}
      BY GameplayAssumption DEF TimeType
    <2>2. EngineType' /\ \A q \in Players : engine'[q].state = engine[q].state
      BY <1>7, <2>1 DEF PM_Move, EngineType
    <2>3. /\ move' \in [step : {"none", "think", "touch"}, who : SUBSET Players,
                        touched : SUBSET Nat]
          /\ move'.who \subseteq move.who
      BY <1>7 DEF PM_Move, TimeType, MoveType, NoMove
    <2>4. MoveType'
      BY <2>2, <2>3 DEF MoveType, Alive
    <2>5. TimeType' /\ HistoryType'
      BY <1>7 DEF PM_Move, TimeType, HistoryType
    <2> QED BY <1>7, <2>2, <2>4, <2>5 DEF PM_Move, BhopType, KzType
  <1>8. ASSUME NEW p \in Players, kz_cmd_checkpoint(p) PROVE TypeOK'
    <2>1. (kz[p].cp_index + 1) % KZ_MAX_CHECKPOINT_CACHE \in Ring
      BY RingStep, GameplayAssumption DEF KzType, Ring
    <2>2. engine[p].at \in Places
      BY DEF EngineType
    <2>3. KzType'
      BY <1>8, <2>1, <2>2 DEF kz_cmd_checkpoint, KzType
    <2> QED BY <1>8, <1>a, <2>3 DEF kz_cmd_checkpoint, EngineType, BhopType, TimeType,
                                         HistoryType
  <1>9. ASSUME NEW p \in Players, kz_cmd_gocheck(p) PROVE TypeOK'
    <2>1. LastSlot(p) \in Ring
      BY GameplayAssumption DEF LastSlot, KzType, Ring
    <2>2. kz[p].checkpoints[LastSlot(p)] \in Places
      BY <2>1 DEF KzType
    <2>3. EngineType'
      BY <1>9, <2>2 DEF kz_cmd_gocheck, EngineType, Teleported
    <2>4. KzType'
      BY <1>9 DEF kz_cmd_gocheck, KzType
    <2>5. HistoryType'
      BY <1>9 DEF kz_cmd_gocheck, HistoryType
    <2> QED BY <1>9, <1>a, <2>3, <2>4, <2>5 DEF kz_cmd_gocheck, BhopType, TimeType
  <1>10. CASE UNCHANGED vars
    BY <1>10 DEF vars, EngineType, MoveType, BhopType, KzType, TimeType, HistoryType, Alive
  <1> QED
    BY <1>1, <1>2, <1>3, <1>4, <1>5, <1>6, <1>7, <1>8, <1>9, <1>10, ThinkTypes, TouchTypes
       DEF Next, Act, Move, FN_ClientCommand

\* What the hooks keep has the types of its fields, in every reachable state.
THEOREM TypeCorrect == Spec => []TypeOK
  BY TypeInit, TypeNext, PTL DEF Spec

-----------------------------------------------------------------------------
(* What holds of one player, in every state: the inductive invariant.      *)

\* One player moves at a time, and what he touches are blocks.
MoveShape ==
  \/ move = NoMove
  \/ /\ move.step # "none"
     /\ \E p \in Players : move.who = {p}
     /\ move.touched \subseteq g_blocks

\* The engine has moved p onto a block and has yet to call DispatchTouch.
Pending(p) ==
  move.step = "touch" /\ p \in move.who /\ engine[p].ground \in move.touched

\* The clock of a player and the one of the block he touched last.
Clocks(p) ==
  /\ Alive(p) => since[p] <= time /\ moved[p] <= time /\ time <= moved[p] + MaxLag
  /\ engine[p].state # "out" => bhop[p].first_touch <= time

\* Who rests on a block has just landed there, or has been seen by the block:
\* just thrown by it, or within Short of a first touch that is not older than
\* his rest by more than one move.
Resting(p) ==
  (Alive(p) /\ OnBlock(p)) =>
    \/ Pending(p) /\ since[p] = time
    \/ /\ bhop[p].block_touch = engine[p].ground
       /\ bhop[p].first_touch <= moved[p]
       /\ \/ moved[p] = since[p]
          \/ /\ bhop[p].first_touch <= since[p] + MaxLag
             /\ moved[p] <= bhop[p].first_touch + Short

\* Who stands on a block is known to, but for a move under way.
Frozen(p) ==
  (Alive(p) /\ OnBlock(p)) =>
    \/ bhop[p].frozen
    \/ move.step = "think" /\ p \in move.who
    \/ Pending(p)

\* The slot before the next one holds the last checkpoint.
Latest(p) ==
  kz[p].cp_count # 0 => latest[p] = kz[p].checkpoints[LastSlot(p)]

\* A player who uses no checkpoint of somebody else is over what the engine
\* says he stands on, and so are his checkpoint and his saved spot.
Spots(p) ==
  ~guest[p] =>
    /\ (Alive(p) /\ ~OnBlock(p) /\ engine[p].ground # Air) =>
         Under[map][engine[p].at] \notin g_blocks
    /\ (engine[p].state # "out" /\ own[p]) =>
         kz[p].cp_count # 0 /\ Under[map][kz[p].checkpoints[LastSlot(p)]] \notin g_blocks
    /\ (engine[p].state # "out" /\ stood[p] # Nowhere) =>
         /\ stood[p] = bhop[p].origin
         /\ Under[map][bhop[p].origin] \notin g_blocks

PlayerInv(p) == Clocks(p) /\ Resting(p) /\ Frozen(p) /\ Latest(p) /\ Spots(p)

IInv ==
  /\ TypeOK
  /\ MoveShape
  /\ \A p \in Players : PlayerInv(p)

-----------------------------------------------------------------------------
(* The frame of a step: what the actions of one player leave alone.        *)

\* Nothing of the others changes, and neither the map nor the clock.
Frame(q) ==
  /\ UNCHANGED <<map, time, g_blocks>>
  /\ \A p \in Players \ {q} :
       /\ engine'[p] = engine[p] /\ bhop'[p] = bhop[p] /\ kz'[p] = kz[p]
       /\ moved'[p] = moved[p] /\ since'[p] = since[p]
       /\ stood'[p] = stood[p] /\ latest'[p] = latest[p]
       /\ own'[p] = own[p] /\ guest'[p] = guest[p]

\* An action of one player keeps to its frame.
LEMMA ActFrame ==
  ASSUME TypeOK, NEW q \in Players, Act(q)
  PROVE  Frame(q)
  <1> USE DEF TypeOK, EngineType, BhopType, KzType, HistoryType, Frame
  <1>1. CASE kz_mpbhop_ClientPutInServer(q)
    BY <1>1 DEF kz_mpbhop_ClientPutInServer
  <1>2. CASE kz_mpbhop_ClientDisconnected(q)
    BY <1>2 DEF kz_mpbhop_ClientDisconnected
  <1>3. ASSUME NEW place \in Places, Spawn(q, place) PROVE Frame(q)
    BY <1>3 DEF Spawn
  <1>4. CASE Die(q)
    BY <1>4 DEF Die
  <1>5. CASE kz_mpbhop_PlayerPreThink(q)
    BY <1>5 DEF kz_mpbhop_PlayerPreThink, Think, ThinkAfterThrow, ThinkInAir, ThinkOnBlock,
                ThinkOnGround
  <1>6. ASSUME NEW place \in Places, NEW other \in SUBSET g_blocks, PM_Move(q, place, other)
        PROVE Frame(q)
    BY <1>6 DEF PM_Move
  <1>7. ASSUME NEW e \in g_blocks, kz_mpbhop_DispatchTouch(q, e) PROVE Frame(q)
    BY <1>7 DEF kz_mpbhop_DispatchTouch, TouchAside, Touch, TouchGround, TouchNext,
                TouchBriefly, TouchAgain, Throw, Teleported
  <1>8. CASE kz_cmd_checkpoint(q)
    BY <1>8 DEF kz_cmd_checkpoint
  <1>9. CASE kz_cmd_gocheck(q)
    BY <1>9 DEF kz_cmd_gocheck, Teleported
  <1> QED
    BY <1>1, <1>2, <1>3, <1>4, <1>5, <1>6, <1>7, <1>8, <1>9 DEF Act, Move, FN_ClientCommand

\* One player moves at a time: who acts is in the move, or nobody is.
LEMMA MoveShapeNext == TypeOK /\ MoveShape /\ [Next]_vars => MoveShape'
  <1> SUFFICES ASSUME TypeOK, MoveShape, [Next]_vars PROVE MoveShape'
    OBVIOUS
  <1>1. ASSUME NEW m \in Maps, MapStart(m) PROVE MoveShape'
    BY <1>1 DEF MapStart, MoveShape
  <1>2. CASE Tick
    BY <1>2 DEF Tick, MoveShape
  <1>3. ASSUME NEW q \in Players, Act(q) PROVE MoveShape'
    <2>1. CASE UNCHANGED <<move, g_blocks>>
      BY <2>1 DEF MoveShape
    <2>2. CASE kz_mpbhop_PlayerPreThink(q)
      <3>1. move' = [step |-> "think", who |-> {q}, touched |-> {}]
        BY <2>2 DEF kz_mpbhop_PlayerPreThink, Think, ThinkAfterThrow, ThinkInAir,
                    ThinkOnBlock, ThinkOnGround
      <3> QED BY <3>1 DEF MoveShape
    <2>3. ASSUME NEW place \in Places, NEW other \in SUBSET g_blocks,
                 PM_Move(q, place, other)
          PROVE MoveShape'
      BY <2>3 DEF PM_Move, MoveShape
    <2>4. ASSUME NEW e \in g_blocks, kz_mpbhop_DispatchTouch(q, e) PROVE MoveShape'
      <3>1. Touch(q, e)
        BY <2>4 DEF kz_mpbhop_DispatchTouch, TouchAside, TouchGround, TouchNext,
                    TouchBriefly, TouchAgain, Throw
      <3>2. CASE move.touched = {e}
        BY <3>1, <3>2 DEF Touch, MoveShape
      <3>3. CASE move.touched # {e}
        <4>1. move' = [move EXCEPT !.touched = @ \ {e}] /\ g_blocks' = g_blocks
          BY <3>1, <3>3 DEF Touch
        <4>2. /\ move'.step = move.step /\ move'.who = move.who
              /\ move'.touched \subseteq move.touched
          BY <4>1 DEF TypeOK, MoveType
        <4>3. move # NoMove
          BY <3>1 DEF Touch, NoMove
        <4> QED BY <4>1, <4>2, <4>3 DEF MoveShape
      <3> QED BY <3>2, <3>3
    <2> QED
      BY <1>3, <2>1, <2>2, <2>3, <2>4
         DEF Act, Move, FN_ClientCommand, kz_mpbhop_ClientPutInServer,
             kz_mpbhop_ClientDisconnected, Spawn, Die, kz_cmd_checkpoint, kz_cmd_gocheck
  <1>4. CASE UNCHANGED vars
    BY <1>4 DEF vars, MoveShape
  <1> QED BY <1>1, <1>2, <1>3, <1>4 DEF Next

\* A player who does not act is not in a move, before the step or after it.
LEMMA Bystander ==
  ASSUME TypeOK, MoveShape, NEW q \in Players, Act(q), NEW p \in Players \ {q}
  PROVE  p \notin move.who /\ p \notin move'.who
  <1>1. move = NoMove \/ q \in move.who
    BY DEF Act, Move, FN_ClientCommand, kz_mpbhop_ClientPutInServer,
           kz_mpbhop_ClientDisconnected, Spawn, Die, kz_cmd_checkpoint, kz_cmd_gocheck,
           kz_mpbhop_PlayerPreThink, Think, ThinkAfterThrow, ThinkInAir, ThinkOnBlock,
           ThinkOnGround, PM_Move, kz_mpbhop_DispatchTouch, TouchAside, Touch,
           TouchGround, TouchNext, TouchBriefly, TouchAgain, Throw
  <1>2. p \notin move.who
    BY <1>1 DEF MoveShape, NoMove
  <1>3. move'.who \subseteq move.who \cup {q}
    <2>1. CASE UNCHANGED move
      BY <2>1
    <2>2. CASE kz_mpbhop_PlayerPreThink(q)
      BY <2>2 DEF kz_mpbhop_PlayerPreThink, Think, ThinkAfterThrow, ThinkInAir,
                  ThinkOnBlock, ThinkOnGround
    <2>3. ASSUME NEW place \in Places, NEW other \in SUBSET g_blocks,
                 PM_Move(q, place, other)
          PROVE move'.who \subseteq move.who \cup {q}
      BY <2>3 DEF PM_Move, NoMove
    <2>4. ASSUME NEW e \in g_blocks, Touch(q, e)
          PROVE move'.who \subseteq move.who \cup {q}
      BY <2>4 DEF Touch, NoMove, TypeOK, MoveType
    <2> QED
      BY <2>1, <2>2, <2>3, <2>4
         DEF Act, Move, FN_ClientCommand, kz_mpbhop_ClientPutInServer,
             kz_mpbhop_ClientDisconnected, Spawn, Die, kz_cmd_checkpoint, kz_cmd_gocheck,
             kz_mpbhop_DispatchTouch, TouchAside, TouchGround, TouchNext, TouchBriefly,
             TouchAgain, Throw
  <1> QED BY <1>2, <1>3

-----------------------------------------------------------------------------
(* The invariant of a player, step by step.                                *)

\* The actions of one player keep the invariant of another.
LEMMA KeepsOthers ==
  ASSUME NEW q \in Players, NEW p \in Players \ {q}, Frame(q),
         p \notin move.who, p \notin move'.who, PlayerInv(p)
  PROVE  PlayerInv(p)'
  <1>1. /\ UNCHANGED <<map, time, g_blocks>>
        /\ engine'[p] = engine[p] /\ bhop'[p] = bhop[p] /\ kz'[p] = kz[p]
        /\ moved'[p] = moved[p] /\ since'[p] = since[p]
        /\ stood'[p] = stood[p] /\ latest'[p] = latest[p]
        /\ own'[p] = own[p] /\ guest'[p] = guest[p]
    BY DEF Frame
  <1>2. ~Pending(p) /\ ~Pending(p)'
    BY DEF Pending
  <1>3. Clocks(p)'
    BY <1>1 DEF PlayerInv, Clocks, Alive
  <1>4. Resting(p)'
    BY <1>1, <1>2 DEF PlayerInv, Resting, Alive, OnBlock
  <1>5. Frozen(p)'
    BY <1>1, <1>2 DEF PlayerInv, Frozen, Alive, OnBlock
  <1>6. Latest(p)' /\ Spots(p)'
    BY <1>1 DEF PlayerInv, Latest, Spots, Alive, OnBlock, LastSlot
  <1> QED BY <1>3, <1>4, <1>5, <1>6 DEF PlayerInv

\* A new map finds nobody on it, and the clock goes on for a player only
\* while his next move is not overdue.
LEMMA MapAndClock ==
  ASSUME TypeOK, NEW p \in Players, PlayerInv(p), Tick \/ \E m \in Maps : MapStart(m)
  PROVE  PlayerInv(p)'
  <1>1. ASSUME NEW m \in Maps, MapStart(m) PROVE PlayerInv(p)'
    <2>1. engine'[p].state = "out"
      BY <1>1 DEF MapStart, Nobody
    <2>2. Latest(p)'
      BY <1>1 DEF MapStart, PlayerInv, Latest, LastSlot
    <2> QED BY <2>1, <2>2 DEF PlayerInv, Clocks, Resting, Frozen, Spots, Alive
  <1>2. CASE Tick
    <2>1. ~Pending(p) /\ ~Pending(p)' /\ move.step # "think"
      BY <1>2 DEF Tick, Pending, NoMove
    <2>2. time \in Nat /\ moved[p] \in Nat /\ since[p] \in Nat /\ bhop[p].first_touch \in Nat
      BY DEF TypeOK, TimeType, HistoryType, BhopType
    <2>3. Clocks(p)'
      BY <1>2, <2>2, GameplayAssumption, SMTT(30) DEF Tick, PlayerInv, Clocks, Alive
    <2>4. Resting(p)' /\ Frozen(p)'
      BY <1>2, <2>1 DEF Tick, PlayerInv, Resting, Frozen, Alive, OnBlock
    <2>5. Latest(p)' /\ Spots(p)'
      BY <1>2 DEF Tick, PlayerInv, Latest, Spots, Alive, OnBlock, LastSlot
    <2> QED BY <2>3, <2>4, <2>5 DEF PlayerInv
  <1> QED BY <1>1, <1>2

\* The types of what the arithmetic below is about.
LEMMA Numbers ==
  ASSUME TypeOK, NEW p \in Players
  PROVE  /\ time \in Nat /\ moved[p] \in Nat /\ since[p] \in Nat
         /\ bhop[p].first_touch \in Nat
         /\ Short \in Nat /\ Long \in Nat /\ MaxLag \in Nat
         /\ Air \notin g_blocks
  BY GameplayAssumption DEF TypeOK, TimeType, HistoryType, BhopType

\* PlayerPreThink starts a move of a player who was in none, and changes only
\* his flags and his saved spot.
LEMMA ThinkFacts ==
  ASSUME TypeOK, NEW p \in Players, kz_mpbhop_PlayerPreThink(p)
  PROVE  /\ Alive(p) /\ move = NoMove
         /\ move'.step = "think" /\ p \in move'.who
         /\ UNCHANGED <<map, time, g_blocks, engine, kz, moved, since, latest, own, guest>>
         /\ bhop'[p].block_touch = bhop[p].block_touch
         /\ bhop'[p].first_touch = bhop[p].first_touch
         /\ \/ bhop'[p].origin = bhop[p].origin /\ stood' = stood
            \/ /\ OnGround(p) /\ ~OnBlock(p)
               /\ bhop'[p].origin = engine[p].at /\ stood'[p] = engine[p].at
  BY DEF kz_mpbhop_PlayerPreThink, Think, ThinkAfterThrow, ThinkInAir, ThinkOnBlock,
         ThinkOnGround, TypeOK, BhopType, HistoryType

\* A player joins, leaves, spawns or dies outside of any move; what he is over
\* is not asked before he has moved.
LEMMA ComingAndGoing ==
  ASSUME TypeOK, NEW p \in Players, PlayerInv(p),
         \/ kz_mpbhop_ClientPutInServer(p) \/ kz_mpbhop_ClientDisconnected(p)
         \/ (\E place \in Places : Spawn(p, place)) \/ Die(p)
  PROVE  PlayerInv(p)'
  <1> USE DEF TypeOK, EngineType, BhopType, HistoryType
  <1>1. CASE kz_mpbhop_ClientPutInServer(p)
    <2>1. /\ engine'[p].state = "dead" /\ bhop'[p].first_touch = 0 /\ stood'[p] = Nowhere
          /\ ~own'[p] /\ UNCHANGED <<time, kz, latest>>
      BY <1>1 DEF kz_mpbhop_ClientPutInServer, NewBhop
    <2> QED BY <2>1, Numbers, SMTT(30)
           DEF PlayerInv, Clocks, Resting, Frozen, Latest, Spots, Alive, LastSlot
  <1>2. CASE kz_mpbhop_ClientDisconnected(p)
    <2>1. engine'[p].state = "out" /\ UNCHANGED <<kz, latest>>
      BY <1>2 DEF kz_mpbhop_ClientDisconnected, Nobody
    <2> QED BY <2>1 DEF PlayerInv, Clocks, Resting, Frozen, Latest, Spots, Alive, LastSlot
  <1>3. ASSUME NEW place \in Places, Spawn(p, place) PROVE PlayerInv(p)'
    <2>1. /\ engine[p].state = "dead" /\ engine'[p].ground = Air
          /\ moved'[p] = time /\ since'[p] = 0
          /\ UNCHANGED <<map, time, g_blocks, bhop, kz, stood, latest, own, guest>>
      BY <1>3 DEF Spawn
    <2>2. ~OnBlock(p)'
      BY <2>1, Numbers DEF OnBlock
    <2>3. Clocks(p)'
      BY <2>1, Numbers DEF PlayerInv, Clocks
    <2> QED BY <2>1, <2>2, <2>3 DEF PlayerInv, Resting, Frozen, Latest, Spots, LastSlot
  <1>4. CASE Die(p)
    <2>1. /\ Alive(p) /\ engine'[p].state = "dead"
          /\ UNCHANGED <<map, time, g_blocks, bhop, kz, stood, latest, own, guest>>
      BY <1>4 DEF Die, Nobody
    <2> QED BY <2>1 DEF PlayerInv, Clocks, Resting, Frozen, Latest, Spots, Alive, LastSlot
  <1> QED BY <1>1, <1>2, <1>3, <1>4

\* Starting a move keeps it: a spot that is saved is what he stands on.
LEMMA ThinkKeeps ==
  ASSUME TypeOK, NEW p \in Players, PlayerInv(p), kz_mpbhop_PlayerPreThink(p)
  PROVE  PlayerInv(p)'
  <1>1. ~Pending(p)
    BY ThinkFacts DEF Pending, NoMove
  <1>2. Clocks(p)' /\ Latest(p)'
    BY ThinkFacts DEF PlayerInv, Clocks, Latest, Alive, LastSlot
  <1>3. Resting(p)' /\ Frozen(p)'
    BY ThinkFacts, <1>1 DEF PlayerInv, Resting, Frozen, Alive, OnBlock
  <1>4. Spots(p)'
    BY ThinkFacts DEF PlayerInv, Spots, Alive, OnBlock, OnGround, LastSlot
  <1> QED BY <1>2, <1>3, <1>4 DEF PlayerInv

\* The engine's move keeps it: a block he has come to is still to be touched.
LEMMA MoveKeeps ==
  ASSUME TypeOK, NEW p \in Players, PlayerInv(p),
         NEW place \in Places, NEW other \in SUBSET g_blocks, PM_Move(p, place, other)
  PROVE  PlayerInv(p)'
  <1> DEFINE ground == Under[map][place]
  <1>1. Alive(p) /\ move.step = "think" /\ p \in move.who
    BY DEF PM_Move, TypeOK, MoveType
  <1>2. /\ engine'[p].state = "alive" /\ engine'[p].at = place /\ engine'[p].ground = ground
        /\ UNCHANGED <<map, time, g_blocks, bhop, kz, stood, latest, own, guest>>
    BY <1>1 DEF PM_Move, TypeOK, EngineType, Alive
  <1>3. /\ ground \in g_blocks => moved' = moved
        /\ ground \notin g_blocks => moved'[p] = time
        /\ ground \notin g_blocks => since'[p] = 0
        /\ ground \in g_blocks =>
             IF ground = engine[p].ground THEN since' = since ELSE since'[p] = time
    BY DEF PM_Move, TypeOK, HistoryType
  <1>4. ground \in g_blocks => Pending(p)'
    BY <1>2 DEF PM_Move, Pending
  <1>5. ~Pending(p)
    BY <1>1 DEF Pending
  <1>6. Clocks(p)'
    BY <1>1, <1>2, <1>3, Numbers DEF PlayerInv, Clocks, Alive
  <1>7. Resting(p)'
    BY <1>1, <1>2, <1>3, <1>4, <1>5 DEF PlayerInv, Resting, Alive, OnBlock
  <1>8. Frozen(p)'
    BY <1>2, <1>4 DEF Frozen, OnBlock
  <1>9. Latest(p)' /\ Spots(p)'
    BY <1>1, <1>2 DEF PlayerInv, Latest, Spots, Alive, OnBlock, LastSlot
  <1> QED BY <1>6, <1>7, <1>8, <1>9 DEF PlayerInv

\* The ways in which a block answers a touch.
LEMMA TouchFacts ==
  ASSUME TypeOK, NEW p \in Players, NEW e \in g_blocks, kz_mpbhop_DispatchTouch(p, e)
  PROVE  /\ Touch(p, e) /\ Alive(p)
         /\ engine'[p].state = "alive" /\ engine'[p].ground = engine[p].ground
         /\ bhop'[p].frozen /\ bhop'[p].origin = bhop[p].origin
         /\ \/ /\ e # engine[p].ground
               /\ UNCHANGED <<engine, moved, since>>
               /\ bhop'[p].block_touch = bhop[p].block_touch
               /\ bhop'[p].first_touch = bhop[p].first_touch
            \/ /\ e = engine[p].ground
               /\ bhop'[p].block_touch = e /\ moved'[p] = time
               /\ \/ /\ e # bhop[p].block_touch
                     /\ bhop'[p].first_touch = time /\ UNCHANGED <<engine, since>>
                  \/ /\ e = bhop[p].block_touch /\ Touching(p) <= Short
                     /\ bhop'[p].first_touch = bhop[p].first_touch
                     /\ UNCHANGED <<engine, since>>
                  \/ /\ e = bhop[p].block_touch /\ Touching(p) > Long
                     /\ bhop'[p].first_touch = time /\ UNCHANGED <<engine, since>>
                  \/ /\ e = bhop[p].block_touch
                     /\ bhop'[p].first_touch = bhop[p].first_touch
                     /\ since'[p] = time
  <1> USE DEF TypeOK, EngineType, BhopType, HistoryType
  <1>1. Touch(p, e) /\ Alive(p)
    BY DEF kz_mpbhop_DispatchTouch, TouchAside, TouchGround, TouchNext, TouchBriefly,
           TouchAgain, Throw, Touch, MoveType
  <1>2. CASE TouchAside(p, e)
    BY <1>1, <1>2 DEF TouchAside, Alive
  <1>3. CASE TouchNext(p, e)
    BY <1>1, <1>3 DEF TouchNext, TouchGround, Alive
  <1>4. CASE TouchBriefly(p, e)
    BY <1>1, <1>4 DEF TouchBriefly, TouchGround, Alive
  <1>5. CASE TouchAgain(p, e)
    BY <1>1, <1>5, ZenonT(40) DEF TouchAgain, TouchGround, Alive
  <1>6. CASE Throw(p, e)
    BY <1>1, <1>6, ZenonT(40) DEF Throw, TouchGround, Teleported, Alive
  <1> QED BY <1>2, <1>3, <1>4, <1>5, <1>6 DEF kz_mpbhop_DispatchTouch

\* A touch keeps it.  The window of a block is at least one move wide, so a
\* player who is not thrown early is not passed over later.
LEMMA TouchKeeps ==
  ASSUME TypeOK, NEW p \in Players, PlayerInv(p), NEW e \in g_blocks,
         kz_mpbhop_DispatchTouch(p, e)
  PROVE  PlayerInv(p)'
  <1>1. /\ UNCHANGED <<map, time, g_blocks, kz, stood, latest, own, guest>>
        /\ move.step = "touch" /\ p \in move.who /\ e \in move.touched
    BY TouchFacts DEF Touch
  <1>2. Clocks(p)'
    BY TouchFacts, <1>1, Numbers, GameplayAssumption DEF PlayerInv, Clocks, Alive
  <1>3. Frozen(p)'
    BY TouchFacts DEF Frozen
  <1>4. Latest(p)'
    BY <1>1 DEF PlayerInv, Latest, LastSlot
  <1>5. CASE e # engine[p].ground
    <2>1. /\ UNCHANGED <<engine, moved, since>>
          /\ bhop'[p].block_touch = bhop[p].block_touch
          /\ bhop'[p].first_touch = bhop[p].first_touch
          /\ bhop'[p].origin = bhop[p].origin
      BY <1>5, TouchFacts
    <2>2. Pending(p) => Pending(p)'
      <3>1. SUFFICES ASSUME Pending(p) PROVE Pending(p)'
        OBVIOUS
      <3>2. engine[p].ground \in move.touched \ {e}
        BY <1>5, <3>1 DEF Pending
      <3>3. move' = [move EXCEPT !.touched = @ \ {e}]
        BY <3>2, TouchFacts DEF Touch
      <3> QED BY <1>1, <2>1, <3>2, <3>3 DEF Pending, TypeOK, MoveType
    <2>3. Resting(p)'
      BY <1>1, <2>1, <2>2 DEF PlayerInv, Resting, Alive, OnBlock
    <2>4. Spots(p)'
      BY <1>1, <2>1 DEF PlayerInv, Spots, Alive, OnBlock, LastSlot
    <2> QED BY <1>2, <1>3, <1>4, <2>3, <2>4 DEF PlayerInv
  <1>6. CASE e = engine[p].ground
    <2>1. OnBlock(p) /\ OnBlock(p)' /\ Alive(p)
      BY <1>1, <1>6, TouchFacts DEF OnBlock
    <2>2. Resting(p)'
      <3>1. bhop'[p].block_touch = engine'[p].ground /\ moved'[p] = time
        BY <1>6, TouchFacts
      <3>2. bhop'[p].first_touch <= moved'[p]
        BY <1>6, <2>1, TouchFacts, Numbers DEF PlayerInv, Clocks, Alive
      <3>3. \/ moved'[p] = since'[p]
            \/ /\ bhop'[p].first_touch <= since'[p] + MaxLag
               /\ moved'[p] <= bhop'[p].first_touch + Short
        <4>1. CASE since'[p] = time
          BY <3>1, <4>1
        <4>2. CASE since'[p] # time
          <5>1. /\ since' = since
                /\ \/ e # bhop[p].block_touch /\ bhop'[p].first_touch = time
                   \/ Touching(p) <= Short /\ bhop'[p].first_touch = bhop[p].first_touch
                   \/ Touching(p) > Long /\ bhop'[p].first_touch = time
            BY <1>6, <4>2, TouchFacts
          <5>2. /\ bhop[p].block_touch = e
                /\ bhop[p].first_touch <= moved[p]
                /\ \/ moved[p] = since[p]
                   \/ /\ bhop[p].first_touch <= since[p] + MaxLag
                      /\ moved[p] <= bhop[p].first_touch + Short
            BY <1>6, <2>1, <4>2, <5>1 DEF PlayerInv, Resting
          <5>3. moved[p] <= time /\ time <= moved[p] + MaxLag
            BY <2>1 DEF PlayerInv, Clocks
          <5> QED BY <3>1, <5>1, <5>2, <5>3, Numbers, LagAssumption DEF Touching
        <4> QED BY <4>1, <4>2
      <3> QED BY <3>1, <3>2, <3>3 DEF Resting
    <2>3. Spots(p)'
      BY <1>1, <2>1, TouchFacts DEF PlayerInv, Spots, Alive, LastSlot
    <2> QED BY <1>2, <1>3, <1>4, <2>2, <2>3 DEF PlayerInv
  <1> QED BY <1>5, <1>6

\* The slot before the next one is the slot that was filled.
LEMMA CheckpointFacts ==
  ASSUME TypeOK, NEW p \in Players, kz_cmd_checkpoint(p)
  PROVE  /\ kz'[p].cp_count # 0
         /\ kz'[p].checkpoints[LastSlot(p)'] = engine[p].at
         /\ latest'[p] = engine[p].at /\ own'[p]
  <1> DEFINE i == kz[p].cp_index
  <1>1. i \in Ring /\ KZ_MAX_CHECKPOINT_CACHE \in Nat \ {0}
    BY GameplayAssumption DEF TypeOK, KzType
  <1>2. /\ kz'[p].cp_index = (i + 1) % KZ_MAX_CHECKPOINT_CACHE
        /\ kz'[p].cp_count = kz[p].cp_count + 1
        /\ kz'[p].checkpoints = [kz[p].checkpoints EXCEPT ![i] = engine[p].at]
        /\ latest'[p] = engine[p].at /\ own'[p]
    BY DEF kz_cmd_checkpoint, TypeOK, KzType, HistoryType
  <1>3. kz'[p].cp_index = IF i = KZ_MAX_CHECKPOINT_CACHE - 1 THEN 0 ELSE i + 1
    BY <1>1, <1>2, RingStep DEF Ring
  <1>4. LastSlot(p)' = i
    BY <1>1, <1>3 DEF LastSlot, Ring
  <1>5. kz'[p].checkpoints[i] = engine[p].at
    BY <1>1, <1>2 DEF TypeOK, KzType
  <1>6. kz'[p].cp_count # 0
    BY <1>2 DEF TypeOK, KzType
  <1> QED BY <1>2, <1>4, <1>5, <1>6

\* Saving a checkpoint keeps it: outside of a move, who is not frozen does not
\* stand on a block.
LEMMA CheckpointKeeps ==
  ASSUME TypeOK, NEW p \in Players, PlayerInv(p), kz_cmd_checkpoint(p)
  PROVE  PlayerInv(p)' /\ engine[p].ground \notin g_blocks \cup {Air}
  <1>1. /\ Alive(p) /\ move = NoMove /\ ~bhop[p].frozen
        /\ OnGround(p) \/ engine[p].ground = Ladder
        /\ UNCHANGED <<map, time, g_blocks, engine, move, bhop, moved, since, stood, guest>>
    BY DEF kz_cmd_checkpoint
  <1>2. engine[p].ground \notin g_blocks \cup {Air}
    BY <1>1, GameplayAssumption DEF PlayerInv, Frozen, NoMove, Pending, OnBlock, OnGround
  <1>3. Clocks(p)' /\ Resting(p)' /\ Frozen(p)'
    BY <1>1 DEF PlayerInv, Clocks, Resting, Frozen, Alive, OnBlock, Pending
  <1>4. Latest(p)'
    BY CheckpointFacts DEF Latest
  <1>5. Spots(p)'
    BY <1>1, <1>2, CheckpointFacts DEF PlayerInv, Spots, Alive, OnBlock
  <1> QED BY <1>2, <1>3, <1>4, <1>5 DEF PlayerInv

\* Using one keeps it.
LEMMA GocheckKeeps ==
  ASSUME TypeOK, NEW p \in Players, PlayerInv(p), kz_cmd_gocheck(p)
  PROVE  PlayerInv(p)' /\ latest[p] = engine'[p].at
  <1>1. /\ kz[p].cp_count # 0
        /\ engine'[p].at = kz[p].checkpoints[LastSlot(p)]
        /\ engine'[p].state = engine[p].state /\ engine'[p].ground = engine[p].ground
        /\ kz'[p].checkpoints = kz[p].checkpoints /\ kz'[p].cp_index = kz[p].cp_index
        /\ kz'[p].cp_count = kz[p].cp_count
        /\ guest'[p] = (guest[p] \/ ~own[p])
        /\ Alive(p) /\ move = NoMove
        /\ UNCHANGED <<map, time, g_blocks, move, bhop, moved, since, stood, latest, own>>
    BY DEF kz_cmd_gocheck, Teleported, TypeOK, EngineType, KzType, HistoryType
  <1>2. latest[p] = engine'[p].at
    BY <1>1 DEF PlayerInv, Latest
  <1>3. LastSlot(p)' = LastSlot(p)
    BY <1>1 DEF LastSlot
  <1>4. ~Pending(p) /\ ~Pending(p)'
    BY <1>1 DEF Pending, NoMove
  <1>5. Clocks(p)' /\ Resting(p)' /\ Frozen(p)'
    BY <1>1, <1>4 DEF PlayerInv, Clocks, Resting, Frozen, Alive, OnBlock
  <1>6. Latest(p)' /\ Spots(p)'
    BY <1>1, <1>3 DEF PlayerInv, Latest, Spots, Alive, OnBlock
  <1> QED BY <1>2, <1>5, <1>6 DEF PlayerInv

-----------------------------------------------------------------------------
(* The theorems.                                                           *)

\* The invariant holds at first.
LEMMA InvInit == Init => IInv
  <1> SUFFICES ASSUME Init PROVE IInv
    OBVIOUS
  <1>1. MoveShape
    BY DEF Init, MoveShape
  <1>2. ASSUME NEW p \in Players PROVE PlayerInv(p)
    <2>1. engine[p].state = "out" /\ kz[p].cp_count = 0
      BY DEF Init, Nobody, NewPlayer
    <2> QED BY <2>1 DEF PlayerInv, Clocks, Resting, Frozen, Latest, Spots, Alive
  <1> QED BY <1>1, <1>2, TypeInit DEF IInv

\* Every step keeps it.
LEMMA InvNext == IInv /\ [Next]_vars => IInv'
  <1> SUFFICES ASSUME IInv, [Next]_vars PROVE IInv'
    OBVIOUS
  <1>1. TypeOK /\ MoveShape /\ TypeOK' /\ MoveShape'
    BY TypeNext, MoveShapeNext DEF IInv
  <1>2. ASSUME NEW p \in Players PROVE PlayerInv(p)'
    <2>1. PlayerInv(p)
      BY DEF IInv
    <2>2. CASE Tick \/ \E m \in Maps : MapStart(m)
      BY <1>1, <2>1, <2>2, MapAndClock
    <2>3. CASE Act(p)
      BY <1>1, <2>1, <2>3, ComingAndGoing, ThinkKeeps, MoveKeeps, TouchKeeps,
         CheckpointKeeps, GocheckKeeps
         DEF Act, Move, FN_ClientCommand
    <2>4. ASSUME NEW q \in Players \ {p}, Act(q) PROVE PlayerInv(p)'
      BY <1>1, <2>1, <2>4, ActFrame, Bystander, KeepsOthers
    <2>5. CASE UNCHANGED vars
      BY <2>1, <2>5
         DEF vars, PlayerInv, Clocks, Resting, Frozen, Latest, Spots, Alive, OnBlock,
             LastSlot, Pending
    <2> QED BY <2>2, <2>3, <2>4, <2>5 DEF Next
  <1> QED BY <1>1, <1>2 DEF IInv

\* Nobody rests on a block for longer than Short and two of his moves.
THEOREM RestBound == Spec => []RestIsBounded
  <1>1. IInv => RestIsBounded
    <2> SUFFICES ASSUME IInv, NEW p \in Players, Alive(p), OnBlock(p)
                 PROVE  time - since[p] <= Short + 2 * MaxLag
      BY DEF RestIsBounded
    <2>1. Clocks(p) /\ Resting(p) /\ TypeOK
      BY DEF IInv, PlayerInv
    <2> QED BY <2>1, Numbers DEF Clocks, Resting
  <1> QED BY <1>1, InvInit, InvNext, PTL DEF Spec

\* A throw takes a player to a spot of his own that is not a block.
THEOREM ThrowTarget == Spec => ThrowsOffTheBlocks
  <1>1. IInv /\ [Next]_vars =>
          [\A p \in Players, e \in g_blocks :
             (Throw(p, e) /\ stood[p] # Nowhere /\ ~guest[p]) =>
               /\ stood[p] = engine'[p].at
               /\ Under[map][engine'[p].at] \notin g_blocks]_vars
    <2> SUFFICES ASSUME IInv, NEW p \in Players, NEW e \in g_blocks, Throw(p, e),
                        stood[p] # Nowhere, ~guest[p]
                 PROVE  stood[p] = engine'[p].at /\ Under[map][engine'[p].at] \notin g_blocks
      OBVIOUS
    <2>1. TypeOK /\ Spots(p)
      BY DEF IInv, PlayerInv
    <2>2. Alive(p) /\ engine'[p].at = bhop[p].origin
      BY <2>1 DEF Throw, TouchGround, Touch, Teleported, TypeOK, EngineType, MoveType
    <2> QED BY <2>1, <2>2 DEF Spots, Alive
  <1> QED BY <1>1, InvInit, InvNext, PTL DEF Spec, ThrowsOffTheBlocks

\* Which steps change the counters: a checkpoint and a gocheck, of the player.
LEMMA Counters ==
  ASSUME TypeOK, [Next]_vars, NEW p \in Players
  PROVE  /\ kz'[p].cp_count > kz[p].cp_count => kz_cmd_checkpoint(p)
         /\ kz'[p].tp_count > kz[p].tp_count => kz_cmd_gocheck(p)
  <1>0. kz[p].cp_count \in Nat /\ kz[p].tp_count \in Nat
    BY DEF TypeOK, KzType
  <1>1. CASE kz'[p] = kz[p]
    BY <1>0, <1>1
  <1>2. CASE kz'[p] # kz[p]
    <2>0. kz' # kz
      BY <1>2
    <2>a. PICK q \in Players : Act(q)
      BY <2>0 DEF Next, MapStart, Tick, vars
    <2>b. ASSUME kz_mpbhop_PlayerPreThink(q) PROVE kz' = kz
      BY <2>b DEF kz_mpbhop_PlayerPreThink, Think, ThinkAfterThrow, ThinkInAir,
                  ThinkOnBlock, ThinkOnGround
    <2>c. ASSUME NEW e \in g_blocks, kz_mpbhop_DispatchTouch(q, e) PROVE kz' = kz
      BY <2>c DEF kz_mpbhop_DispatchTouch, TouchAside, Touch, TouchGround, TouchNext,
                  TouchBriefly, TouchAgain, Throw
    <2>1. kz_cmd_checkpoint(q) \/ kz_cmd_gocheck(q)
      BY <2>0, <2>a, <2>b, <2>c DEF Act, Move, FN_ClientCommand, kz_mpbhop_ClientPutInServer,
         kz_mpbhop_ClientDisconnected, Spawn, Die, PM_Move
    <2>2. q = p
      BY <1>2, <2>1 DEF kz_cmd_checkpoint, kz_cmd_gocheck, TypeOK, KzType
    <2>3. kz_cmd_gocheck(p) => kz'[p].cp_count = kz[p].cp_count
      BY DEF kz_cmd_gocheck, TypeOK, KzType
    <2>4. kz_cmd_checkpoint(p) => kz'[p].tp_count = kz[p].tp_count
      BY DEF kz_cmd_checkpoint, TypeOK, KzType
    <2> QED BY <1>0, <2>1, <2>2, <2>3, <2>4
  <1> QED BY <1>1, <1>2

\* No checkpoint is saved in the air or on a block.
THEOREM CheckpointGround == Spec => CheckpointsOffBlocks
  <1>1. IInv /\ [Next]_vars =>
          [\A p \in Players :
             kz'[p].cp_count > kz[p].cp_count =>
               engine[p].state = "alive" /\ engine[p].ground \notin g_blocks \cup {Air}]_vars
    <2> SUFFICES ASSUME IInv, [Next]_vars, NEW p \in Players,
                        kz'[p].cp_count > kz[p].cp_count
                 PROVE  /\ engine[p].state = "alive"
                        /\ engine[p].ground \notin g_blocks \cup {Air}
      OBVIOUS
    <2>1. TypeOK /\ PlayerInv(p) /\ kz_cmd_checkpoint(p)
      BY Counters DEF IInv
    <2> QED BY <2>1, CheckpointKeeps DEF kz_cmd_checkpoint, Alive
  <1> QED BY <1>1, InvInit, InvNext, PTL DEF Spec, CheckpointsOffBlocks

\* Gocheck goes to the last checkpoint of the slot, whatever the ring's size.
THEOREM GocheckTarget == Spec => GocheckGoesToLatest
  <1>1. IInv /\ [Next]_vars =>
          [\A p \in Players :
             kz'[p].tp_count > kz[p].tp_count => latest[p] = engine'[p].at]_vars
    <2> SUFFICES ASSUME IInv, [Next]_vars, NEW p \in Players,
                        kz'[p].tp_count > kz[p].tp_count
                 PROVE  latest[p] = engine'[p].at
      OBVIOUS
    <2>1. TypeOK /\ PlayerInv(p) /\ kz_cmd_gocheck(p)
      BY Counters DEF IInv
    <2> QED BY <2>1, GocheckKeeps
  <1> QED BY <1>1, InvInit, InvNext, PTL DEF Spec, GocheckGoesToLatest

-----------------------------------------------------------------------------
(***************************************************************************)
(* The detection of the blocks.  The recursive function that stands for    *)
(* the loop over the triggers has values, since each is made of the one    *)
(* before; what it finds up to an edict starts a chain, by induction over  *)
(* the edicts, and what starts one it sees is found, by induction over the *)
(* chain from its end.                                                     *)
(***************************************************************************)
\* A set of natural numbers has a least element.
LEMMA LeastNat ==
  ASSUME NEW S, S \subseteq Nat, S # {}
  PROVE  \E x \in S : \A y \in S : x <= y
<1>1. PICK x \in S : \A y \in S : <<y, x>> \notin OpToRel(<, Nat)
  BY WFMin, NatLessThanWellFounded, Zenon
<1>2. \A y \in S : <<y, x>> \in Nat \X Nat => ~ (<<y, x>>[1] < <<y, x>>[2])
  BY <1>1, Zenon DEF OpToRel
<1>3. ASSUME NEW y \in S PROVE x <= y
  <2>1. y \in Nat /\ x \in Nat
    OBVIOUS
  <2>2. <<y, x>> \in Nat \X Nat /\ <<y, x>>[1] = y /\ <<y, x>>[2] = x
    BY <2>1
  <2>3. ~ (<<y, x>>[1] < <<y, x>>[2])
    BY <2>2, <1>2, Zenon
  <2> QED BY <2>1, <2>2, <2>3
<1> QED BY <1>3

\* Induction over the natural numbers, for a set.
LEMMA NatInSet ==
  ASSUME NEW S, 0 \in S, \A n \in Nat : n \in S => n + 1 \in S
  PROVE  Nat \subseteq S
<1> SUFFICES ASSUME Nat \ S # {} PROVE FALSE
  OBVIOUS
<1>1. PICK x \in Nat \ S : \A y \in Nat \ S : x <= y
  BY LeastNat
<1>2. x - 1 \in Nat /\ x - 1 \in S
  BY <1>1
<1> QED BY <1>1, <1>2

\* One step of set_class_multiple: what the triggers up to e make of the blocks.
Body(ents, blocks, g, e) ==
  IF e = 0 THEN blocks
  ELSE g[e - 1] \cup (IF IsTriggerOf(ents, g[e - 1], e) THEN {e} ELSE {})

\* The blocks after each of the triggers of set_class_multiple.
UpTo(ents, blocks) == CHOOSE f : f = [e \in 0 .. Len(ents) |-> Body(ents, blocks, f, e)]

\* The recursion of set_class_multiple defines a function.
LEMMA UpToRecursion ==
  ASSUME NEW ents, Len(ents) \in Nat, NEW blocks
  PROVE  UpTo(ents, blocks) =
           [e \in 0 .. Len(ents) |-> Body(ents, blocks, UpTo(ents, blocks), e)]
<1> DEFINE Good(f, n) == f = [e \in 0 .. n |-> Body(ents, blocks, f, e)]
           S == {n \in Nat : \E f : Good(f, n)}
<1>1. 0 \in S
  <2> DEFINE f == [e \in 0 .. 0 |-> blocks]
  <2>1. \A e \in 0 .. 0 : Body(ents, blocks, f, e) = blocks
    BY DEF Body
  <2>2. Good(f, 0)
    BY <2>1, Zenon
  <2> QED BY <2>2
<1>2. ASSUME NEW n \in Nat, n \in S PROVE n + 1 \in S
  <2>1. PICK g : Good(g, n)
    BY <1>2
  <2> DEFINE f == [e \in 0 .. n + 1 |-> IF e = n + 1 THEN Body(ents, blocks, g, e) ELSE g[e]]
  <2>2. ASSUME NEW e \in 0 .. n + 1 PROVE f[e] = Body(ents, blocks, f, e)
    <3>1. CASE e = 0
      BY <2>1, <3>1 DEF Body
    <3>2. CASE e # 0
      <4>1. e - 1 \in 0 .. n /\ e - 1 # n + 1
        BY <3>2
      <4>2. f[e - 1] = g[e - 1]
        BY <4>1
      <4>3. Body(ents, blocks, f, e) = Body(ents, blocks, g, e)
        BY <4>2 DEF Body
      <4>4. e # n + 1 => g[e] = Body(ents, blocks, g, e)
        <5>1. e # n + 1 => e \in 0 .. n
          OBVIOUS
        <5> QED BY <5>1, <2>1
      <4> QED BY <4>3, <4>4
    <3> QED BY <3>1, <3>2
  <2>3. Good(f, n + 1)
    <3> HIDE DEF f
    <3>1. f = [e \in 0 .. n + 1 |-> f[e]]
      BY DEF f
    <3> QED BY <2>2, <3>1
  <2> HIDE DEF f, Good
  <2> QED BY <2>3
<1>3. Len(ents) \in S
  <2> HIDE DEF S
  <2> QED BY <1>1, <1>2, NatInSet
<1>4. \E f : f = [e \in 0 .. Len(ents) |-> Body(ents, blocks, f, e)]
  BY <1>3
<1> QED BY <1>4, Zenon DEF UpTo

\* set_class_multiple, by its steps.
LEMMA TriggersStepByStep ==
  ASSUME NEW ents, Len(ents) \in Nat, NEW blocks
  PROVE  /\ set_class_multiple(ents, blocks) = UpTo(ents, blocks)[Len(ents)]
         /\ UpTo(ents, blocks)[0] = blocks
         /\ \A e \in 1 .. Len(ents) :
              UpTo(ents, blocks)[e] =
                UpTo(ents, blocks)[e - 1] \cup
                  (IF IsTriggerOf(ents, UpTo(ents, blocks)[e - 1], e) THEN {e} ELSE {})
<1>1. set_class_multiple(ents, blocks) = UpTo(ents, blocks)[Len(ents)]
  BY DEF set_class_multiple, UpTo, Body
<1> DEFINE U == UpTo(ents, blocks)
<1>2. U = [e \in 0 .. Len(ents) |-> Body(ents, blocks, U, e)]
  BY UpToRecursion
<1> HIDE DEF U
<1>3. \A e \in 0 .. Len(ents) : U[e] = Body(ents, blocks, U, e)
  BY <1>2
<1>4. U[0] = blocks
  <2>1. 0 \in 0 .. Len(ents)
    OBVIOUS
  <2>2. U[0] = Body(ents, blocks, U, 0)
    BY <2>1, <1>3
  <2> QED BY <2>2, Zenon DEF Body
<1>5. ASSUME NEW e \in 1 .. Len(ents)
      PROVE  U[e] = U[e - 1] \cup (IF IsTriggerOf(ents, U[e - 1], e) THEN {e} ELSE {})
  <2>1. e \in 0 .. Len(ents) /\ e # 0
    OBVIOUS
  <2>2. U[e] = Body(ents, blocks, U, e)
    BY <2>1, <1>3
  <2> QED BY <2>1, <2>2 DEF Body
<1> QED BY <1>1, <1>4, <1>5 DEF U

\* The blocks found up to a trigger.
Found(ents, e) == UpTo(ents, Solid(ents))[e]

\* A solid block is no trigger.
LEMMA SolidIsNoTrigger ==
  ASSUME NEW ents, NEW e \in Solid(ents)
  PROVE  e \in DOMAIN ents /\ ents[e].class # "trigger_multiple"
  BY DEF Solid, set_class_doors, set_class_buttons, set_class_wall_toggle, OfClass

\* What has been found stays; and whatever is no solid block is a trigger of
\* something found before it.
LEMMA FoundShape ==
  ASSUME NEW T, NEW ents \in Seq(T)
  PROVE  \A j \in 0 .. Len(ents) :
           /\ Found(ents, j) \subseteq DOMAIN ents
           /\ \A i \in 0 .. j : Found(ents, i) \subseteq Found(ents, j)
           /\ \A k \in Found(ents, j) :
                \/ k \in Solid(ents)
                \/ k \in 1 .. j /\ IsTriggerOf(ents, Found(ents, k - 1), k)
<1> DEFINE N == Len(ents)
           Shape(j) ==
             /\ Found(ents, j) \subseteq DOMAIN ents
             /\ \A i \in 0 .. j : Found(ents, i) \subseteq Found(ents, j)
             /\ \A k \in Found(ents, j) :
                  \/ k \in Solid(ents)
                  \/ k \in 1 .. j /\ IsTriggerOf(ents, Found(ents, k - 1), k)
           S == {j \in Nat : j <= N => Shape(j)}
<1>0. N \in Nat /\ DOMAIN ents = 1 .. N
  OBVIOUS
<1>f. /\ Found(ents, 0) = Solid(ents)
      /\ \A e \in 1 .. N :
           Found(ents, e) =
             Found(ents, e - 1) \cup
               (IF IsTriggerOf(ents, Found(ents, e - 1), e) THEN {e} ELSE {})
  BY <1>0, TriggersStepByStep DEF Found
<1>1. 0 \in S
  <2>1. \A i \in 0 .. 0 : i = 0
    OBVIOUS
  <2>2. Solid(ents) \subseteq DOMAIN ents
    BY SolidIsNoTrigger
  <2> QED BY <2>1, <2>2, <1>f
<1>2. ASSUME NEW j \in Nat, j \in S PROVE j + 1 \in S
  <2> SUFFICES ASSUME j + 1 <= N PROVE Shape(j + 1)
    OBVIOUS
  <2>1. j + 1 \in 1 .. N /\ (j + 1) - 1 = j /\ j <= N
    BY <1>0
  <2>2. Shape(j)
    BY <1>2, <2>1
  <2>3. \/ Found(ents, j + 1) = Found(ents, j)
        \/ /\ Found(ents, j + 1) = Found(ents, j) \cup {j + 1}
           /\ IsTriggerOf(ents, Found(ents, (j + 1) - 1), j + 1)
    BY <2>1, <1>f
  <2>4. Found(ents, j + 1) \subseteq DOMAIN ents
    BY <2>1, <2>2, <2>3, <1>0
  <2>5. \A i \in 0 .. j + 1 : Found(ents, i) \subseteq Found(ents, j + 1)
    <3>1. \A i \in 0 .. j + 1 : i \in 0 .. j \/ i = j + 1
      OBVIOUS
    <3> QED BY <3>1, <2>2, <2>3
  <2>6. \A k \in Found(ents, j + 1) :
          \/ k \in Solid(ents)
          \/ k \in 1 .. j + 1 /\ IsTriggerOf(ents, Found(ents, k - 1), k)
    <3>1. \A k \in 1 .. j : k \in 1 .. j + 1
      OBVIOUS
    <3>2. j + 1 \in 1 .. j + 1
      OBVIOUS
    <3> QED BY <3>1, <3>2, <2>2, <2>3
  <2> HIDE DEF Shape
  <2> QED BY <2>4, <2>5, <2>6 DEF Shape
<1>3. Nat \subseteq S
  <2> HIDE DEF S
  <2> QED BY <1>1, <1>2, NatInSet
<1>4. \A j \in 0 .. N : j \in Nat /\ j <= N
  BY <1>0
<1> QED BY <1>3, <1>4

Trigger(ents, e) == ents[e].class = "trigger_multiple"

Triggers(ents, j) == {t \in 1 .. j : Trigger(ents, t)}

\* A chain of targets from one entity to another.
Links(ents, c) ==
  \A i \in 1 .. Len(c) - 1 :
    /\ Trigger(ents, c[i])
    /\ ents[c[i]].target # NoName
    /\ Named(ents, ents[c[i]].target) = c[i + 1]
    /\ c[i + 1] < c[i] \/ ~Trigger(ents, c[i + 1])

\* There is one more trigger to count, at most.
LEMMA TriggersCounted ==
  ASSUME NEW ents, NEW j \in Nat
  PROVE  /\ IsFiniteSet(Triggers(ents, j))
         /\ Cardinality(Triggers(ents, j)) \in Nat
         /\ Cardinality(Triggers(ents, j)) <= Cardinality(Triggers(ents, j + 1))
         /\ Trigger(ents, j + 1) =>
              Cardinality(Triggers(ents, j + 1)) = Cardinality(Triggers(ents, j)) + 1
<1>1. /\ IsFiniteSet(1 .. j) /\ IsFiniteSet(1 .. j + 1)
  BY FS_Interval
<1>2. /\ Triggers(ents, j) \subseteq 1 .. j
      /\ Triggers(ents, j + 1) \subseteq 1 .. j + 1
      /\ Triggers(ents, j) \subseteq Triggers(ents, j + 1)
      /\ j + 1 \notin Triggers(ents, j)
  BY DEF Triggers
<1>3. IsFiniteSet(Triggers(ents, j)) /\ IsFiniteSet(Triggers(ents, j + 1))
  BY <1>1, <1>2, FS_Subset
<1>4. Trigger(ents, j + 1) => Triggers(ents, j + 1) = Triggers(ents, j) \cup {j + 1}
  BY DEF Triggers
<1>5. Cardinality(Triggers(ents, j)) \in Nat
  BY <1>3, FS_CardinalityType
<1>6. Cardinality(Triggers(ents, j)) <= Cardinality(Triggers(ents, j + 1))
  BY <1>2, <1>3, FS_Subset
<1>7. Trigger(ents, j + 1) =>
        Cardinality(Triggers(ents, j + 1)) = Cardinality(Triggers(ents, j)) + 1
  BY <1>2, <1>3, <1>4, FS_AddElement
<1> QED BY <1>3, <1>5, <1>6, <1>7

\* Whatever is found is the start of a chain, which has room for each trigger
\* found so far and one solid block.
LEMMA FoundHasChain ==
  ASSUME NEW T, NEW ents \in Seq(T)
  PROVE  \A j \in 0 .. Len(ents) : \A k \in Found(ents, j) :
           \E c \in Seq(DOMAIN ents) :
             /\ Len(c) \in 1 .. Cardinality(Triggers(ents, j)) + 1
             /\ c[1] = k /\ c[Len(c)] \in Solid(ents)
             /\ Links(ents, c)
<1> DEFINE N == Len(ents)
           Starts(k, j) ==
             \E c \in Seq(DOMAIN ents) :
               /\ Len(c) \in 1 .. Cardinality(Triggers(ents, j)) + 1
               /\ c[1] = k /\ c[Len(c)] \in Solid(ents)
               /\ Links(ents, c)
           S == {j \in Nat : j <= N => \A k \in Found(ents, j) : Starts(k, j)}
<1>0. N \in Nat /\ DOMAIN ents = 1 .. N
  OBVIOUS
<1>1. 0 \in S
  <2> SUFFICES ASSUME NEW k \in Found(ents, 0) PROVE Starts(k, 0)
    OBVIOUS
  <2>1. k \in Solid(ents) /\ k \in DOMAIN ents
    <3>1. 0 \in 0 .. N /\ \A i \in 1 .. 0 : FALSE
      BY <1>0
    <3> QED BY <3>1, FoundShape, SolidIsNoTrigger
  <2>2. Cardinality(Triggers(ents, 0)) \in Nat
    BY TriggersCounted
  <2> DEFINE c == <<k>>
  <2>3. c \in Seq(DOMAIN ents) /\ Len(c) = 1 /\ c[1] = k
    BY <2>1
  <2>4. Links(ents, c)
    BY <2>3 DEF Links
  <2>5. Len(c) \in 1 .. Cardinality(Triggers(ents, 0)) + 1
    BY <2>2, <2>3
  <2> HIDE DEF c
  <2> QED BY <2>1, <2>3, <2>4, <2>5
<1>2. ASSUME NEW j \in Nat, j \in S PROVE j + 1 \in S
  <2> SUFFICES ASSUME j + 1 <= N, NEW k \in Found(ents, j + 1) PROVE Starts(k, j + 1)
    OBVIOUS
  <2> DEFINE n == Cardinality(Triggers(ents, j))
             m == Cardinality(Triggers(ents, j + 1))
  <2>1. /\ j <= N /\ j + 1 \in 0 .. N /\ j \in 0 .. N /\ j + 1 \in 1 .. N
        /\ (j + 1) - 1 = j
    BY <1>0
  <2>2. n \in Nat /\ m \in Nat /\ n <= m /\ (Trigger(ents, j + 1) => m = n + 1)
    <3>1. j + 1 \in Nat
      OBVIOUS
    <3> QED BY <3>1, TriggersCounted
  <2>3. ASSUME NEW h \in Found(ents, j)
        PROVE  \E c \in Seq(DOMAIN ents) :
                 /\ Len(c) \in 1 .. n + 1
                 /\ c[1] = h /\ c[Len(c)] \in Solid(ents)
                 /\ Links(ents, c)
    BY <1>2, <2>1
  <2> HIDE DEF n, m
  <2>4. CASE k \in Found(ents, j)
    <3>1. PICK c \in Seq(DOMAIN ents) :
            /\ Len(c) \in 1 .. n + 1
            /\ c[1] = k /\ c[Len(c)] \in Solid(ents)
            /\ Links(ents, c)
      BY <2>3, <2>4
    <3>2. Len(c) \in 1 .. m + 1
      BY <2>2, <3>1
    <3> QED BY <3>1, <3>2 DEF m
  <2>5. CASE k \notin Found(ents, j)
    <3>1. k = j + 1 /\ IsTriggerOf(ents, Found(ents, j), k)
      <4>1. Found(ents, j + 1) =
              Found(ents, j) \cup
                (IF IsTriggerOf(ents, Found(ents, j), j + 1) THEN {j + 1} ELSE {})
        BY <1>0, <2>1, TriggersStepByStep DEF Found
      <4> QED BY <4>1, <2>5
    <3> DEFINE h == Named(ents, ents[k].target)
    <3>2. h \in Found(ents, j) /\ Trigger(ents, k) /\ ents[k].target # NoName
      BY <3>1 DEF IsTriggerOf, Trigger
    <3>3. h < k \/ ~Trigger(ents, h)
      <4>1. h \in Solid(ents) \/ h \in 1 .. j
        BY <2>1, <3>2, FoundShape
      <4>2. h \in 1 .. j => h < k
        BY <3>1
      <4>3. h \in Solid(ents) => ~Trigger(ents, h)
        BY SolidIsNoTrigger DEF Trigger
      <4> QED BY <4>1, <4>2, <4>3
    <3> HIDE DEF h
    <3>4. PICK c \in Seq(DOMAIN ents) :
            /\ Len(c) \in 1 .. n + 1
            /\ c[1] = h /\ c[Len(c)] \in Solid(ents)
            /\ Links(ents, c)
      BY <2>3, <3>2
    <3> DEFINE d == [i \in 1 .. Len(c) + 1 |-> IF i = 1 THEN k ELSE c[i - 1]]
    <3>5. /\ k \in DOMAIN ents
          /\ Len(c) \in Nat /\ Len(c) >= 1 /\ Len(c) <= n + 1
          /\ \A i \in 1 .. Len(c) : c[i] \in DOMAIN ents
      BY <3>1, <3>4, <2>1, <2>2, <1>0
    <3>6. /\ d \in Seq(DOMAIN ents) /\ Len(d) = Len(c) + 1 /\ d[1] = k
          /\ \A i \in 1 .. Len(c) : d[i + 1] = c[i]
      <4>1. \A i \in 1 .. Len(c) + 1 : i # 1 => i - 1 \in 1 .. Len(c)
        BY <3>5
      <4>2. \A i \in 1 .. Len(c) + 1 : d[i] \in DOMAIN ents
        BY <3>5, <4>1
      <4>3. d \in Seq(DOMAIN ents) /\ Len(d) = Len(c) + 1
        BY <3>5, <4>2
      <4>4. \A i \in 1 .. Len(c) : i + 1 \in 1 .. Len(c) + 1 /\ i + 1 # 1 /\ (i + 1) - 1 = i
        BY <3>5
      <4> QED BY <3>5, <4>3, <4>4
    <3> HIDE DEF d
    <3>7. Len(d) \in 1 .. m + 1
      BY <3>2, <3>1, <3>5, <3>6, <2>2
    <3>8. d[Len(d)] \in Solid(ents)
      <4>1. Len(c) \in 1 .. Len(c)
        BY <3>5
      <4> QED BY <4>1, <3>4, <3>6
    <3>9. Links(ents, d)
      <4> SUFFICES ASSUME NEW i \in 1 .. Len(d) - 1
                   PROVE  /\ Trigger(ents, d[i])
                          /\ ents[d[i]].target # NoName
                          /\ Named(ents, ents[d[i]].target) = d[i + 1]
                          /\ d[i + 1] < d[i] \/ ~Trigger(ents, d[i + 1])
        BY DEF Links
      <4>1. i \in 1 .. Len(c) /\ d[i + 1] = c[i]
        BY <3>5, <3>6
      <4>2. CASE i = 1
        <5>1. d[i] = k /\ d[i + 1] = h
          BY <4>1, <4>2, <3>4, <3>6
        <5> QED BY <5>1, <3>2, <3>3 DEF h
      <4>3. CASE i # 1
        <5>1. i - 1 \in 1 .. Len(c) - 1 /\ i - 1 \in 1 .. Len(c) /\ (i - 1) + 1 = i
          BY <4>1, <4>3, <3>5
        <5>2. d[i] = c[i - 1]
          BY <5>1, <3>6
        <5> QED BY <4>1, <5>1, <5>2, <3>4 DEF Links
      <4> QED BY <4>2, <4>3
    <3> QED BY <3>6, <3>7, <3>8, <3>9 DEF m
  <2> QED BY <2>4, <2>5
<1>3. Nat \subseteq S
  <2> HIDE DEF S
  <2> QED BY <1>1, <1>2, NatInSet
<1>4. \A j \in 0 .. N : j \in Nat /\ j <= N
  BY <1>0
<1> QED BY <1>3, <1>4

\* Every entity of a chain is found, at the latest when its edict is looked at.
LEMMA ChainIsFound ==
  ASSUME NEW T, NEW ents \in Seq(T), NEW c \in Seq(DOMAIN ents), Len(c) >= 1,
         c[Len(c)] \in Solid(ents), Links(ents, c)
  PROVE  c[1] \in Found(ents, Len(ents))
<1> DEFINE N == Len(ents)
           n == Len(c)
           At(e) == e \in Solid(ents) \/ e \in Found(ents, e)
           S == {i \in Nat : i < n => At(c[n - i])}
<1>0. /\ N \in Nat /\ DOMAIN ents = 1 .. N /\ n \in Nat
      /\ \A i \in 1 .. n : c[i] \in 1 .. N
  OBVIOUS
<1>s. Found(ents, 0) = Solid(ents)
  BY <1>0, TriggersStepByStep DEF Found
<1>m. ASSUME NEW i \in 0 .. N, NEW j \in i .. N
      PROVE  Found(ents, i) \subseteq Found(ents, j)
  <2>1. j \in 0 .. N /\ i \in 0 .. j
    BY <1>0
  <2> QED BY <2>1, FoundShape
<1>1. 0 \in S
  <2>1. n - 0 = n
    BY <1>0
  <2> QED BY <2>1
<1>2. ASSUME NEW i \in Nat, i \in S PROVE i + 1 \in S
  <2> SUFFICES ASSUME i + 1 < n PROVE At(c[n - (i + 1)])
    OBVIOUS
  <2> DEFINE k == n - (i + 1)
             e == c[k]
             h == c[k + 1]
  <2>1. /\ k \in 1 .. n - 1 /\ k \in 1 .. n /\ k + 1 \in 1 .. n /\ k + 1 = n - i /\ i < n
    BY <1>0
  <2>2. At(h)
    BY <1>2, <2>1
  <2>3. e \in 1 .. N /\ h \in 1 .. N
    BY <1>0, <2>1
  <2>4. /\ Trigger(ents, e) /\ ents[e].target # NoName
        /\ Named(ents, ents[e].target) = h
        /\ h < e \/ ~Trigger(ents, h)
    BY <2>1 DEF Links
  <2> HIDE DEF k, e, h
  <2>5. e - 1 \in 0 .. N /\ h \in 0 .. N /\ 0 \in 0 .. N
    BY <2>3, <1>0
  <2>6. h \in Found(ents, e - 1)
    <3>1. CASE h \in Solid(ents)
      <4>1. e - 1 \in 0 .. N /\ e - 1 \in Nat
        BY <2>5, <1>0
      <4>2. Found(ents, 0) \subseteq Found(ents, e - 1)
        BY <4>1, <2>5, <1>m
      <4> QED BY <3>1, <4>2, <1>s
    <3>2. CASE h \notin Solid(ents)
      <4>1. h \in Found(ents, h)
        BY <2>2, <3>2
      <4>2. Trigger(ents, h)
        BY <2>5, <3>2, <4>1, FoundShape DEF IsTriggerOf, Trigger
      <4>3. h < e
        BY <2>4, <4>2
      <4>4. e - 1 \in h .. N
        BY <2>3, <4>3, <1>0
      <4> QED BY <2>5, <4>1, <4>4, <1>m
    <3> QED BY <3>1, <3>2
  <2>7. e \in Found(ents, e)
    <3>1. IsTriggerOf(ents, Found(ents, e - 1), e)
      BY <2>4, <2>6 DEF IsTriggerOf, Trigger
    <3>2. Found(ents, e) =
            Found(ents, e - 1) \cup
              (IF IsTriggerOf(ents, Found(ents, e - 1), e) THEN {e} ELSE {})
      BY <1>0, <2>3, TriggersStepByStep DEF Found
    <3> QED BY <3>1, <3>2
  <2> QED BY <2>7 DEF e, k
<1>3. Nat \subseteq S
  <2> HIDE DEF S
  <2> QED BY <1>1, <1>2, NatInSet
<1>4. At(c[1])
  <2>1. n - 1 \in Nat /\ n - 1 < n /\ n - (n - 1) = 1
    BY <1>0
  <2>2. n - 1 \in S
    BY <2>1, <1>3
  <2> QED BY <2>1, <2>2
<1>5. c[1] \in 1 .. N /\ c[1] \in 0 .. N /\ 0 \in 0 .. N
  BY <1>0
<1>6. CASE c[1] \in Solid(ents)
  <2>1. N \in 0 .. N
    BY <1>0
  <2> QED BY <1>5, <1>6, <2>1, <1>m, <1>s
<1>7. CASE c[1] \in Found(ents, c[1])
  <2>1. N \in c[1] .. N
    BY <1>0, <1>5
  <2> QED BY <1>5, <1>7, <2>1, <1>m
<1> QED BY <1>4, <1>6, <1>7

\* FIND_ENTITY_BY_TARGETNAME finds the first entity of a name.
LEMMA NamedIsFirst ==
  ASSUME NEW T, NEW ents \in Seq(T), NEW name, NEW f \in DOMAIN ents
  PROVE  Named(ents, name) = f <=>
           ents[f].name = name /\ \A g \in DOMAIN ents : ents[g].name = name => f <= g
<1> DEFINE es == {e \in DOMAIN ents : ents[e].name = name}
           Least(e) == e \in es /\ \A g \in es : e <= g
<1>0. es \subseteq Nat /\ f \in Nat /\ f # 0
  OBVIOUS
<1>1. CASE es = {}
  BY <1>0, <1>1 DEF Named
<1>2. CASE es # {}
  <2>1. PICK e : Least(e)
    BY <1>0, <1>2, LeastNat
  <2>2. Named(ents, name) = CHOOSE x \in es : \A g \in es : x <= g
    BY <1>2 DEF Named
  <2>3. Least(Named(ents, name))
    BY <2>1, <2>2
  <2>4. \A x, y : Least(x) /\ Least(y) => x = y
    <3> SUFFICES ASSUME NEW x, NEW y, Least(x), Least(y) PROVE x = y
      OBVIOUS
    <3>1. x \in Nat /\ y \in Nat /\ x <= y /\ y <= x
      BY <1>0
    <3> QED BY <3>1
  <2>5. Named(ents, name) = f <=> Least(f)
    BY <2>3, <2>4
  <2> QED BY <2>5
<1> QED BY <1>1, <1>2

(***************************************************************************)
(* kz_mpbhop_init, which goes once through the entities in the order of    *)
(* their edicts and asks for the first of a name, finds nothing but        *)
(* blocks, and all those with a chain in which it overlooks no link: on    *)
(* every map.                                                              *)
(***************************************************************************)
THEOREM DetectionIsSound ==
  ASSUME NEW T, NEW ents \in Seq(T)
  PROVE  /\ \A e \in kz_mpbhop_init(ents) : IsBlock(ents, e)
         /\ \A c \in Chains(ents) : Seen(ents, c) => c[1] \in kz_mpbhop_init(ents)
<1> DEFINE N == Len(ents)
<1>0. N \in Nat /\ DOMAIN ents = 1 .. N /\ N \in 0 .. N
  OBVIOUS
<1>1. kz_mpbhop_init(ents) = {e \in DOMAIN ents : e \in Found(ents, N)}
  BY <1>0, TriggersStepByStep DEF kz_mpbhop_init, Found
<1>2. ASSUME NEW e \in Found(ents, N) PROVE IsBlock(ents, e)
  <2>1. PICK c \in Seq(DOMAIN ents) :
          /\ Len(c) \in 1 .. Cardinality(Triggers(ents, N)) + 1
          /\ c[1] = e /\ c[Len(c)] \in Solid(ents)
          /\ Links(ents, c)
    BY <1>0, FoundHasChain
  <2> DEFINE b == c[Len(c)]
             Ts == Triggers(ents, N)
  <2>2. b \in 1 .. N /\ ~Trigger(ents, b)
    BY <2>1, <1>0, SolidIsNoTrigger DEF Trigger
  <2>3. Cardinality(Ts) + 1 <= N
    <3>1. IsFiniteSet(Ts) /\ Cardinality(Ts) \in Nat
      BY <1>0, TriggersCounted
    <3>2. b \notin Ts /\ Ts \cup {b} \subseteq 1 .. N
      BY <2>2 DEF Triggers
    <3>3. Cardinality(Ts \cup {b}) = Cardinality(Ts) + 1
      BY <3>1, <3>2, FS_AddElement
    <3>4. IsFiniteSet(1 .. N) /\ Cardinality(1 .. N) = N
      <4>1. 1 \in Int /\ N \in Int /\ N \in Nat
        BY <1>0
      <4> HIDE DEF N
      <4>2. /\ IsFiniteSet(1 .. N)
            /\ Cardinality(1 .. N) = IF 1 > N THEN 0 ELSE N - 1 + 1
        BY <4>1, FS_Interval
      <4> QED BY <4>1, <4>2
    <3>5. Cardinality(Ts \cup {b}) <= Cardinality(1 .. N)
      BY <3>2, <3>4, FS_Subset
    <3> QED BY <3>3, <3>4, <3>5
  <2>4. Len(c) \in 1 .. N /\ c \in [1 .. Len(c) -> DOMAIN ents]
    <3>1. Cardinality(Ts) \in Nat
      BY <1>0, TriggersCounted
    <3> HIDE DEF Ts
    <3>2. Len(c) \in 1 .. Cardinality(Ts) + 1
      BY <2>1 DEF Ts
    <3> QED BY <3>1, <3>2, <2>3, <1>0
  <2>5. c \in UNION {[1 .. n -> DOMAIN ents] : n \in 1 .. N}
    BY <2>4
  <2>6. ASSUME NEW i \in 1 .. Len(c) - 1 PROVE Fires(ents, c[i], c[i + 1])
    <3>1. i + 1 \in 1 .. Len(c)
      BY <2>4
    <3>2. c[i + 1] \in DOMAIN ents
      BY <2>4, <3>1
    <3>3. /\ Trigger(ents, c[i]) /\ ents[c[i]].target # NoName
          /\ Named(ents, ents[c[i]].target) = c[i + 1]
      BY <2>1, <2>6 DEF Links
    <3>4. ents[c[i + 1]].name = ents[c[i]].target
      BY <3>2, <3>3, NamedIsFirst
    <3> QED BY <3>3, <3>4 DEF Fires, Trigger
  <2>7. c \in Chains(ents)
    BY <2>1, <2>5, <2>6 DEF Chains
  <2> QED BY <2>1, <2>7 DEF IsBlock
<1>3. ASSUME NEW c \in Chains(ents), Seen(ents, c) PROVE c[1] \in Found(ents, N)
  <2>1. PICK n \in 1 .. N : c \in [1 .. n -> DOMAIN ents]
    BY DEF Chains
  <2>2. c \in Seq(DOMAIN ents) /\ Len(c) = n /\ n >= 1
    BY <2>1, <1>0
  <2>3. ASSUME NEW i \in 1 .. Len(c) - 1
        PROVE  /\ Trigger(ents, c[i]) /\ ents[c[i]].target # NoName
               /\ Named(ents, ents[c[i]].target) = c[i + 1]
               /\ c[i + 1] < c[i] \/ ~Trigger(ents, c[i + 1])
    <3>1. i \in 1 .. n /\ i + 1 \in 1 .. n
      BY <2>2
    <3>2. c[i] \in 1 .. N /\ c[i + 1] \in 1 .. N
      BY <2>1, <3>1, <1>0
    <3>3. Fires(ents, c[i], c[i + 1])
      BY <2>3 DEF Chains
    <3>4. ~Overlooked(ents, c[i], c[i + 1])
      BY <1>3, <2>3 DEF Seen
    <3>5. Trigger(ents, c[i]) /\ ents[c[i]].target # NoName
      BY <3>3 DEF Fires, Trigger
    <3>6. c[i + 1] < c[i] \/ ~Trigger(ents, c[i + 1])
      <4>1. ~ (c[i + 1] >= c[i] /\ Trigger(ents, c[i + 1]))
        BY <3>4 DEF Overlooked, Trigger
      <4>2. c[i] \in Nat /\ c[i + 1] \in Nat
        BY <3>2, <1>0
      <4> QED BY <4>1, <4>2
    <3>7. ASSUME NEW g \in DOMAIN ents, ents[g].name = ents[c[i]].target PROVE c[i + 1] <= g
      <4>1. ents[g].name = ents[c[i + 1]].name
        BY <3>3, <3>7 DEF Fires
      <4>2. ~ (g < c[i + 1])
        BY <3>4, <4>1 DEF Overlooked
      <4>3. g \in Nat /\ c[i + 1] \in Nat
        BY <3>2, <1>0
      <4> QED BY <4>2, <4>3
    <3>8. ents[c[i + 1]].name = ents[c[i]].target
      BY <3>3 DEF Fires
    <3>9. Named(ents, ents[c[i]].target) = c[i + 1]
      BY <3>2, <3>7, <3>8, <1>0, NamedIsFirst
    <3> QED BY <3>5, <3>6, <3>9
  <2>4. c[Len(c)] \in Solid(ents) /\ Links(ents, c)
    BY <2>3 DEF Chains, Links
  <2> QED BY <2>2, <2>4, ChainIsFound
<1>4. \A c \in Chains(ents) : c[1] \in DOMAIN ents
  BY <1>0 DEF Chains
<1> QED BY <1>1, <1>2, <1>3, <1>4

\* From the start of a map to its end, what is marked is a block, and a block
\* that is skipped has an overlooked link in each of its chains.
THEOREM BlocksOfTheMap == Spec => []OnlyOverlookedAreSkipped
<1>1. ASSUME NEW m \in Maps
      PROVE  /\ kz_mpbhop_init(Entities[m]) \subseteq BlocksOf[m]
             /\ SureBlocksOf[m] \subseteq kz_mpbhop_init(Entities[m])
  <2>1. Entities[m] \in Seq(Entity)
    BY GameplayAssumption
  <2>2. kz_mpbhop_init(Entities[m]) \subseteq DOMAIN Entities[m]
    BY DEF kz_mpbhop_init
  <2>3. /\ \A e \in kz_mpbhop_init(Entities[m]) : IsBlock(Entities[m], e)
        /\ \A c \in Chains(Entities[m]) :
             Seen(Entities[m], c) => c[1] \in kz_mpbhop_init(Entities[m])
    BY <2>1, DetectionIsSound
  <2> QED BY <2>2, <2>3 DEF BlocksOf, SureBlocksOf
<1>2. Init => OnlyOverlookedAreSkipped
  BY <1>1 DEF Init, OnlyOverlookedAreSkipped
<1>3. OnlyOverlookedAreSkipped /\ [Next]_vars => OnlyOverlookedAreSkipped'
  <2> SUFFICES ASSUME OnlyOverlookedAreSkipped, [Next]_vars PROVE OnlyOverlookedAreSkipped'
    OBVIOUS
  <2>1. CASE \E m \in Maps : MapStart(m)
    BY <1>1, <2>1 DEF MapStart, OnlyOverlookedAreSkipped
  <2>2. CASE UNCHANGED <<map, g_blocks>>
    BY <2>2 DEF OnlyOverlookedAreSkipped
  <2>3. ASSUME NEW p \in Players, Act(p) PROVE UNCHANGED <<map, g_blocks>>
    BY <2>3 DEF Act, Move, FN_ClientCommand, kz_mpbhop_ClientPutInServer,
       kz_mpbhop_ClientDisconnected, Spawn, Die, PM_Move, kz_mpbhop_PlayerPreThink,
       Think, ThinkAfterThrow, ThinkInAir, ThinkOnBlock, ThinkOnGround,
       kz_mpbhop_DispatchTouch, TouchAside, Touch, TouchGround, TouchNext,
       TouchBriefly, TouchAgain, Throw, kz_cmd_checkpoint, kz_cmd_gocheck
  <2> QED BY <2>1, <2>2, <2>3 DEF Next, Tick, vars
<1> QED BY <1>2, <1>3, PTL DEF Spec
=============================================================================
