----------------------------- MODULE BhopBlocks -----------------------------
(***************************************************************************)
(* Which entities of a map are bhop blocks (kz_mpbhop_init).               *)
(*                                                                         *)
(* The entities of a map are a sequence in the order of their edict        *)
(* numbers.  An entity is a record [class, flaws, name, target]: "flaws"   *)
(* are the reasons for which the detection leaves a door or a button       *)
(* alone, "name" is its targetname and "target" the name it triggers.      *)
(***************************************************************************)
EXTENDS Naturals, Sequences

CONSTANT NoName     \* the empty string: no target, no targetname

\* A door that hurts, moves up, is thin, makes a noise or is slow.
DoorFlaws == {"dmg", "up", "thin", "noise", "slow"}

\* A button that moves by more than a touch, or starts or stops a timer.
ButtonFlaws == {"no_touch", "start_stop"}

Entity ==
  [class : STRING, flaws : SUBSET (DoorFlaws \cup ButtonFlaws),
   name : STRING \cup {NoName}, target : STRING \cup {NoName}]

\* FIND_ENTITY_BY_CLASSNAME, until there is no further one.
OfClass(ents, class) == {e \in DOMAIN ents : ents[e].class = class}

set_class_doors(ents) ==
  {e \in OfClass(ents, "func_door") : ents[e].flaws \cap DoorFlaws = {}}

set_class_buttons(ents) ==
  {e \in OfClass(ents, "func_button") : ents[e].flaws \cap ButtonFlaws = {}}

set_class_wall_toggle(ents) == OfClass(ents, "func_wall_toggle")

\* FIND_ENTITY_BY_TARGETNAME(NULL, name): the first entity of that name, the
\* only one the detection asks about; 0 is the world.
Named(ents, name) ==
  LET es == {e \in DOMAIN ents : ents[e].name = name}
  IN IF es = {} THEN 0 ELSE CHOOSE e \in es : \A f \in es : e <= f

(***************************************************************************)
(* set_class_multiple: trigger after trigger, in the order of the edicts,  *)
(* one is a block when its target is a block already.                      *)
(***************************************************************************)
IsTriggerOf(ents, blocks, e) ==
  /\ ents[e].class = "trigger_multiple"
  /\ ents[e].target # NoName
  /\ Named(ents, ents[e].target) \in blocks

set_class_multiple(ents, blocks) ==
  LET upto[e \in 0 .. Len(ents)] ==
        IF e = 0 THEN blocks
        ELSE upto[e - 1] \cup
             (IF IsTriggerOf(ents, upto[e - 1], e) THEN {e} ELSE {})
  IN upto[Len(ents)]

\* The blocks that need no other entity.
Solid(ents) ==
  set_class_doors(ents) \cup set_class_buttons(ents) \cup set_class_wall_toggle(ents)

\* Mutant: the triggers are looked at before the walls.
kz_mpbhop_init_Early(ents) ==
  set_class_multiple(ents, set_class_doors(ents) \cup set_class_buttons(ents))
    \cup set_class_wall_toggle(ents)

kz_mpbhop_init(ents) == {e \in DOMAIN ents : e \in set_class_multiple(ents, Solid(ents))}

(***************************************************************************)
(* The reference: a trigger is a block when it triggers one, however many  *)
(* triggers are in between, whatever their edict numbers are, and whoever  *)
(* else has the name it triggers: the game fires all entities of the name. *)
(***************************************************************************)
Fires(ents, e, f) ==
  /\ ents[e].class = "trigger_multiple"
  /\ ents[e].target # NoName
  /\ ents[f].name = ents[e].target

Chains(ents) ==
  {c \in UNION {[1 .. n -> DOMAIN ents] : n \in 1 .. Len(ents)} :
     /\ c[Len(c)] \in Solid(ents)
     /\ \A i \in 1 .. Len(c) - 1 : Fires(ents, c[i], c[i + 1])}

IsBlock(ents, e) == \E c \in Chains(ents) : c[1] = e

\* What the detection does not look at: a target that is not the first of its
\* name, and one that is a trigger and comes later than the one asking.
Overlooked(ents, e, f) ==
  \/ \E g \in DOMAIN ents : g < f /\ ents[g].name = ents[f].name
  \/ f >= e /\ ents[f].class = "trigger_multiple"

Seen(ents, c) == \A i \in 1 .. Len(c) - 1 : ~Overlooked(ents, c[i], c[i + 1])
=============================================================================
