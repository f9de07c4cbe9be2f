----------------------------- MODULE MCGameplay -----------------------------
(***************************************************************************)
(* Bounds for TLC: one slot, two maps.  On the first, the entities are a   *)
(* door, a trigger on it, and a trigger on that, which comes before it and *)
(* is skipped; on the second, ground and block have changed places, and    *)
(* the last trigger is skipped, since a button has the name of its wall.   *)
(***************************************************************************)
EXTENDS Gameplay

E(class, flaws, name, target) ==
  [class |-> class, flaws |-> flaws, name |-> name, target |-> target]

MCEntities ==
  [first |->
     <<E("trigger_multiple", {}, NoName, "chain"),
       E("func_door", {}, "door", NoName),
       E("trigger_multiple", {}, "chain", "door"),
       E("func_door", {"dmg"}, "door", NoName)>>,
   second |->
     <<E("trigger_multiple", {}, NoName, "wall"),
       E("func_wall_toggle", {}, "wall", NoName),
       E("func_button", {"start_stop"}, "start", NoName),
       E("trigger_multiple", {}, NoName, "start"),
       E("func_wall_toggle", {}, "start", NoName)>>]

MCMaps == {"first", "second"}

\* The air, ground, a block, and a low place: a train on the first map, a
\* ladder on the second, where ground and block have changed places.
MCPlaces == {"zero", "ground", "block", "low"}

MCUnder ==
  [first  |-> [zero |-> Air, ground |-> 0, block |-> 2, low |-> 4],
   second |-> [zero |-> Air, ground |-> 2, block |-> 0, low |-> Ladder]]

MCMoving == [first |-> {4}, second |-> {}]
=============================================================================
