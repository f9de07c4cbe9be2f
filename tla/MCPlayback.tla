----------------------------- MODULE MCPlayback -----------------------------
(***************************************************************************)
(* Bounds for TLC: a map with a pro and a nub replay, another map with one *)
(* replay, and a parser queue that can be full.                            *)
(***************************************************************************)
EXTENDS Playback

Files_ == {[map |-> "m1", rank |-> 1], [map |-> "m1", rank |-> 2],
           [map |-> "m2", rank |-> 2]}
=============================================================================
