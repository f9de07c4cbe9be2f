----------------------------- MODULE MCWorkers ------------------------------
(***************************************************************************)
(* Bounds for TLC: two local runs, so the second may find the compress     *)
(* thread busy, asleep, about to sleep or gone, or its queue full.         *)
(***************************************************************************)
EXTENDS Workers

Cap_ == [writer |-> 2, upload |-> 1, compress |-> 1]

Timed_ == {"compress"}  \* as in the code
=============================================================================
