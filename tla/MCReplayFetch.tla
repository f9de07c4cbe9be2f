--------------------------- MODULE MCReplayFetch ---------------------------
(***************************************************************************)
(* Bounds for TLC: two maps, so that answers and downloads for the map     *)
(* that was left meet the one being played; both have both records until   *)
(* an administrator deletes some, and a folder has both replays or none.   *)
(***************************************************************************)
EXTENDS ReplayFetch
=============================================================================
