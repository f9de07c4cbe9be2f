------------------------------ MODULE MCOutbox ------------------------------
(* A small instance of Outbox: a player message of the game thread, and a   *)
(* record of the replay writer.                                             *)
EXTENDS Outbox

CONSTANTS main, writer, ws, join, rec

MCThreads == {main, writer, ws}
MCSaver   == [m \in Msgs |-> IF m = join THEN main ELSE writer]
MCTableOf == [m \in Msgs |-> "outgoing_queue"]
MCTypeOf  == [m \in Msgs |-> IF m = join THEN PLAYER_JOIN ELSE ADD_RECORD]
MCTextOf  == [m \in Msgs |-> m]
=============================================================================
