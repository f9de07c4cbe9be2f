------------------------------ MODULE MCUpload ------------------------------
(* A small instance of Upload: one replay, of which up to three uploads may *)
(* be saved, two by the WebSocket thread and one by the game thread.        *)
EXTENDS Upload

CONSTANTS main, ws, r1, a1, a2, b1

MCThreads == {main, ws}
MCUids    == {r1}
MCSaver   == [m \in Msgs |-> IF m = b1 THEN main ELSE ws]
MCTableOf == [m \in Msgs |-> "upload_queue"]
MCTypeOf  == [m \in Msgs |-> 0]
MCTextOf  == [m \in Msgs |-> r1]
=============================================================================
