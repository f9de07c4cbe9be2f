----------------------------- MODULE MCWsClient -----------------------------
(***************************************************************************)
(* Bounds for TLC: a queue of one task is full after one message and a log *)
(* of one line after one line, so the WebSocket thread may wait for a game *)
(* thread that waits for it.                                               *)
(***************************************************************************)
EXTENDS WsClient
=============================================================================
