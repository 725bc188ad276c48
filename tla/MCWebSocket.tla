---------------------------- MODULE MCWebSocket -----------------------------
(* WebSocket with one writer: with the reader's pongs and Close there are   *)
(* three processes that write frames.                                       *)
EXTENDS WebSocket
=============================================================================
