--------------------------- MODULE MCWebSocketFeed ---------------------------
(* WebSocketFeed for TLC. *)
EXTENDS WebSocketFeed
=============================================================================
