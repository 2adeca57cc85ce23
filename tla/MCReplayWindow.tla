--------------------------- MODULE MCReplayWindow ---------------------------
(* ReplayWindow for TLC; the constants are given in the configurations. *)
EXTENDS ReplayWindow
=============================================================================
