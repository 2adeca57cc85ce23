---------------------------- MODULE MCFrameStream ----------------------------
(* FrameStream for TLC; the constants are given in the configuration. *)
EXTENDS FrameStream
=============================================================================
