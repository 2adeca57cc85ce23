--------------------------- MODULE MCMediaExchange ---------------------------
(* MediaExchange for TLC; most constants are given in the configurations.  *)
EXTENDS MediaExchange

\* The dashboard packs up to its first rekey, each peer once.
TextsOfEach == [p \in Parties |-> IF p = Dashboard THEN RekeyInterval ELSE 1]
=============================================================================
