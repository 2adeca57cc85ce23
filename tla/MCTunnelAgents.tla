--------------------------- MODULE MCTunnelAgents ---------------------------
(* TunnelAgents for TLC: the constants that a configuration cannot write. *)
EXTENDS TunnelAgents

CONSTANTS c1, c2, ip1, NoPin

OneClient  == {c1}
TwoClients == {c1, c2}

\* Two clients behind one address, and the pins they were given: the right
\* fingerprint, none, or another's.
SameIp     == [c \in {c1, c2} |-> ip1]
Unpinned   == [c \in {c1, c2} |-> NoPeer]
RightPin   == [c \in {c1, c2} |-> <<Server, 0>>]
WrongPin   == [c \in {c1, c2} |-> IF c = c2 THEN NoPin ELSE NoPeer]
=============================================================================
