--------------------------- MODULE BoundedDelivery ---------------------------
(***************************************************************************)
(* What a sliding-window receiver promises, whatever the medium does:      *)
(* only issued frames are handed up, never one older than the window, and  *)
(* none more often than its place in the window allows.  A frame inside    *)
(* the window is handed up once.  A frame exactly WindowSize behind the    *)
(* front may be handed up a second time: the strongest promise the code    *)
(* keeps (see AcceptedAtMostOnce in ReplayWindow).                         *)
(***************************************************************************)
EXTENDS Integers

CONSTANTS WindowSize, MaxSeq

VARIABLES
    issued,   \* the number of frames issued so far, numbered from 1
    front,    \* the highest number handed up so far
    copies    \* how often each frame was handed up

vars == <<issued, front, copies>>

Seqs == 1 .. MaxSeq

Init == issued = 0 /\ front = 0 /\ copies = [s \in Seqs |-> 0]

Issue ==
    /\ issued < MaxSeq
    /\ issued' = issued + 1
    /\ UNCHANGED <<front, copies>>

CopiesAllowed(s) == IF s = front - WindowSize THEN 2 ELSE 1

HandUp(s) ==
    /\ s <= issued
    /\ s >= front - WindowSize
    /\ copies[s] < CopiesAllowed(s)
    /\ copies' = [copies EXCEPT ![s] = @ + 1]
    /\ front' = IF s > front THEN s ELSE front
    /\ UNCHANGED issued

Next == Issue \/ \E s \in Seqs : HandUp(s)

Spec == Init /\ [][Next]_vars
=============================================================================
