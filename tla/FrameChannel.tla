----------------------------- MODULE FrameChannel -----------------------------
(***************************************************************************)
(* What a connection promises to those who read frames from it: frames     *)
(* come whole, in the order they were written, each to one reader.  One    *)
(* may be passed over only if readers have got in each other's way.        *)
(***************************************************************************)
EXTENDS Integers, Sequences

VARIABLES
    written, \* how many frames have been written
    taken,   \* the numbers of the frames read, in the order they were read
    crossed  \* whether two readers were ever at it at once

channelVars == <<written, taken, crossed>>

ChannelInit == written = 0 /\ taken = << >> /\ crossed = FALSE

LastTaken == IF taken = << >> THEN 0 ELSE taken[Len(taken)]

Write == written' = written + 1 /\ UNCHANGED <<taken, crossed>>

Take ==
    /\ \E k \in LastTaken + 1 .. written :
          /\ ~ crossed => k = LastTaken + 1
          /\ taken' = Append(taken, k)
    /\ UNCHANGED <<written, crossed>>

Cross == crossed' = TRUE /\ UNCHANGED <<written, taken>>

ChannelNext == Write \/ Take \/ Cross

ChannelSpec == ChannelInit /\ [][ChannelNext]_channelVars
=============================================================================
