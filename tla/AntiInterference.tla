-------------------------- MODULE AntiInterference --------------------------
(***************************************************************************)
(* The anti-interference engine of security/anti_interference.py as pure   *)
(* operators: an engine is a record, a call of verify_packet maps an       *)
(* engine, a packet and the time of the call to the engine it leaves       *)
(* behind, and Passed tells whether that call lets the packet through.     *)
(*                                                                         *)
(* Time is discrete.  The list of arrival times is kept as the number of   *)
(* arrivals at each instant: the code only filters it by age and takes its *)
(* length.  Log wording and severities are left out.                       *)
(***************************************************************************)
EXTENDS Integers, FiniteSets, Functions

CONSTANTS
    WindowSize,            \* window_size, 1000 by default
    MaxPacketsPerSec,      \* max_packets_per_sec, 250
    RateWindow,            \* the one second over which the rate is counted
    ReplayWindowSeconds,   \* REPLAY_WINDOW_SECONDS, 30
    MaxTime,               \* bound: the last instant of the model
    ZeroTag                \* the all-zero auth_tag, which is never remembered

ASSUME WindowAssumption == WindowSize \in Nat \ {0}
ASSUME RateAssumption ==
    MaxPacketsPerSec \in Nat /\ RateWindow \in Nat /\ ReplayWindowSeconds \in Nat
ASSUME TimeAssumption == MaxTime \in Nat

Time == 0 .. MaxTime

TYPE_DATA  == 2
TYPE_CLOSE == 6

NewEngine ==
    [ last_seq_num           |-> 0,
      seen_seq_nums          |-> {},
      seen_signatures        |-> {},
      packet_rate_history    |-> [t \in Time |-> 0],
      session_closed         |-> FALSE,
      sequence_gaps_detected |-> 0 ]

-----------------------------------------------------------------------------
(* The interferences a packet p can be charged with when it reaches engine *)
(* e at time now.                                                          *)

Drifted(p, now) ==
    \/ now - p.timestamp > ReplayWindowSeconds
    \/ p.timestamp - now > ReplayWindowSeconds

Replayed(e, p) == p.seq_num \in e.seen_seq_nums

\* Faulty variant: the window one number too wide.
OutOfWindow_wide(e, p) ==
    /\ p.seq_num \notin e.seen_seq_nums
    /\ p.seq_num < e.last_seq_num - WindowSize - 1

OutOfWindow(e, p) ==
    /\ p.seq_num \notin e.seen_seq_nums
    /\ p.seq_num < e.last_seq_num - WindowSize

DuplicateTag(e, p) ==
    /\ p.auth_tag \in e.seen_signatures
    /\ p.auth_tag # ZeroTag

\* Faulty variants: a gap of one frame overlooked; late frames counted too.
MissingCount_overlooks(e, p) ==
    IF e.last_seq_num > 0 /\ p.seq_num > e.last_seq_num + 2
    THEN p.seq_num - (e.last_seq_num + 1)
    ELSE 0

MissingCount_late(e, p) ==
    IF e.last_seq_num > 0 THEN p.seq_num - (e.last_seq_num + 1) ELSE 0

\* Frames missing between the highest sequence number passed and p.  The
\* gap is only reported; it never stops a packet.
MissingCount(e, p) ==
    IF e.last_seq_num > 0 /\ p.seq_num > e.last_seq_num + 1
    THEN p.seq_num - (e.last_seq_num + 1)
    ELSE 0

\* Faulty variant: arrivals exactly one second old already dropped.
Arrived_short(history, now) ==
    [ t \in Time |-> IF now - t >= RateWindow THEN 0
                     ELSE IF t = now THEN history[t] + 1 ELSE history[t] ]

\* The arrivals of the last second once the one at time now is recorded.
Arrived(history, now) ==
    [ t \in Time |-> IF now - t > RateWindow THEN 0
                     ELSE IF t = now THEN history[t] + 1 ELSE history[t] ]

Flooded(e, now) ==
    SumFunction(Arrived(e.packet_rate_history, now)) > MaxPacketsPerSec

\* No fatal interference: the "passed" of the result, and equally the
\* condition under which the sequence number is committed.
Passed(e, p, now) ==
    /\ ~ e.session_closed
    /\ ~ Drifted(p, now)
    /\ ~ Replayed(e, p)
    /\ ~ OutOfWindow(e, p)
    /\ ~ DuplicateTag(e, p)
    /\ ~ Flooded(e, now)

-----------------------------------------------------------------------------
(* What a call leaves behind.                                              *)

\* The part that runs whether or not the packet passes.
Observe(e, p, now) ==
    [ e EXCEPT !.sequence_gaps_detected = @ + MissingCount(e, p),
               !.packet_rate_history    = Arrived(@, now),
               !.session_closed         = @ \/ p.msg_type = TYPE_CLOSE ]

\* Faulty variants: one number too many forgotten; tags never forgotten.
TrimSeen_eager(seen, last) ==
    IF Cardinality(seen) > WindowSize * 2
    THEN {s \in seen : s > last - WindowSize + 1}
    ELSE seen

TrimSignatures_never(tags) == tags

TrimSeen(seen, last) ==
    IF Cardinality(seen) > WindowSize * 2
    THEN {s \in seen : s > last - WindowSize}
    ELSE seen

TrimSignatures(tags) == IF Cardinality(tags) > WindowSize * 2 THEN {} ELSE tags

Highest(last, seq) == IF seq > last THEN seq ELSE last

\* Faulty variant: a frame that does not advance the front is not recorded.
Commit_advancing(e, p) ==
    IF p.seq_num > e.last_seq_num
    THEN [ e EXCEPT !.last_seq_num    = p.seq_num,
                    !.seen_seq_nums   = TrimSeen(@ \cup {p.seq_num}, p.seq_num),
                    !.seen_signatures = TrimSignatures(@ \cup ({p.auth_tag} \ {ZeroTag})) ]
    ELSE e

Commit(e, p) ==
    LET last == Highest(e.last_seq_num, p.seq_num)
    IN  [ e EXCEPT !.last_seq_num    = last,
                   !.seen_seq_nums   = TrimSeen(@ \cup {p.seq_num}, last),
                   !.seen_signatures = TrimSignatures(@ \cup ({p.auth_tag} \ {ZeroTag})) ]

\* Faulty variant: a rejected packet is recorded like one that passed.
VerifyPacket_always(e, p, now) == Commit(Observe(e, p, now), p)

VerifyPacket(e, p, now) ==
    IF Passed(e, p, now) THEN Commit(Observe(e, p, now), p)
                         ELSE Observe(e, p, now)
=============================================================================
