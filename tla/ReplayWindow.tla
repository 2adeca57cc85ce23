---------------------------- MODULE ReplayWindow ----------------------------
(***************************************************************************)
(* A sender that numbers and stamps frames as wrap_payload does, a medium  *)
(* that loses, delays, reorders and repeats them, and one anti-            *)
(* interference engine that sees every arrival.  The question is which     *)
(* frames the engine lets through, how often, and what it remembers.       *)
(*                                                                         *)
(* The medium is a set of frames ever sent: any of them may arrive at any  *)
(* time and any number of times, or never.  Every frame carries its own    *)
(* auth_tag, since the HMAC covers the number and a fresh random nonce.    *)
(***************************************************************************)
EXTENDS AntiInterference

CONSTANTS
    MaxSeq,     \* bound: frames sent
    MaxBurst,   \* bound: arrivals at one instant
    MaxSkew     \* the sender's clock is off by at most this much

ASSUME SenderAssumption == MaxSeq \in Nat /\ MaxBurst \in Nat /\ MaxSkew \in Nat

Seqs == 1 .. MaxSeq

VARIABLES
    now,          \* the receiver's clock
    seq_counter,  \* the sender's frame counter
    sent,         \* every frame handed to the medium
    engine,       \* the receiver's AntiInterferenceEngine
    passes,       \* history: how often each number was let through
    pass_times,   \* history: how many frames were let through at each instant
    first_seq     \* history: the number of the first frame let through

vars == <<now, seq_counter, sent, engine, passes, pass_times, first_seq>>

Frames ==
    { f \in [ seq_num : Seqs, timestamp : Int, auth_tag : Seqs,
              msg_type : {TYPE_DATA, TYPE_CLOSE} ] : f.auth_tag = f.seq_num }

Engines ==
    [ last_seq_num : Nat, seen_seq_nums : SUBSET Seqs,
      seen_signatures : SUBSET Seqs, packet_rate_history : [Time -> Nat],
      session_closed : BOOLEAN, sequence_gaps_detected : Nat ]

TypeOK ==
    /\ now \in Time
    /\ seq_counter \in 0 .. MaxSeq
    /\ sent \subseteq Frames
    /\ engine \in Engines
    /\ passes \in [Seqs -> Nat]
    /\ pass_times \in [Time -> Nat]
    /\ first_seq \in Nat

Init ==
    /\ now = 0
    /\ seq_counter = 0
    /\ sent = {}
    /\ engine = NewEngine
    /\ passes = [s \in Seqs |-> 0]
    /\ pass_times = [t \in Time |-> 0]
    /\ first_seq = 0

Tick ==
    /\ now < MaxTime
    /\ now' = now + 1
    /\ UNCHANGED <<seq_counter, sent, engine, passes, pass_times, first_seq>>

\* wrap_payload: count, stamp with the sender's own clock, send.
Send(type) ==
    /\ seq_counter < MaxSeq
    /\ seq_counter' = seq_counter + 1
    /\ \E skew \in -MaxSkew .. MaxSkew :
          sent' = sent \cup { [ seq_num   |-> seq_counter',
                                timestamp |-> now + skew,
                                auth_tag  |-> seq_counter',
                                msg_type  |-> type ] }
    /\ UNCHANGED <<now, engine, passes, pass_times, first_seq>>

\* process_incoming_frame hands an arriving frame to verify_packet.
Deliver(f) ==
    /\ engine.packet_rate_history[now] < MaxBurst
    /\ engine' = VerifyPacket(engine, f, now)
    /\ IF Passed(engine, f, now)
       THEN /\ passes' = [passes EXCEPT ![f.seq_num] = @ + 1]
            /\ pass_times' = [pass_times EXCEPT ![now] = @ + 1]
            /\ first_seq' = IF first_seq = 0 THEN f.seq_num ELSE first_seq
       ELSE UNCHANGED <<passes, pass_times, first_seq>>
    /\ UNCHANGED <<now, seq_counter, sent>>

Next ==
    \/ Tick
    \/ \E type \in {TYPE_DATA, TYPE_CLOSE} : Send(type)
    \/ \E f \in sent : Deliver(f)

Spec == Init /\ [][Next]_vars

-----------------------------------------------------------------------------
(* Safety.                                                                 *)

\* "Trim history to prevent unbounded memory growth": however the frames
\* arrive, neither memory outgrows twice the window.
MemoryBounded ==
    /\ Cardinality(engine.seen_seq_nums) <= WindowSize * 2
    /\ Cardinality(engine.seen_signatures) <= WindowSize * 2

\* Trimming forgets numbers, and the tags are forgotten at another moment
\* than the numbers; even so no frame is let through a third time.
AtMostTwice == \A s \in Seqs : passes[s] <= 2

\* The rate cap holds for what is let through, in every interval of one
\* second, although rejected arrivals use up the same budget.
AcceptRateBounded ==
    \A t \in Time :
        SumFunctionOnSet(pass_times, Time \cap (t .. t + RateWindow)) <= MaxPacketsPerSec

\* Numbers not let through, between the first frame and the highest one.
Skipped ==
    {s \in Seqs : first_seq <= s /\ s <= engine.last_seq_num /\ passes[s] = 0}

\* Loss is noticed: every number that was skipped between the first frame
\* let through and the highest one has been counted as a gap, even where
\* late frames, repeats and rejected frames moved the counter in between.
GapsAccountedFor == Cardinality(Skipped) <= engine.sequence_gaps_detected

\* A second copy gets through only at the edge of the window: exactly
\* WindowSize behind the highest number, right after a trim removed it.
RepeatOnlyAtWindowEdge ==
    [][\A s \in Seqs :
          passes[s] >= 1 /\ passes'[s] # passes[s]
              => s = engine.last_seq_num - WindowSize]_vars

\* A frame that never got through is turned away only for what is wrong
\* with it or with the traffic: a closed session, a stale stamp, a place
\* behind the window, or a flood.  What the engine remembers of other
\* frames never costs it its first passage.
NoFalseAlarm ==
    [][\A f \in sent :
          Deliver(f) /\ passes[f.seq_num] = 0 /\ passes' = passes
              => \/ engine.session_closed
                 \/ Drifted(f, now)
                 \/ f.seq_num < engine.last_seq_num - WindowSize
                 \/ Flooded(engine, now)]_vars

\* The detailed receiver implements the abstract promise.
Promise == INSTANCE BoundedDelivery
             WITH issued <- seq_counter, front <- engine.last_seq_num, copies <- passes
BoundedDeliverySpec == Promise!Spec

-----------------------------------------------------------------------------
(* What the engine's memory says about the past: the inductive invariant.  *)

\* The front is the highest number let through, and was really sent.
FrontWasSent ==
    /\ engine.last_seq_num <= seq_counter
    /\ \A f \in sent : f.seq_num <= seq_counter

\* Only what was let through is remembered.
OnlyPassedRemembered ==
    \A s \in engine.seen_seq_nums \cup engine.seen_signatures : passes[s] >= 1

\* What was let through is remembered until it reaches the window's edge.
PassedAreAccounted ==
    \A s \in Seqs : passes[s] >= 1 =>
        /\ s <= engine.last_seq_num
        /\ s \in engine.seen_seq_nums \/ s <= engine.last_seq_num - WindowSize

\* Once the edge is forgotten, nothing at or below it is remembered.
EdgeForgotten ==
    \A s \in Seqs :
        /\ passes[s] >= 1
        /\ s = engine.last_seq_num - WindowSize
        /\ s \notin engine.seen_seq_nums
        => \A r \in engine.seen_seq_nums : r > s

\* A number let through twice is behind the window, or at its edge and
\* remembered with nothing below it.
RepeatSettled ==
    \A s \in Seqs : passes[s] >= 2 =>
        \/ s < engine.last_seq_num - WindowSize
        \/ /\ s = engine.last_seq_num - WindowSize
           /\ s \in engine.seen_seq_nums
           /\ \A r \in engine.seen_seq_nums : r >= s

\* The history variable and the engine agree on whether anything passed.
FirstIsFront == first_seq = 0 <=> engine.last_seq_num = 0

IInv ==
    /\ FrontWasSent
    /\ OnlyPassedRemembered
    /\ PassedAreAccounted
    /\ EdgeForgotten
    /\ RepeatSettled
    /\ AtMostTwice

\* Whatever was let through within the last second is still on the budget
\* of the flood check, which counts rejected arrivals too.
PassagesOnBudget ==
    \A u \in Time :
        /\ u > now => pass_times[u] = 0
        /\ u <= now /\ now - u <= RateWindow
              => pass_times[u] <= engine.packet_rate_history[u]

-----------------------------------------------------------------------------
(* Claims of the documentation that the code does not keep.                *)

\* README.md:12, "Sliding sequence window ... to defeat replay attacks": no
\* frame is let through twice.
AcceptedAtMostOnce == \A s \in Seqs : passes[s] <= 1
=============================================================================
