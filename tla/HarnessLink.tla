----------------------------- MODULE HarnessLink -----------------------------
(***************************************************************************)
(* Two harnesses and a one-way medium that loses, repeats, reorders and    *)
(* damages frames: what the tests do with wrap_payload and                 *)
(* process_incoming_frame, and what a datagram transport would.  The two   *)
(* sides share the key they start with; the receiver never sends.          *)
(*                                                                         *)
(* Damage changes one part of a frame: the magic, the version or the       *)
(* length of the header; one of the parts the HMAC covers; or the message  *)
(* type, which it does not cover.                                          *)
(***************************************************************************)
EXTENDS Harness, Inspections

CONSTANTS
    Sent,       \* what the inspections find in the payloads sent
    MaxSeq,     \* bound: frames sent
    MaxArrivals \* bound: frames that arrive

ASSUME SentAssumption == Sent \subseteq Findings
ASSUME BoundAssumption == MaxSeq \in Nat /\ MaxArrivals \in Nat

Sender   == "sender"
Receiver == "receiver"
Seqs     == 1 .. MaxSeq

VARIABLES
    alice,     \* the sending harness
    bob,       \* the receiving harness
    sandbox,   \* the receiver's quarantine files
    medium,    \* every frame sent
    accepted,  \* history: what the receiver accepted, in order
    uncounted  \* history: arrivals the receiver could not parse

vars == <<alice, bob, sandbox, medium, accepted, uncounted>>

\* Both sides at their initial pre-shared key, or after a handshake.
Init ==
    /\ \/ alice = NewHarness(Sender) /\ bob = NewHarness(Receiver)
       \/ /\ alice = CompleteHandshake(NewHarness(Sender), [keys |-> Receiver], NoPeer)
          /\ bob = CompleteHandshake(NewHarness(Receiver), [keys |-> Sender], NoPeer)
    /\ sandbox = [file \in {Inspection[k] : k \in DOMAIN Inspection} |-> NoPeer]
    /\ medium = {}
    /\ accepted = << >>
    /\ uncounted = 0

Send(found, type) ==
    LET h == WrapPayload(alice)
    IN  /\ alice.seq_counter < MaxSeq
        /\ alice' = h
        /\ medium' = medium \cup
              {FrameOf(h, [kind |-> Objection(found), num |-> h.seq_counter], type, 0)}
        /\ UNCHANGED <<bob, sandbox, accepted, uncounted>>

\* process_incoming_frame on whatever arrives.
Process(f) ==
    /\ bob.packets_received + uncounted < MaxArrivals
    /\ bob' = ProcessFrame(bob, f, 0)
    /\ sandbox' = Quarantine(sandbox, bob, f, 0)
    /\ accepted' = IF Accepts(bob, f, 0) THEN Append(accepted, f) ELSE accepted
    /\ uncounted' = IF f.wire = "unparsable" THEN uncounted + 1 ELSE uncounted
    /\ UNCHANGED <<alice, medium>>

Deliver == \E f \in medium : Process(f)

\* A magic or a version the parser refuses, or a length that does not match.
DeliverMisframed ==
    \E f \in medium, wire \in {"unparsable", "misshapen"} :
        Process([f EXCEPT !.wire = wire])

\* A number, timestamp, tag or sealed payload that is not the sender's.
DeliverAltered ==
    \E f \in medium :
        \/ \E s \in 0 .. MaxSeq + WindowSize + 1 :
              s # f.seq_num /\ Process([f EXCEPT !.covered = FALSE, !.seq_num = s])
        \/ Process([f EXCEPT !.covered = FALSE, !.timestamp = ReplayWindowSeconds + 1])
        \/ Process([f EXCEPT !.covered = FALSE, !.auth_tag = <<"altered", f.seq_num>>])
        \/ Process([f EXCEPT !.covered = FALSE])

\* Another message type.
DeliverRetyped ==
    \E f \in medium, type \in {TYPE_DATA, TYPE_CLOSE} :
        type # f.msg_type /\ Process([f EXCEPT !.msg_type = type])

Next ==
    \/ \E found \in Sent, type \in {TYPE_DATA, TYPE_CLOSE} : Send(found, type)
    \/ Deliver
    \/ DeliverMisframed
    \/ DeliverAltered
    \/ DeliverRetyped

Spec == Init /\ [][Next]_vars

-----------------------------------------------------------------------------

TypeOK ==
    /\ alice.seq_counter \in 0 .. MaxSeq
    /\ bob.anti_interference.last_seq_num \in Nat
    /\ bob.packets_received \in Nat /\ bob.packets_blocked \in Nat
    /\ \A f \in medium : f.seq_num \in Seqs /\ f.covered /\ f.wire = "whole"
    /\ uncounted \in Nat

\* Whatever the damage, what is accepted under a number is what the sender
\* sent under that number.
AcceptedAsSent ==
    \A i \in DOMAIN accepted :
        \E f \in medium :
            /\ f.seq_num = accepted[i].seq_num
            /\ f.payload = accepted[i].payload

\* No frame enters the chain of custody a third time.  The engine is told the
\* number of a frame before the HMAC vouches for it, so that damaged frames
\* move its window and make it trim: none of this opens it to more repeats.
Copies(s) == {i \in DOMAIN accepted : accepted[i].seq_num = s}

AcceptedAtMostTwice == \A s \in Seqs : Cardinality(Copies(s)) <= 2

\* A receiver that does not send itself never ratchets: it accepts nothing
\* from the sender's first rekey on, so that all it ever accepted was sealed
\* under the key both sides started with.
AcceptedUnderFirstKey ==
    \A i \in DOMAIN accepted : accepted[i].seq_num < RekeyInterval

\* The counters and the chain of custody agree even under damage.
CustodyMatchesTraffic ==
    /\ bob.packets_received - bob.packets_blocked = Len(bob.chain)
    /\ Len(bob.chain) = Len(accepted)

\* test_exhaustive.py:261 counts a mutated frame as passed only when it is
\* not accepted: no frame is accepted in another form than it was sent in.
MutationsRejected == \A i \in DOMAIN accepted : accepted[i] \in medium
=============================================================================
