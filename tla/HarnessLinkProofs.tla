-------------------------- MODULE HarnessLinkProofs --------------------------
(***************************************************************************)
(* HarnessLink keeps its safety properties for every interval, window,     *)
(* rate, set of payloads and bound.                                        *)
(*                                                                         *)
(* LinkInv is the induction: the receiver's key never ratchets, the        *)
(* sender's has ratcheted by the time its counter has reached the          *)
(* interval, and every frame bears the key of its number.  So a frame that *)
(* opens was sealed before the first rekey, and one that was damaged in    *)
(* what the HMAC covers does not open.  RepeatInv adds what the receiver's *)
(* engine recalls of the frames that were accepted.                        *)
(***************************************************************************)
EXTENDS HarnessLink, PipelineProofs

SenderInv ==
    /\ DOMAIN alice = HarnessFields
    /\ alice.seq_counter \in 0 .. MaxSeq
    /\ DOMAIN alice.session_key = {"secret", "ratchet"}
    /\ alice.session_key.ratchet \in Nat
    /\ alice.seq_counter >= RekeyInterval => alice.session_key.ratchet >= 1

MediumInv ==
    \A f \in medium :
        /\ DOMAIN f = FrameFields
        /\ f.seq_num \in Seqs /\ f.covered /\ f.wire = "whole"
        /\ f.seq_num >= RekeyInterval => f.sealed.ratchet >= 1

ReceiverInv ==
    /\ DOMAIN bob = HarnessFields
    /\ bob.session_key.ratchet = 0
    /\ DOMAIN bob.anti_interference = EngineFields
    /\ bob.anti_interference.last_seq_num \in Nat

CountInv ==
    /\ bob.packets_received \in Nat /\ bob.packets_blocked \in Nat
    /\ uncounted \in Nat
    /\ IsSequence(bob.chain) /\ IsSequence(accepted)
    /\ bob.packets_received - bob.packets_blocked = Len(bob.chain)
    /\ Len(bob.chain) = Len(accepted)

LinkInv ==
    /\ SenderInv /\ MediumInv /\ ReceiverInv /\ CountInv
    /\ AcceptedAsSent /\ AcceptedUnderFirstKey

\* What arrives: damaged in something the HMAC covers, or of a number,
\* payload and key that were sent.
Genuine(g) ==
    \E f \in medium :
        g.seq_num = f.seq_num /\ g.payload = f.payload /\ g.sealed = f.sealed

Arrival(g) ==
    /\ g.seq_num \in Nat
    /\ g.covered = FALSE \/ Genuine(g)

-----------------------------------------------------------------------------

\* Both harnesses at the start, at their initial key or after a handshake.
LEMMA AtStart ==
    ASSUME Init
    PROVE  /\ DOMAIN alice = HarnessFields /\ DOMAIN bob = HarnessFields
           /\ alice.seq_counter = 0
           /\ DOMAIN alice.session_key = {"secret", "ratchet"}
           /\ alice.session_key.ratchet = 0 /\ bob.session_key.ratchet = 0
           /\ bob.anti_interference = NewEngine
           /\ bob.chain = << >> /\ bob.packets_received = 0 /\ bob.packets_blocked = 0
<1>1. CASE alice = NewHarness(Sender) /\ bob = NewHarness(Receiver)
  BY <1>1, NewEffect DEF InitialKey
<1>2. ASSUME NEW id, NEW bytes
      PROVE  LET h == CompleteHandshake(NewHarness(id), bytes, NoPeer)
             IN  /\ DOMAIN h = HarnessFields
                 /\ h.seq_counter = 0
                 /\ h.session_key = [secret |-> {id, bytes.keys}, ratchet |-> 0]
                 /\ h.anti_interference = NewEngine
                 /\ h.chain = << >> /\ h.packets_received = 0 /\ h.packets_blocked = 0
  <2> DEFINE n == NewHarness(id)
             h == CompleteHandshake(n, bytes, NoPeer)
  <2>1. /\ DOMAIN n = HarnessFields /\ n.id = id /\ n.seq_counter = 0
        /\ n.anti_interference = NewEngine
        /\ n.chain = << >> /\ n.packets_received = 0 /\ n.packets_blocked = 0
    BY NewEffect
  <2> HIDE DEF n
  <2>2. /\ DOMAIN h = HarnessFields
        /\ h.session_key = [secret |-> {n.id, bytes.keys}, ratchet |-> 0]
        /\ \A field \in HarnessFields \ {"session_key", "peer_signing_pubkey", "peer_connected"} :
              h[field] = n[field]
    BY <2>1, HandshakeEffect
  <2> HIDE DEF h
  <2>3. h.seq_counter = 0 /\ h.anti_interference = NewEngine
        /\ h.chain = << >> /\ h.packets_received = 0 /\ h.packets_blocked = 0
    BY <2>1, <2>2 DEF HarnessFields
  <2> QED BY <2>1, <2>2, <2>3 DEF n, h
<1>3. CASE /\ alice = CompleteHandshake(NewHarness(Sender), [keys |-> Receiver], NoPeer)
           /\ bob = CompleteHandshake(NewHarness(Receiver), [keys |-> Sender], NoPeer)
  <2>1. /\ DOMAIN alice = HarnessFields /\ alice.seq_counter = 0
        /\ alice.session_key = [secret |-> {Sender, [keys |-> Receiver].keys}, ratchet |-> 0]
    BY <1>2, <1>3
  <2>2. /\ DOMAIN bob = HarnessFields
        /\ bob.session_key = [secret |-> {Receiver, [keys |-> Sender].keys}, ratchet |-> 0]
        /\ bob.anti_interference = NewEngine
        /\ bob.chain = << >> /\ bob.packets_received = 0 /\ bob.packets_blocked = 0
    BY <1>2, <1>3
  <2> QED BY <2>1, <2>2
<1> QED BY <1>1, <1>3 DEF Init

LEMMA InitKeeps == Init => LinkInv
<1> SUFFICES ASSUME Init PROVE LinkInv
  OBVIOUS
<1>1. /\ DOMAIN alice = HarnessFields /\ DOMAIN bob = HarnessFields
      /\ alice.seq_counter = 0
      /\ DOMAIN alice.session_key = {"secret", "ratchet"}
      /\ alice.session_key.ratchet = 0 /\ bob.session_key.ratchet = 0
      /\ bob.anti_interference = NewEngine
      /\ bob.chain = << >> /\ bob.packets_received = 0 /\ bob.packets_blocked = 0
  BY AtStart
<1>2. SenderInv
  BY <1>1, RekeyAssumption, BoundAssumption DEF SenderInv
<1>3. ReceiverInv
  BY <1>1 DEF ReceiverInv, NewEngine, EngineFields
<1>4. IsSequence(<< >>) /\ Len(<< >>) = 0
  BY EmptySeq DEF IsSequence
<1>5. CountInv
  BY <1>1, <1>4 DEF Init, CountInv
<1>6. MediumInv /\ AcceptedAsSent /\ AcceptedUnderFirstKey
  BY DEF Init, MediumInv, AcceptedAsSent, AcceptedUnderFirstKey
<1> QED BY <1>2, <1>3, <1>5, <1>6 DEF LinkInv

\* The sender's next frame.
LEMMA SendKeeps ==
    ASSUME LinkInv, NEW found, NEW type, Send(found, type)
    PROVE  LinkInv'
<1> DEFINE n == alice.seq_counter + 1
           key == IF n % RekeyInterval = 0 THEN Rekeyed(alice.session_key) ELSE alice.session_key
           payload == [kind |-> Objection(found), num |-> alice'.seq_counter]
           frame == FrameOf(alice', payload, type, 0)
<1>1. /\ DOMAIN alice = HarnessFields /\ alice.seq_counter \in 0 .. MaxSeq
      /\ DOMAIN alice.session_key = {"secret", "ratchet"}
      /\ alice.session_key.ratchet \in Nat
      /\ alice.seq_counter >= RekeyInterval => alice.session_key.ratchet >= 1
      /\ MaxSeq \in Nat /\ RekeyInterval \in Nat \ {0} /\ alice.seq_counter < MaxSeq
  BY RekeyAssumption, BoundAssumption DEF LinkInv, SenderInv, Send
<1>2. /\ alice' = WrapPayload(alice)
      /\ medium' = medium \cup {frame}
      /\ UNCHANGED <<bob, sandbox, accepted, uncounted>>
  BY DEF Send
<1>3. /\ DOMAIN alice' = HarnessFields /\ alice'.seq_counter = n /\ alice'.session_key = key
  BY <1>1, <1>2 DEF WrapPayload, HarnessFields
<1>4. /\ DOMAIN key = {"secret", "ratchet"} /\ key.ratchet \in Nat
      /\ n >= RekeyInterval => key.ratchet >= 1
  <2>1. CASE n % RekeyInterval = 0
    BY <1>1, <2>1 DEF Rekeyed
  <2>2. CASE n % RekeyInterval # 0
    <3>1. n # RekeyInterval
      BY <1>1, <2>2
    <3> QED BY <1>1, <2>2, <3>1
  <2> QED BY <2>1, <2>2
<1>5. SenderInv'
  <2> HIDE DEF key
  <2> QED BY <1>1, <1>3, <1>4 DEF SenderInv
<1>6. /\ DOMAIN frame = FrameFields
      /\ frame.seq_num = n /\ frame.covered /\ frame.wire = "whole"
      /\ frame.sealed = key
  <2> HIDE DEF key, payload
  <2> QED BY <1>3 DEF FrameOf, FrameFields
<1>7. MediumInv'
  <2>1. n \in Seqs
    BY <1>1 DEF Seqs
  <2> HIDE DEF key, frame, n
  <2> QED BY <1>2, <1>4, <1>6, <2>1 DEF MediumInv, LinkInv
<1>8. ReceiverInv' /\ CountInv'
  BY <1>2 DEF LinkInv, ReceiverInv, CountInv
<1>9. AcceptedAsSent' /\ AcceptedUnderFirstKey'
  <2> HIDE DEF frame
  <2> QED BY <1>2 DEF LinkInv, AcceptedAsSent, AcceptedUnderFirstKey
<1> QED BY <1>5, <1>7, <1>8, <1>9 DEF LinkInv

\* Whatever arrives.
LEMMA ProcessKeeps ==
    ASSUME LinkInv, NEW g, Arrival(g), Process(g)
    PROVE  LinkInv'
<1>1. /\ bob' = ProcessFrame(bob, g, 0)
      /\ accepted' = IF Accepts(bob, g, 0) THEN Append(accepted, g) ELSE accepted
      /\ uncounted' = IF g.wire = "unparsable" THEN uncounted + 1 ELSE uncounted
      /\ UNCHANGED <<alice, medium>>
  BY DEF Process
<1>2. DOMAIN bob = HarnessFields /\ bob.session_key.ratchet = 0
  BY DEF LinkInv, ReceiverInv
<1>3. /\ DOMAIN bob' = HarnessFields
      /\ \A field \in {"id", "seq_counter", "session_key",
                       "peer_signing_pubkey", "peer_connected"} : bob'[field] = bob[field]
      /\ bob'.anti_interference \in {bob.anti_interference,
                                     VerifyPacket(bob.anti_interference, g, 0)}
      /\ bob'.chain = IF Accepts(bob, g, 0) THEN Append(bob.chain, g.payload) ELSE bob.chain
      /\ bob'.packets_received =
             IF Parsable(g) THEN bob.packets_received + 1 ELSE bob.packets_received
      /\ bob'.packets_blocked =
             IF Parsable(g) /\ ~ Accepts(bob, g, 0) THEN bob.packets_blocked + 1
                                                    ELSE bob.packets_blocked
  BY <1>1, <1>2, ProcessEffect
<1>4. SenderInv' /\ MediumInv'
  BY <1>1 DEF LinkInv, SenderInv, MediumInv
<1>5. ReceiverInv'
  <2>1. /\ DOMAIN bob.anti_interference = EngineFields
        /\ bob.anti_interference.last_seq_num \in Nat /\ g.seq_num \in Nat
    BY DEF LinkInv, ReceiverInv, Arrival
  <2>2. /\ DOMAIN bob'.anti_interference = EngineFields
        /\ bob'.anti_interference.last_seq_num \in Nat
    BY <1>3, <2>1, EngineKept
  <2> QED BY <1>2, <1>3, <2>2 DEF ReceiverInv
<1>6. Accepts(bob, g, 0) =>
         /\ Parsable(g) /\ Genuine(g)
         /\ g.seq_num \in Nat /\ g.seq_num < RekeyInterval
  <2> SUFFICES ASSUME Accepts(bob, g, 0)
               PROVE  Parsable(g) /\ Genuine(g) /\ g.seq_num \in Nat /\ g.seq_num < RekeyInterval
    OBVIOUS
  <2>1. g.covered /\ g.sealed = bob.session_key /\ Parsable(g)
    BY AcceptedIsSealed
  <2>2. Genuine(g)
    BY <2>1 DEF Arrival
  <2>3. PICK f \in medium : g.seq_num = f.seq_num /\ g.payload = f.payload /\ g.sealed = f.sealed
    BY <2>2 DEF Genuine
  <2>4. f.seq_num \in Seqs /\ (f.seq_num >= RekeyInterval => f.sealed.ratchet >= 1)
    BY DEF LinkInv, MediumInv
  <2>5. f.sealed.ratchet = 0
    BY <1>2, <2>1, <2>3
  <2> QED BY <2>1, <2>2, <2>3, <2>4, <2>5, RekeyAssumption DEF Seqs
<1>7. CountInv'
  <2>1. /\ bob.packets_received \in Nat /\ bob.packets_blocked \in Nat /\ uncounted \in Nat
        /\ IsSequence(bob.chain) /\ IsSequence(accepted)
        /\ bob.packets_received - bob.packets_blocked = Len(bob.chain)
        /\ Len(bob.chain) = Len(accepted)
    BY DEF LinkInv, CountInv
  <2>2. /\ IsSequence(Append(bob.chain, g.payload))
        /\ Len(Append(bob.chain, g.payload)) = Len(bob.chain) + 1
        /\ IsSequence(Append(accepted, g))
        /\ Len(Append(accepted, g)) = Len(accepted) + 1
        /\ Len(accepted) \in Nat
    BY <2>1, Appended
  <2>3. CASE Accepts(bob, g, 0)
    <3>1. /\ bob'.chain = Append(bob.chain, g.payload) /\ accepted' = Append(accepted, g)
          /\ bob'.packets_received = bob.packets_received + 1
          /\ bob'.packets_blocked = bob.packets_blocked
          /\ uncounted' = uncounted
      BY <1>1, <1>3, <1>6, <2>3 DEF Parsable
    <3>2. IsSequence(bob'.chain) /\ IsSequence(accepted')
      BY <2>2, <3>1
    <3>3. Len(bob'.chain) = Len(bob.chain) + 1 /\ Len(accepted') = Len(accepted) + 1
      BY <2>2, <3>1
    <3>4. bob'.packets_received - bob'.packets_blocked = Len(bob'.chain)
      BY <2>1, <2>2, <3>1, <3>3
    <3> QED BY <2>1, <2>2, <3>1, <3>2, <3>3, <3>4 DEF CountInv
  <2>4. CASE ~ Accepts(bob, g, 0)
    <3>1. bob'.chain = bob.chain /\ accepted' = accepted
      BY <1>1, <1>3, <2>4
    <3>2. \/ /\ bob'.packets_received = bob.packets_received + 1
             /\ bob'.packets_blocked = bob.packets_blocked + 1
          \/ /\ bob'.packets_received = bob.packets_received
             /\ bob'.packets_blocked = bob.packets_blocked
      BY <1>3, <2>4
    <3>3. uncounted' \in Nat
      BY <1>1, <2>1
    <3>4. bob'.packets_received - bob'.packets_blocked = Len(bob'.chain)
      BY <2>1, <2>2, <3>1, <3>2
    <3> QED BY <2>1, <3>1, <3>2, <3>3, <3>4 DEF CountInv
  <2> QED BY <2>3, <2>4
<1>8. AcceptedAsSent' /\ AcceptedUnderFirstKey'
  <2>1. AcceptedAsSent /\ AcceptedUnderFirstKey /\ IsSequence(accepted)
    BY DEF LinkInv, CountInv
  <2>2. CASE ~ Accepts(bob, g, 0)
    BY <1>1, <2>1, <2>2 DEF AcceptedAsSent, AcceptedUnderFirstKey
  <2>3. CASE Accepts(bob, g, 0)
    <3>1. accepted' = Append(accepted, g) /\ medium' = medium
      BY <1>1, <2>3
    <3>2. ASSUME NEW i \in DOMAIN accepted'
          PROVE  (i \in DOMAIN accepted /\ accepted'[i] = accepted[i]) \/ accepted'[i] = g
      BY <2>1, <3>1, Appended
    <3>3. g.seq_num < RekeyInterval
          /\ \E f \in medium : f.seq_num = g.seq_num /\ f.payload = g.payload
      BY <1>6, <2>3 DEF Genuine
    <3> QED BY <2>1, <3>1, <3>2, <3>3 DEF AcceptedAsSent, AcceptedUnderFirstKey
  <2> QED BY <2>2, <2>3
<1> QED BY <1>4, <1>5, <1>7, <1>8 DEF LinkInv

\* What the medium does to a frame leaves it genuine, or uncovered.
LEMMA DeliveryArrives ==
    ASSUME LinkInv, Deliver \/ DeliverMisframed \/ DeliverAltered \/ DeliverRetyped
    PROVE  \E g : Arrival(g) /\ Process(g)
<1>1. ASSUME NEW f \in medium
      PROVE  /\ f.seq_num \in Nat /\ DOMAIN f = FrameFields
             /\ Arrival(f)
  BY DEF LinkInv, MediumInv, Arrival, Genuine, Seqs
<1>2. CASE Deliver
  BY <1>1, <1>2 DEF Deliver
<1>3. CASE DeliverMisframed
  <2>1. PICK f \in medium, wire \in {"unparsable", "misshapen"} : Process([f EXCEPT !.wire = wire])
    BY <1>3 DEF DeliverMisframed
  <2>2. Arrival([f EXCEPT !.wire = wire])
    BY <1>1 DEF Arrival, Genuine, FrameFields
  <2> QED BY <2>1, <2>2
<1>4. CASE DeliverAltered
  <2>1. PICK f \in medium :
           \/ \E s \in 0 .. MaxSeq + WindowSize + 1 :
                 s # f.seq_num /\ Process([f EXCEPT !.covered = FALSE, !.seq_num = s])
           \/ Process([f EXCEPT !.covered = FALSE, !.timestamp = ReplayWindowSeconds + 1])
           \/ Process([f EXCEPT !.covered = FALSE, !.auth_tag = <<"altered", f.seq_num>>])
           \/ Process([f EXCEPT !.covered = FALSE])
    BY <1>4 DEF DeliverAltered
  <2>2. DOMAIN f = FrameFields /\ f.seq_num \in Nat
    BY <1>1
  <2>3. ASSUME NEW s \in 0 .. MaxSeq + WindowSize + 1
        PROVE  Arrival([f EXCEPT !.covered = FALSE, !.seq_num = s])
    <3>1. s \in Nat
      BY BoundAssumption, WindowAssumption
    <3> QED BY <2>2, <3>1 DEF Arrival, FrameFields
  <2>4. /\ Arrival([f EXCEPT !.covered = FALSE, !.timestamp = ReplayWindowSeconds + 1])
        /\ Arrival([f EXCEPT !.covered = FALSE, !.auth_tag = <<"altered", f.seq_num>>])
        /\ Arrival([f EXCEPT !.covered = FALSE])
    BY <2>2 DEF Arrival, FrameFields
  <2> QED BY <2>1, <2>3, <2>4
<1>5. CASE DeliverRetyped
  <2>1. PICK f \in medium, type \in {TYPE_DATA, TYPE_CLOSE} : Process([f EXCEPT !.msg_type = type])
    BY <1>5 DEF DeliverRetyped
  <2>2. Arrival([f EXCEPT !.msg_type = type])
    BY <1>1 DEF Arrival, Genuine, FrameFields
  <2> QED BY <2>1, <2>2
<1> QED BY <1>2, <1>3, <1>4, <1>5

\* Whatever the medium does, whatever the constants: the counters, the chain
\* and the keys stay in step.
THEOREM LinkInvariant == Spec => []LinkInv
<1>1. LinkInv /\ [Next]_vars => LinkInv'
  <2> SUFFICES ASSUME LinkInv, [Next]_vars PROVE LinkInv'
    OBVIOUS
  <2>1. ASSUME NEW found \in Sent, NEW type \in {TYPE_DATA, TYPE_CLOSE}, Send(found, type)
        PROVE  LinkInv'
    BY <2>1, SendKeeps
  <2>2. CASE Deliver \/ DeliverMisframed \/ DeliverAltered \/ DeliverRetyped
    BY <2>2, DeliveryArrives, ProcessKeeps
  <2>3. CASE UNCHANGED vars
    BY <2>3 DEF vars, LinkInv, SenderInv, MediumInv, ReceiverInv, CountInv,
                AcceptedAsSent, AcceptedUnderFirstKey
  <2> QED BY <2>1, <2>2, <2>3 DEF Next
<1> QED BY <1>1, InitKeeps, PTL DEF Spec

\* The types of the two harnesses, the medium and the count of the unparsable.
THEOREM LinkTypes == Spec => []TypeOK
<1>1. LinkInv => TypeOK
  BY DEF LinkInv, SenderInv, MediumInv, ReceiverInv, CountInv, TypeOK
<1> QED BY <1>1, LinkInvariant, PTL

\* tunnel.py:137 and 190: what passes the HMAC is a number and a payload the
\* sender wrote together.
THEOREM OnlySentAccepted == Spec => []AcceptedAsSent
<1>1. LinkInv => AcceptedAsSent
  BY DEF LinkInv
<1> QED BY <1>1, LinkInvariant, PTL

\* tunnel.py:121: nothing is accepted from the first rekey on.
THEOREM NothingAfterRekey == Spec => []AcceptedUnderFirstKey
<1>1. LinkInv => AcceptedUnderFirstKey
  BY DEF LinkInv
<1> QED BY <1>1, LinkInvariant, PTL

\* Received less blocked is the length of the chain of custody, under any
\* loss, repetition, reordering and damage.
THEOREM CountersTellCustody == Spec => []CustodyMatchesTraffic
<1>1. LinkInv => CustodyMatchesTraffic
  BY DEF LinkInv, CountInv, CustodyMatchesTraffic
<1> QED BY <1>1, LinkInvariant, PTL
-----------------------------------------------------------------------------
(* Repeats.  The engine commits numbers of frames that the HMAC refuses    *)
(* after it, but what it recalls of the accepted ones is not disturbed.    *)

TimesAccepted == [s \in Seqs |-> Cardinality(Copies(s))]

RepeatInv ==
    /\ bob.anti_interference.seen_seq_nums \subseteq Nat
    /\ \A s \in bob.anti_interference.seen_seq_nums : s <= bob.anti_interference.last_seq_num
    /\ Recalls(Seqs, bob.anti_interference.seen_seq_nums, bob.anti_interference.last_seq_num,
               TimesAccepted)

LEMMA CopiesCounted ==
    ASSUME IsSequence(accepted)
    PROVE  /\ \A s : IsFiniteSet(Copies(s)) /\ Cardinality(Copies(s)) \in Nat
           /\ TimesAccepted \in [Seqs -> Nat]
<1>1. DOMAIN accepted = 1 .. Len(accepted) /\ Len(accepted) \in Nat
  BY LenProperties DEF IsSequence
<1>2. IsFiniteSet(DOMAIN accepted)
  BY <1>1, FS_Interval
<1>3. ASSUME NEW s PROVE IsFiniteSet(Copies(s)) /\ Cardinality(Copies(s)) \in Nat
  <2>1. Copies(s) \subseteq DOMAIN accepted
    BY DEF Copies
  <2>2. IsFiniteSet(Copies(s))
    BY <1>2, <2>1, FS_Subset
  <2> QED BY <2>2, FS_CardinalityType
<1> QED BY <1>3 DEF TimesAccepted

\* One frame more in custody.
LEMMA OneMore ==
    ASSUME IsSequence(accepted), NEW g, accepted' = Append(accepted, g), NEW s
    PROVE  Cardinality(Copies(s))' = IF g.seq_num = s THEN Cardinality(Copies(s)) + 1
                                                      ELSE Cardinality(Copies(s))
<1> DEFINE n == Len(accepted) + 1
<1>1. /\ n \in Nat /\ DOMAIN accepted = 1 .. Len(accepted) /\ Len(accepted) \in Nat
      /\ DOMAIN accepted' = 1 .. n
      /\ \A i \in DOMAIN accepted : accepted'[i] = accepted[i]
      /\ accepted'[n] = g
  BY Appended
<1>2. n \notin DOMAIN accepted /\ DOMAIN accepted' = DOMAIN accepted \cup {n}
  BY <1>1
<1> HIDE DEF n
<1>3. Copies(s)' = IF g.seq_num = s THEN Copies(s) \cup {n} ELSE Copies(s)
  BY <1>1, <1>2 DEF Copies
<1>4. n \notin Copies(s) /\ IsFiniteSet(Copies(s))
  BY <1>2, CopiesCounted DEF Copies
<1>5. Cardinality(Copies(s) \cup {n}) = Cardinality(Copies(s)) + 1
  BY <1>4, FS_AddElement
<1> QED BY <1>3, <1>5

LEMMA ProcessRecalls ==
    ASSUME LinkInv, LinkInv', RepeatInv, NEW g, Arrival(g), Process(g)
    PROVE  RepeatInv'
<1> DEFINE e == bob.anti_interference
           top == Highest(e.last_seq_num, g.seq_num)
           left == TrimSeen(e.seen_seq_nums \cup {g.seq_num}, top)
<1>1. /\ bob' = ProcessFrame(bob, g, 0)
      /\ accepted' = IF Accepts(bob, g, 0) THEN Append(accepted, g) ELSE accepted
  BY DEF Process
<1>2. /\ DOMAIN bob = HarnessFields /\ DOMAIN e = EngineFields
      /\ e.last_seq_num \in Nat /\ g.seq_num \in Nat
      /\ IsSequence(accepted) /\ IsSequence(accepted')
  BY DEF LinkInv, ReceiverInv, CountInv, Arrival
<1>3. /\ bob'.anti_interference \in {e, VerifyPacket(e, g, 0)}
      /\ Accepts(bob, g, 0) =>
            Passed(e, g, 0) /\ bob'.anti_interference = VerifyPacket(e, g, 0)
  BY <1>1, <1>2, ProcessEffect, AcceptedIsCommitted
<1>4. TimesAccepted \in [Seqs -> Nat] /\ TimesAccepted' \in [Seqs -> Nat]
  <2>1. TimesAccepted \in [Seqs -> Nat]
    BY <1>2, CopiesCounted
  <2>2. \A s : Cardinality(Copies(s)) \in Nat
    BY <1>2, CopiesCounted
  <2>3. ASSUME NEW s PROVE Cardinality(Copies(s))' \in Nat
    <3>1. Cardinality(Copies(s)) \in Nat
      BY <2>2
    <3>2. CASE Accepts(bob, g, 0)
      BY <1>1, <1>2, <3>1, <3>2, OneMore
    <3>3. CASE ~ Accepts(bob, g, 0)
      <4>1. Copies(s)' = Copies(s)
        BY <1>1, <3>3 DEF Copies
      <4> QED BY <3>1, <4>1
    <3> QED BY <3>2, <3>3
  <2> QED BY <2>1, <2>3 DEF TimesAccepted
<1>5. ~ Accepts(bob, g, 0) => TimesAccepted' = TimesAccepted
  BY <1>1 DEF TimesAccepted, Copies
<1>6. Accepts(bob, g, 0) =>
         \A s \in Seqs : TimesAccepted'[s] = IF s = g.seq_num THEN TimesAccepted[s] + 1
                                                              ELSE TimesAccepted[s]
  BY <1>1, <1>2, OneMore DEF TimesAccepted
<1>7. /\ e.seen_seq_nums \subseteq Nat /\ \A s \in e.seen_seq_nums : s <= e.last_seq_num
      /\ Recalls(Seqs, e.seen_seq_nums, e.last_seq_num, TimesAccepted)
  BY DEF RepeatInv
<1>8. IF Passed(e, g, 0)
      THEN /\ VerifyPacket(e, g, 0).last_seq_num = top
           /\ VerifyPacket(e, g, 0).seen_seq_nums = left
      ELSE /\ VerifyPacket(e, g, 0).last_seq_num = e.last_seq_num
           /\ VerifyPacket(e, g, 0).seen_seq_nums = e.seen_seq_nums
  <2> HIDE DEF e
  <2> QED BY <1>2, EngineRecalls
<1>9. CASE Passed(e, g, 0) /\ bob'.anti_interference = VerifyPacket(e, g, 0)
  <2>1. g.seq_num \notin e.seen_seq_nums /\ g.seq_num >= e.last_seq_num - WindowSize
    BY <1>2, <1>9, WindowAssumption DEF Passed, Replayed, OutOfWindow
  <2>2. \A s \in Seqs : IF s = g.seq_num
                        THEN TimesAccepted'[s] \in {TimesAccepted[s], TimesAccepted[s] + 1}
                        ELSE TimesAccepted'[s] = TimesAccepted[s]
    BY <1>5, <1>6
  <2>3. Seqs \in SUBSET Nat
    BY BoundAssumption DEF Seqs
  <2>4. /\ left \subseteq Nat /\ \A s \in left : s <= top
        /\ Recalls(Seqs, left, top, TimesAccepted')
    <3> DEFINE seen == e.seen_seq_nums
               last == e.last_seq_num
               p == g.seq_num
               P == TimesAccepted
               Q == TimesAccepted'
    <3>1. /\ Seqs \in SUBSET Nat /\ seen \in SUBSET Nat /\ last \in Nat /\ p \in Nat
          /\ P \in [Seqs -> Nat] /\ Q \in [Seqs -> Nat]
          /\ \A s \in seen : s <= last
          /\ Recalls(Seqs, seen, last, P)
          /\ p \notin seen /\ p >= last - WindowSize
          /\ \A s \in Seqs : IF s = p THEN Q[s] \in {P[s], P[s] + 1} ELSE Q[s] = P[s]
      BY <1>2, <1>4, <1>7, <2>1, <2>2, <2>3
    <3> HIDE DEF seen, last, p, P, Q
    <3>2. /\ TrimSeen(seen \cup {p}, Highest(last, p)) \subseteq Nat
          /\ \A s \in TrimSeen(seen \cup {p}, Highest(last, p)) : s <= Highest(last, p)
          /\ Recalls(Seqs, TrimSeen(seen \cup {p}, Highest(last, p)), Highest(last, p), Q)
      BY <3>1, CommitRecalls
    <3> QED BY <3>2 DEF seen, last, p, Q
  <2> HIDE DEF e, top, left
  <2> QED BY <1>8, <1>9, <2>4 DEF RepeatInv
<1>10. CASE ~ Passed(e, g, 0) \/ bob'.anti_interference = e
  <2>1. /\ bob'.anti_interference.last_seq_num = e.last_seq_num
        /\ bob'.anti_interference.seen_seq_nums = e.seen_seq_nums
    BY <1>3, <1>8, <1>10
  <2>2. CASE ~ Accepts(bob, g, 0)
    BY <1>5, <1>7, <2>1, <2>2 DEF RepeatInv
  <2>3. CASE Accepts(bob, g, 0)
    BY <1>3, <1>9, <1>10, <2>3
  <2> QED BY <2>2, <2>3
<1> QED BY <1>3, <1>9, <1>10

\* tunnel.py:183: the engine's promise survives what the later stages refuse.
\* Whatever the damage, no frame enters the chain of custody a third time.
THEOREM CustodyAtMostTwice == Spec => []AcceptedAtMostTwice
<1>1. Init => RepeatInv
  <2> SUFFICES ASSUME Init PROVE RepeatInv
    OBVIOUS
  <2>1. bob.anti_interference.seen_seq_nums = {}
    <3>1. bob.anti_interference = NewEngine
      BY AtStart
    <3> QED BY <3>1 DEF NewEngine
  <2>2. \A s \in Seqs : TimesAccepted[s] = 0
    <3>1. \A s : Copies(s) = {}
      BY DEF Init, Copies
    <3> QED BY <3>1, FS_EmptySet DEF TimesAccepted
  <2> QED BY <2>1, <2>2 DEF RepeatInv, Recalls
<1>2. LinkInv /\ LinkInv' /\ RepeatInv /\ [Next]_vars => RepeatInv'
  <2> SUFFICES ASSUME LinkInv, LinkInv', RepeatInv, [Next]_vars PROVE RepeatInv'
    OBVIOUS
  <2>1. CASE bob' = bob /\ accepted' = accepted
    BY <2>1 DEF RepeatInv, TimesAccepted, Copies
  <2>2. CASE Deliver \/ DeliverMisframed \/ DeliverAltered \/ DeliverRetyped
    BY <2>2, DeliveryArrives, ProcessRecalls
  <2> QED BY <2>1, <2>2 DEF Next, Send, vars
<1>3. RepeatInv => AcceptedAtMostTwice
  BY DEF RepeatInv, Recalls, TimesAccepted, AcceptedAtMostTwice
<1> QED BY <1>1, <1>2, <1>3, LinkInvariant, PTL DEF Spec
=============================================================================
