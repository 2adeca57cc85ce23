---------------------------- MODULE PipelineProofs ----------------------------
(***************************************************************************)
(* What a harness's operations do to it field by field, what the           *)
(* inspections of a payload add up to, and what an arrival adds to the     *)
(* budget of the flood check: facts about the operators of Harness,        *)
(* Inspections and AntiInterference, for every harness, frame, time and    *)
(* finding, which the proofs about the modules built on them cite.         *)
(***************************************************************************)
EXTENDS Harness, Inspections, SequenceTheorems, FiniteSetTheorems,
        WellFoundedInduction, TLAPS

HarnessFields ==
    { "id", "seq_counter", "session_key", "peer_signing_pubkey", "peer_connected",
      "anti_interference", "chain", "packets_received", "packets_blocked" }

EngineFields ==
    { "last_seq_num", "seen_seq_nums", "seen_signatures", "packet_rate_history",
      "session_closed", "sequence_gaps_detected" }

FrameFields ==
    { "seq_num", "timestamp", "auth_tag", "msg_type", "sealed", "signer", "payload",
      "wire", "covered" }

IsSequence(s) == \E S : s \in Seq(S)

-----------------------------------------------------------------------------
(* The harness.                                                            *)

LEMMA Appended ==
    ASSUME NEW s, IsSequence(s), NEW e
    PROVE  /\ IsSequence(Append(s, e))
           /\ Len(s) \in Nat /\ Len(Append(s, e)) = Len(s) + 1
           /\ DOMAIN s = 1 .. Len(s)
           /\ DOMAIN Append(s, e) = 1 .. Len(s) + 1
           /\ \A i \in DOMAIN s : Append(s, e)[i] = s[i]
           /\ Append(s, e)[Len(s) + 1] = e
<1>1. PICK S : s \in Seq(S)
  BY DEF IsSequence
<1>2. s \in Seq(S \cup {e}) /\ e \in S \cup {e}
  BY <1>1
<1>3. Append(s, e) \in Seq(S \cup {e})
  BY <1>2, AppendProperties
<1>4. /\ Len(Append(s, e)) = Len(s) + 1
      /\ \A i \in 1 .. Len(s) : Append(s, e)[i] = s[i]
      /\ Append(s, e)[Len(s) + 1] = e
  BY <1>2, AppendProperties
<1> QED BY <1>2, <1>3, <1>4, LenProperties DEF IsSequence

\* verify_packet keeps the engine an engine.
LEMMA EngineKept ==
    ASSUME NEW e, DOMAIN e = EngineFields, e.last_seq_num \in Nat,
           NEW f, f.seq_num \in Nat, NEW t
    PROVE  /\ DOMAIN VerifyPacket(e, f, t) = EngineFields
           /\ VerifyPacket(e, f, t).last_seq_num \in Nat
<1> DEFINE o == Observe(e, f, t)
<1>1. DOMAIN o = EngineFields /\ o.last_seq_num = e.last_seq_num
  BY DEF Observe, EngineFields
<1>2. /\ DOMAIN Commit(o, f) = EngineFields
      /\ Commit(o, f).last_seq_num = Highest(o.last_seq_num, f.seq_num)
  <2> HIDE DEF o
  <2> QED BY <1>1 DEF Commit, EngineFields
<1>3. Highest(o.last_seq_num, f.seq_num) \in Nat
  BY <1>1 DEF Highest
<1> QED BY <1>1, <1>2, <1>3 DEF VerifyPacket

\* What process_incoming_frame does to a receiver, field by field.
LEMMA ProcessEffect ==
    ASSUME NEW h, DOMAIN h = HarnessFields, NEW f, NEW t
    PROVE  LET v == ProcessFrame(h, f, t)
           IN  /\ DOMAIN v = HarnessFields
               /\ \A field \in {"id", "seq_counter", "session_key",
                                "peer_signing_pubkey", "peer_connected"} : v[field] = h[field]
               /\ v.anti_interference \in {h.anti_interference,
                                           VerifyPacket(h.anti_interference, f, t)}
               /\ v.chain = IF Accepts(h, f, t) THEN Append(h.chain, f.payload) ELSE h.chain
               /\ v.packets_received =
                      IF Parsable(f) THEN h.packets_received + 1 ELSE h.packets_received
               /\ v.packets_blocked =
                      IF Parsable(f) /\ ~ Accepts(h, f, t) THEN h.packets_blocked + 1
                                                           ELSE h.packets_blocked
<1> DEFINE verdict == Verdict(h, f, t)
           seen == IF ~ WellShaped(f) THEN h
                   ELSE [h EXCEPT !.anti_interference = VerifyPacket(@, f, t)]
           counted == RecordReceived(seen, verdict # "accepted")
           Kept(v) == \A field \in {"id", "seq_counter", "session_key",
                                    "peer_signing_pubkey", "peer_connected"} : v[field] = h[field]
<1>1. /\ DOMAIN seen = HarnessFields
      /\ Kept(seen) /\ seen.chain = h.chain
      /\ seen.packets_received = h.packets_received
      /\ seen.packets_blocked = h.packets_blocked
      /\ seen.anti_interference \in {h.anti_interference, VerifyPacket(h.anti_interference, f, t)}
  BY DEF HarnessFields
<1>2. /\ DOMAIN counted = HarnessFields
      /\ Kept(counted) /\ counted.chain = h.chain
      /\ counted.packets_received = h.packets_received + 1
      /\ counted.packets_blocked =
             IF verdict # "accepted" THEN h.packets_blocked + 1 ELSE h.packets_blocked
      /\ counted.anti_interference = seen.anti_interference
  <2> HIDE DEF seen, verdict
  <2> QED BY <1>1 DEF RecordReceived, HarnessFields
<1>3. ProcessFrame(h, f, t) =
         IF ~ Parsable(f) THEN h
         ELSE IF verdict = "accepted" THEN ExtendChain(counted, f.payload)
         ELSE counted
  BY DEF ProcessFrame
<1>4. Accepts(h, f, t) <=> verdict = "accepted"
  BY DEF Accepts
<1>5. ~ Parsable(f) => verdict # "accepted"
  BY DEF Verdict
<1> HIDE DEF verdict, seen, counted
<1>6. CASE ~ Parsable(f)
  BY <1>3, <1>4, <1>5, <1>6
<1>7. CASE Parsable(f) /\ verdict = "accepted"
  BY <1>1, <1>2, <1>3, <1>4, <1>7 DEF ExtendChain, HarnessFields
<1>8. CASE Parsable(f) /\ verdict # "accepted"
  BY <1>1, <1>2, <1>3, <1>4, <1>8
<1> QED BY <1>6, <1>7, <1>8

\* Only an undamaged frame under the receiver's key, and signed with the key
\* the receiver is bound to, is accepted.
LEMMA AcceptedIsSealed ==
    ASSUME NEW h, NEW f, NEW t, Accepts(h, f, t)
    PROVE  /\ f.covered /\ f.sealed = h.session_key /\ SignatureValid(h, f)
           /\ Parsable(f) /\ WellShaped(f)
BY DEF Accepts, Verdict, HmacValid, Inspection

\* What is accepted has been committed by the engine.
LEMMA AcceptedIsCommitted ==
    ASSUME NEW h, DOMAIN h = HarnessFields, NEW f, NEW t, Accepts(h, f, t)
    PROVE  /\ Passed(h.anti_interference, f, t)
           /\ ProcessFrame(h, f, t).anti_interference =
                  VerifyPacket(h.anti_interference, f, t)
<1> DEFINE seen == [h EXCEPT !.anti_interference = VerifyPacket(@, f, t)]
           counted == RecordReceived(seen, FALSE)
<1>1. /\ Passed(h.anti_interference, f, t) /\ WellShaped(f) /\ Parsable(f)
      /\ Verdict(h, f, t) = "accepted"
  BY DEF Accepts, Verdict, Inspection
<1>2. ProcessFrame(h, f, t) = ExtendChain(counted, f.payload)
  BY <1>1 DEF ProcessFrame
<1>3. /\ DOMAIN seen = HarnessFields
      /\ seen.anti_interference = VerifyPacket(h.anti_interference, f, t)
  BY DEF HarnessFields
<1>4. DOMAIN counted = HarnessFields /\ counted.anti_interference = seen.anti_interference
  <2> HIDE DEF seen
  <2> QED BY <1>3 DEF RecordReceived, HarnessFields
<1>5. ExtendChain(counted, f.payload).anti_interference = counted.anti_interference
  <2> HIDE DEF counted
  <2> QED BY <1>4 DEF ExtendChain, HarnessFields
<1> QED BY <1>1, <1>2, <1>3, <1>4, <1>5

\* Counting a frame to be sent disturbs nothing of what was received.
LEMMA WrapEffect ==
    ASSUME NEW h, DOMAIN h = HarnessFields
    PROVE  LET v == WrapPayload(h)
           IN  /\ DOMAIN v = HarnessFields
               /\ v.seq_counter = h.seq_counter + 1
               /\ \A field \in HarnessFields \ {"seq_counter", "session_key"} :
                     v[field] = h[field]
BY DEF WrapPayload, HarnessFields

\* Nor does a handshake, which changes the two keys and the flag.
LEMMA HandshakeEffect ==
    ASSUME NEW h, DOMAIN h = HarnessFields, NEW bytes, NEW expected
    PROVE  LET v == CompleteHandshake(h, bytes, expected)
           IN  /\ DOMAIN v = HarnessFields
               /\ v.session_key = [secret |-> {h.id, bytes.keys}, ratchet |-> 0]
               /\ \A field \in HarnessFields \ {"session_key", "peer_signing_pubkey", "peer_connected"} :
                     v[field] = h[field]
<1> DEFINE d == DeriveSessionKey(h, bytes)
<1>1. /\ DOMAIN d = HarnessFields
      /\ d.session_key = [secret |-> {h.id, bytes.keys}, ratchet |-> 0]
      /\ \A field \in HarnessFields \ {"session_key", "peer_signing_pubkey"} : d[field] = h[field]
  BY DEF DeriveSessionKey, HarnessFields
<1>2. CompleteHandshake(h, bytes, expected) \in {d, [d EXCEPT !.peer_connected = TRUE]}
  BY DEF CompleteHandshake
<1> HIDE DEF d
<1> QED BY <1>1, <1>2 DEF HarnessFields

\* A harness that has not received anything.
LEMMA NewEffect ==
    ASSUME NEW id
    PROVE  /\ DOMAIN NewHarness(id) = HarnessFields
           /\ NewHarness(id).id = id
           /\ NewHarness(id).seq_counter = 0
           /\ NewHarness(id).session_key = InitialKey
           /\ NewHarness(id).anti_interference = NewEngine
           /\ NewHarness(id).chain = << >>
           /\ NewHarness(id).packets_received = 0
           /\ NewHarness(id).packets_blocked = 0
BY DEF NewHarness, HarnessFields

-----------------------------------------------------------------------------
(* The inspections.                                                        *)

\* "Payloads scoring >= 40 (HIGH or CRITICAL) are blocked by telemetry policy"
\* (config/settings.py:21): the threshold is where the level HIGH begins, so
\* that what the policy blocks is exactly what the analyzer calls so.
THEOREM PolicyFollowsLevel ==
    ASSUME NEW f \in Findings
    PROVE  RiskScore(f) >= MAX_RISK_SCORE_THRESHOLD <=> RiskLevel(f) \in {"HIGH", "CRITICAL"}
<1>1. RiskScore(f) \in Int
  BY DEF RiskScore, Score, CovertChannels, Count, Findings
<1> QED BY <1>1 DEF RiskLevel, MAX_RISK_SCORE_THRESHOLD

LEMMA ScoreIsNat ==
    ASSUME NEW f \in Findings
    PROVE  /\ CovertChannels(f) \in 0 .. 3 /\ Score(f) \in Nat
           /\ RiskScore(f) \in 0 .. 100
<1>1. CovertChannels(f) \in 0 .. 3
  BY DEF CovertChannels, Count
<1>2. Score(f) \in Nat
  <2>1. f.apis \in Nat /\ f.ips \in Nat /\ f.urls \in Nat
    BY DEF Findings
  <2> QED BY <1>1, <2>1 DEF Score
<1> QED BY <1>1, <1>2 DEF RiskScore

\* One covert channel is enough; of suspicious calls it takes three, of
\* addresses and links together four.
THEOREM WhatIsBlocked ==
    ASSUME NEW f \in Findings, f.size > 0
    PROVE  /\ CovertChannels(f) >= 1 => Objection(f) # "clean"
           /\ f.apis >= 3 \/ f.ips + f.urls >= 4 => Objection(f) # "clean"
<1>1. /\ f.apis \in Nat /\ f.ips \in Nat /\ f.urls \in Nat /\ f.size \in Nat
      /\ CovertChannels(f) \in 0 .. 3
  BY ScoreIsNat DEF Findings
<1>2. CovertChannels(f) >= 1 \/ f.apis >= 3 \/ f.ips + f.urls >= 4 => RiskScore(f) >= 40
  BY <1>1 DEF RiskScore, Score
<1> QED BY <1>2 DEF Objection, MAX_RISK_SCORE_THRESHOLD

\* g shows at least what f shows.
AtLeast(g, f) ==
    /\ f.marks \subseteq g.marks /\ f.signatures \subseteq g.signatures
    /\ g.entropy >= f.entropy /\ g.size >= f.size
    /\ g.apis >= f.apis /\ g.ips >= f.ips /\ g.urls >= f.urls

\* No further finding gets a refused payload through, but for one: a field
\* name of the media message, which the base64 check takes for an excuse.
THEOREM MoreNeverClears ==
    ASSUME NEW f \in Findings, NEW g \in Findings, AtLeast(g, f),
           "structured" \in g.marks => "structured" \in f.marks, Objection(f) # "clean"
    PROVE  Objection(g) # "clean"
<1>1. /\ f.apis \in Nat /\ f.ips \in Nat /\ f.urls \in Nat /\ f.size \in Nat
      /\ g.apis \in Nat /\ g.ips \in Nat /\ g.urls \in Nat /\ g.size \in Nat
      /\ f.entropy \in Nat /\ g.entropy \in Nat
  BY DEF Findings
<1>2. CovertChannels(f) <= CovertChannels(g)
  BY DEF CovertChannels, Count, AtLeast
<1>3. Score(f) <= Score(g)
  BY <1>1, <1>2, ScoreIsNat DEF Score, AtLeast
<1>4. RiskScore(f) <= RiskScore(g)
  <2>1. Score(f) \in Nat /\ Score(g) \in Nat
    BY ScoreIsNat
  <2>2. g.size = 0 => f.size = 0
    BY <1>1 DEF AtLeast
  <2> QED BY <1>3, <2>1, <2>2 DEF RiskScore
<1>5. ~ ContentValid(f) => ~ ContentValid(g)
  BY DEF ContentValid, AtLeast
<1>6. ThreatDetected(f) => ThreatDetected(g)
  <2>1. f.entropy >= MAX_ENTROPY_THRESHOLD /\ f.size > 64
           => g.entropy >= MAX_ENTROPY_THRESHOLD /\ g.size > 64
    BY <1>1 DEF AtLeast, MAX_ENTROPY_THRESHOLD
  <2>2. Detections(f) \subseteq Detections(g)
    BY <2>1 DEF Detections, AtLeast
  <2> QED BY <2>2 DEF ThreatDetected
<1>7. RiskScore(f) >= 40 => RiskScore(g) >= 40
  BY <1>4, ScoreIsNat
<1> QED BY <1>5, <1>6, <1>7 DEF Objection, MAX_RISK_SCORE_THRESHOLD

\* With signatures of at least MEDIUM severity, as all in the database are,
\* the incident log at LOW holds the payloads that were cleared and no other.
THEOREM SeverityTells ==
    ASSUME NEW f \in Findings, "LOW" \notin f.signatures
    PROVE  IncidentSeverity(f) = "LOW" <=> Objection(f) = "clean"
<1>1. Objection(f) \in {"exploit", "malware", "risky", "clean"}
  BY DEF Objection
<1>2. CASE Objection(f) = "exploit" \/ Objection(f) = "clean"
  BY <1>2 DEF IncidentSeverity
<1>3. CASE Objection(f) = "malware"
  <2>1. Detections(f) # {}
    BY <1>3 DEF Objection, ThreatDetected
  <2>2. Detections(f) \subseteq {"MEDIUM", "HIGH", "CRITICAL"}
    BY DEF Detections, Findings, Severities
  <2>3. "CRITICAL" \in Detections(f) \/ "HIGH" \in Detections(f) \/ Detections(f) = {"MEDIUM"}
    BY <2>1, <2>2
  <2>4. ScanSeverity(f) # "LOW"
    BY <2>2, <2>3 DEF ScanSeverity
  <2> QED BY <1>3, <2>4 DEF IncidentSeverity
<1>4. CASE Objection(f) = "risky"
  <2>1. RiskScore(f) >= MAX_RISK_SCORE_THRESHOLD
    BY <1>4 DEF Objection
  <2>2. RiskLevel(f) \in {"HIGH", "CRITICAL"}
    BY <2>1, PolicyFollowsLevel
  <2> QED BY <1>4, <2>2 DEF IncidentSeverity
<1> QED BY <1>1, <1>2, <1>3, <1>4

-----------------------------------------------------------------------------
(* The window's memory.                                                    *)

\* What an engine with these numbers in its memory recalls of the frames of
\* D that got through P[s] times: a passed number is remembered until it is
\* at the edge; once the edge is forgotten, nothing at or below it is
\* remembered; and a number that passed twice is behind the window, or at its
\* edge and remembered with nothing below it.
Recalls(D, seen, last, P) ==
    /\ \A s \in D : P[s] >= 1 => s <= last /\ (s \in seen \/ s <= last - WindowSize)
    /\ \A s \in D : P[s] >= 1 /\ s = last - WindowSize /\ s \notin seen => \A r \in seen : r > s
    /\ \A s \in D : P[s] >= 2 =>
          \/ s < last - WindowSize
          \/ s = last - WindowSize /\ s \in seen /\ \A r \in seen : r >= s
    /\ \A s \in D : P[s] <= 2

\* A set that lies between the lower edge and the front is not trimmed.
LEMMA EdgeSetNotTrimmed ==
    ASSUME NEW seen \in SUBSET Nat, NEW last \in Nat,
           \A s \in seen : last - WindowSize <= s /\ s <= last
    PROVE  TrimSeen(seen, last) = seen
<1>1. WindowSize \in Nat /\ WindowSize >= 1
  BY WindowAssumption
<1>2. seen \in SUBSET ((last - WindowSize) .. last)
  BY <1>1
<1>3. /\ IsFiniteSet((last - WindowSize) .. last)
      /\ Cardinality((last - WindowSize) .. last) = WindowSize + 1
  <2>1. last - WindowSize \in Int /\ last \in Int /\ ~ (last - WindowSize > last)
    BY <1>1
  <2>2. Cardinality((last - WindowSize) .. last) = last - (last - WindowSize) + 1
    BY <2>1, FS_Interval
  <2> QED BY <1>1, <2>1, <2>2, FS_Interval
<1>4. /\ Cardinality(seen) <= WindowSize + 1
      /\ Cardinality(seen) \in Nat
  BY <1>2, <1>3, FS_Subset, FS_CardinalityType
<1> QED BY <1>1, <1>4 DEF TrimSeen

\* What a call of verify_packet does to this memory.
LEMMA EngineRecalls ==
    ASSUME NEW e, DOMAIN e = EngineFields, NEW f, NEW t
    PROVE  LET v   == VerifyPacket(e, f, t)
               top == Highest(e.last_seq_num, f.seq_num)
           IN  IF Passed(e, f, t)
               THEN /\ v.last_seq_num = top
                    /\ v.seen_seq_nums = TrimSeen(e.seen_seq_nums \cup {f.seq_num}, top)
               ELSE /\ v.last_seq_num = e.last_seq_num
                    /\ v.seen_seq_nums = e.seen_seq_nums
<1> DEFINE o == Observe(e, f, t)
<1>1. /\ DOMAIN o = EngineFields
      /\ o.last_seq_num = e.last_seq_num /\ o.seen_seq_nums = e.seen_seq_nums
  BY DEF Observe, EngineFields
<1>2. /\ Commit(o, f).last_seq_num = Highest(o.last_seq_num, f.seq_num)
      /\ Commit(o, f).seen_seq_nums =
             TrimSeen(o.seen_seq_nums \cup {f.seq_num}, Highest(o.last_seq_num, f.seq_num))
  <2> HIDE DEF o
  <2> QED BY <1>1 DEF Commit, EngineFields
<1>3. VerifyPacket(e, f, t) = IF Passed(e, f, t) THEN Commit(o, f) ELSE o
  BY DEF VerifyPacket
<1> HIDE DEF o
<1> QED BY <1>1, <1>2, <1>3

\* Committing the number p of a frame, whether the frame is then counted as
\* passed or refused by a later stage, keeps what the engine recalls.
LEMMA CommitRecalls ==
    ASSUME NEW D \in SUBSET Nat, NEW seen \in SUBSET Nat, NEW last \in Nat,
           NEW P \in [D -> Nat], NEW Q \in [D -> Nat], NEW p \in Nat,
           \A s \in seen : s <= last,
           Recalls(D, seen, last, P),
           p \notin seen, p >= last - WindowSize,
           \A s \in D : IF s = p THEN Q[s] \in {P[s], P[s] + 1} ELSE Q[s] = P[s]
    PROVE  LET top  == Highest(last, p)
               left == TrimSeen(seen \cup {p}, top)
           IN  /\ top \in Nat /\ left \subseteq Nat
               /\ \A s \in left : s <= top
               /\ Recalls(D, left, top, Q)
<1> DEFINE W == WindowSize
           top == Highest(last, p)
           added == seen \cup {p}
           left == TrimSeen(added, top)
<1>1. W \in Nat /\ W >= 1
  BY WindowAssumption
<1>2. top \in Nat /\ top >= last /\ top >= p /\ (top = last \/ top = p)
  BY DEF Highest
<1>3. added \subseteq Nat /\ \A s \in added : s <= top
  BY <1>2
<1>4. left \subseteq added /\ (left = added \/ left = {s \in added : s > top - W})
  BY DEF TrimSeen
<1>5. /\ \A s \in D : s # p => Q[s] = P[s]
      /\ p \in D => Q[p] \in {P[p], P[p] + 1}
      /\ \A s \in D : s \in Nat /\ P[s] \in Nat /\ Q[s] \in Nat
  OBVIOUS
<1>6. /\ \A s \in D : P[s] >= 1 => s <= last /\ (s \in seen \/ s <= last - W)
      /\ \A s \in D : P[s] >= 1 /\ s = last - W /\ s \notin seen => \A r \in seen : r > s
      /\ \A s \in D : P[s] >= 2 =>
            \/ s < last - W
            \/ s = last - W /\ s \in seen /\ \A r \in seen : r >= s
      /\ \A s \in D : P[s] <= 2
  BY DEF Recalls
<1>7. p \in added /\ \A s \in added : s \in seen \/ s = p
  OBVIOUS
<1>e. seen \subseteq added /\ p \notin seen /\ p >= last - W
  OBVIOUS
<1> HIDE DEF W, top, added, left
<1>8. ASSUME NEW s \in D, Q[s] >= 1
      PROVE  s <= top /\ (s \in left \/ s <= top - W)
  <2>1. CASE s = p
    BY <1>1, <1>2, <1>4, <1>7, <2>1
  <2>2. CASE s # p
    <3>1. P[s] >= 1
      BY <1>5, <1>8, <2>2
    <3>2. s <= last /\ (s \in seen \/ s <= last - W)
      BY <1>6, <3>1
    <3>3. s \in Nat
      BY <1>5
    <3> QED BY <1>1, <1>2, <1>4, <1>e, <3>2, <3>3
  <2> QED BY <2>1, <2>2
<1>9. ASSUME NEW s \in D, Q[s] >= 1, s = top - W, s \notin left, NEW r \in left
      PROVE  r > s
  <2>1. CASE left = {q \in added : q > top - W}
    BY <1>9, <2>1
  <2>2. CASE left = added
    <3>1. s \notin added /\ s # p /\ s \notin seen /\ r \in added /\ s \in Nat
      BY <1>5, <1>7, <1>e, <1>9, <2>2
    <3>2. P[s] >= 1
      BY <1>5, <1>9, <3>1
    <3>3. s <= last - W
      BY <1>6, <3>1, <3>2
    <3>4. top = last /\ s = last - W
      BY <1>1, <1>2, <1>9, <3>3
    <3>5. \A q \in seen : q > s
      BY <1>6, <3>1, <3>2, <3>4
    <3>6. p > s
      BY <1>1, <1>e, <3>1, <3>4
    <3> QED BY <1>7, <3>1, <3>5, <3>6
  <2> QED BY <1>4, <2>1, <2>2
<1>10. ASSUME p \in D, P[p] >= 1
       PROVE  p = last - W /\ top = last /\ (\A r \in seen : r > p) /\ P[p] = 1
  <2>1. p <= last /\ p <= last - W
    BY <1>6, <1>10, <1>e
  <2>2. p = last - W /\ top = last
    BY <1>1, <1>2, <1>e, <2>1
  <2>3. \A r \in seen : r > p
    BY <1>6, <1>10, <1>e, <2>2
  <2>4. ~ (P[p] >= 2)
    <3>1. ~ (p < last - W)
      BY <1>1, <2>2
    <3> QED BY <1>6, <1>10, <1>e, <3>1
  <2> QED BY <1>5, <1>10, <2>2, <2>3, <2>4
<1>11. ASSUME NEW s \in D, s = last - W, top = last, \A r \in seen : r >= s
       PROVE  left = added /\ \A r \in added : r >= s
  <2>1. \A r \in added : r >= s
    BY <1>7, <1>e, <1>11
  <2>2. \A r \in added : top - W <= r /\ r <= top
    BY <1>3, <1>11, <2>1
  <2> QED BY <1>2, <1>3, <2>1, <2>2, EdgeSetNotTrimmed DEF W, left
<1>12. ASSUME NEW s \in D, Q[s] >= 2
       PROVE  \/ s < top - W
              \/ s = top - W /\ s \in left /\ \A r \in left : r >= s
  <2>1. CASE s = p
    <3>1. P[p] >= 1 /\ p \in D
      BY <1>5, <1>12, <2>1
    <3>2. s = last - W /\ top = last /\ \A r \in seen : r >= s
      <4>1. p = last - W /\ top = last /\ \A r \in seen : r > p
        BY <1>10, <3>1
      <4>2. \A r \in seen : r \in Nat
        OBVIOUS
      <4> QED BY <2>1, <4>1, <4>2
    <3>3. left = added /\ \A r \in added : r >= s
      BY <1>11, <3>2
    <3> QED BY <1>7, <2>1, <3>2, <3>3
  <2>2. CASE s # p
    <3>1. P[s] >= 2 /\ s \in Nat
      BY <1>5, <1>12, <2>2
    <3>2. \/ s < last - W
          \/ s = last - W /\ s \in seen /\ \A r \in seen : r >= s
      BY <1>6, <3>1
    <3>3. CASE s < last - W \/ top # last
      <4>1. s <= last - W /\ (s = last - W => top > last)
        BY <1>1, <1>2, <3>1, <3>2, <3>3
      <4> QED BY <1>1, <1>2, <3>1, <4>1
    <3>4. CASE s = last - W /\ s \in seen /\ (\A r \in seen : r >= s) /\ top = last
      <4>1. left = added /\ \A r \in added : r >= s
        BY <1>11, <3>4
      <4> QED BY <1>e, <3>4, <4>1
    <3> QED BY <3>2, <3>3, <3>4
  <2> QED BY <2>1, <2>2
<1>13. ASSUME NEW s \in D PROVE Q[s] <= 2
  <2>1. P[s] <= 2 /\ P[s] \in Nat
    BY <1>5, <1>6
  <2>2. CASE s = p
    <3>1. CASE P[p] >= 1
      BY <1>5, <1>10, <2>1, <2>2, <3>1
    <3>2. CASE ~ (P[p] >= 1)
      BY <1>5, <2>1, <2>2, <3>2
    <3> QED BY <3>1, <3>2
  <2> QED BY <1>5, <2>1, <2>2
<1>14. Recalls(D, left, top, Q)
  BY <1>8, <1>9, <1>12, <1>13 DEF Recalls, W
<1>15. left \subseteq Nat /\ \A s \in left : s <= top
  BY <1>3, <1>4
<1> QED BY <1>2, <1>14, <1>15 DEF left, added, top

-----------------------------------------------------------------------------
(* Induction, and the sums of the flood check.  Of a SET of natural numbers *)
(* the provers can be told that it has a least element; induction over the *)
(* numbers in a set, and over the parts of a finite set, follows from that. *)

LEMMA LeastNumber ==
    ASSUME NEW T \in SUBSET Nat, T # {}
    PROVE  \E n \in T : \A m \in T : n <= m
<1> DEFINE R == {ss \in Nat \X Nat : ss[1] < ss[2]}
<1>1. IsWellFoundedOn(R, Nat)
  BY NatLessThanWellFounded, Zenon DEF OpToRel
<1>2. PICK n \in T : \A m \in T : <<m, n>> \notin R
  <2> HIDE DEF R
  <2> QED BY <1>1, WFMin
<1>3. \A m \in T : ~ m < n
  BY <1>2
<1> QED BY <1>3

LEMMA Induction ==
    ASSUME NEW P \in SUBSET Nat, 0 \in P, \A n \in P : n + 1 \in P
    PROVE  P = Nat
<1> SUFFICES ASSUME Nat \ P # {} PROVE FALSE
  OBVIOUS
<1>1. PICK n \in Nat \ P : \A m \in Nat \ P : n <= m
  BY LeastNumber
<1>2. n - 1 \in Nat /\ n - 1 \in P
  BY <1>1
<1>3. (n - 1) + 1 = n
  OBVIOUS
<1> QED BY <1>1, <1>2, <1>3

\* The same for the subsets of a finite set: what holds of the empty one,
\* and of each as soon as it holds of those with one element less.
LEMMA SubsetInduction ==
    ASSUME NEW S, IsFiniteSet(S), NEW Q \in SUBSET SUBSET S, {} \in Q,
           \A s \in SUBSET S : s # {} /\ (\A x \in s : s \ {x} \in Q) => s \in Q
    PROVE  \A s \in SUBSET S : s \in Q
<1> DEFINE P == {n \in Nat : \A s \in SUBSET S : Cardinality(s) = n => s \in Q}
<1>1. \A s \in SUBSET S : IsFiniteSet(s) /\ Cardinality(s) \in Nat
  BY FS_Subset, FS_CardinalityType
<1>2. 0 \in P
  BY <1>1, FS_EmptySet
<1>3. ASSUME NEW n \in P PROVE n + 1 \in P
  <2>1. ASSUME NEW s \in SUBSET S, Cardinality(s) = n + 1, NEW x \in s PROVE s \ {x} \in Q
    <3>1. Cardinality(s \ {x}) = Cardinality(s) - 1
      BY <1>1, FS_RemoveElement
    <3>2. n \in Nat /\ s \ {x} \in SUBSET S
      OBVIOUS
    <3>3. Cardinality(s \ {x}) = n
      <4> HIDE DEF P
      <4> QED BY <2>1, <3>1, <3>2
    <3> QED BY <3>2, <3>3
  <2>2. \A s \in SUBSET S : Cardinality(s) = n + 1 => s \in Q
    <3>1. Cardinality({}) = 0
      BY FS_EmptySet
    <3> QED BY <2>1, <3>1
  <2> QED BY <2>2
<1>4. P = Nat
  <2>1. P \in SUBSET Nat
    OBVIOUS
  <2> HIDE DEF P
  <2> QED BY <1>2, <1>3, <2>1, Induction
<1> QED BY <1>1, <1>4

\* A sum is the value of a function that is defined recursively on the
\* subsets of a set, each time setting one chosen element aside.
Chosen(s) == CHOOSE x \in s : TRUE

Added(f, g, s) == IF s = {} THEN 0 ELSE f[Chosen(s)] + g[s \ {Chosen(s)}]

Sums(f, S) == CHOOSE g : g = [s \in SUBSET S |-> Added(f, g, s)]

LEMMA SumIsRecursive ==
    ASSUME NEW f, NEW S
    PROVE  SumFunctionOnSet(f, S) = Sums(f, S)[S]
BY Zenon DEF SumFunctionOnSet, FoldFunctionOnSet, MapThenFoldSet, Sums, Added, Chosen

\* One element less.
LEMMA SetAside ==
    ASSUME NEW s, IsFiniteSet(s), s # {}
    PROVE  /\ Chosen(s) \in s
           /\ IsFiniteSet(s \ {Chosen(s)})
           /\ Cardinality(s) \in Nat \ {0}
           /\ Cardinality(s \ {Chosen(s)}) = Cardinality(s) - 1
<1>1. Chosen(s) \in s
  BY DEF Chosen
<1>2. Cardinality(s) \in Nat /\ Cardinality(s) # 0
  BY FS_CardinalityType, FS_EmptySet
<1> QED BY <1>1, <1>2, FS_RemoveElement

\* There is such a function: it is built for ever larger subsets.
LEMMA SumsExist ==
    ASSUME NEW f, NEW S, IsFiniteSet(S)
    PROVE  \A s \in SUBSET S : Sums(f, S)[s] = Added(f, Sums(f, S), s)
<1> DEFINE Upto(n) == {s \in SUBSET S : Cardinality(s) <= n}
           Solves(g, D) == g = [s \in D |-> Added(f, g, s)]
           P == {n \in Nat : \E g : Solves(g, Upto(n))}
<1>1. \A s \in SUBSET S : IsFiniteSet(s) /\ Cardinality(s) \in Nat
  BY FS_Subset, FS_CardinalityType
<1>2. 0 \in P
  <2> DEFINE g == [s \in Upto(0) |-> 0]
  <2>1. \A s \in Upto(0) : s = {}
    BY <1>1, FS_EmptySet
  <2>2. \A s \in Upto(0) : Added(f, g, s) = 0
    BY <2>1 DEF Added
  <2>3. Solves(g, Upto(0))
    BY <2>2
  <2> QED BY <2>3
<1>3. ASSUME NEW n \in P PROVE n + 1 \in P
  <2>1. PICK g : Solves(g, Upto(n))
    OBVIOUS
  <2> DEFINE h == [s \in Upto(n + 1) |-> Added(f, g, s)]
  <2>2. \A s \in Upto(n) : h[s] = g[s]
    <3>1. \A s \in Upto(n) : s \in Upto(n + 1)
      BY <1>1
    <3> QED BY <2>1, <3>1
  <2>3. ASSUME NEW s \in Upto(n + 1) PROVE Added(f, g, s) = Added(f, h, s)
    <3>1. CASE s = {}
      BY <3>1 DEF Added
    <3>2. CASE s # {}
      <4>1. s \ {Chosen(s)} \in Upto(n)
        BY <1>1, <3>2, SetAside
      <4> HIDE DEF h
      <4> QED BY <2>2, <4>1 DEF Added
    <3> QED BY <3>1, <3>2
  <2>4. Solves(h, Upto(n + 1))
    BY <2>3
  <2>5. n + 1 \in Nat
    OBVIOUS
  <2> HIDE DEF h, Solves, Upto
  <2> QED BY <2>4, <2>5
<1>4. P = Nat
  <2> HIDE DEF P
  <2>1. P \in SUBSET Nat
    BY DEF P
  <2> QED BY <1>2, <1>3, <2>1, Induction
<1>5. PICK g : Solves(g, SUBSET S)
  <2>1. Cardinality(S) \in Nat /\ Upto(Cardinality(S)) = SUBSET S
    BY FS_Subset, FS_CardinalityType
  <2> HIDE DEF Solves, Upto
  <2>2. \E g : Solves(g, Upto(Cardinality(S)))
    BY <1>4, <2>1
  <2> QED BY <2>1, <2>2
<1>6. Sums(f, S) = [s \in SUBSET S |-> Added(f, Sums(f, S), s)]
  BY <1>5, Zenon DEF Sums
<1> QED BY <1>6

\* The sum of a part of S, by the function defined for S.
LEMMA SumFinite ==
    ASSUME NEW f, NEW S, IsFiniteSet(S)
    PROVE  \A s \in SUBSET S : Sums(f, S)[s] = SumFunctionOnSet(f, s)
<1> DEFINE Q == {s \in SUBSET S : \A t \in SUBSET S :
                    s \subseteq t => Sums(f, S)[s] = Sums(f, t)[s]}
<1>1. \A t \in SUBSET S : \A s \in SUBSET t : Sums(f, t)[s] = Added(f, Sums(f, t), s)
  BY FS_Subset, SumsExist
<1>2. {} \in Q
  BY <1>1 DEF Added
<1>3. ASSUME NEW s \in SUBSET S, s # {}, \A x \in s : s \ {x} \in Q
      PROVE  s \in Q
  <2>1. Chosen(s) \in s
    BY <1>3 DEF Chosen
  <2>2. ASSUME NEW t \in SUBSET S, s \subseteq t
        PROVE  Sums(f, S)[s] = Sums(f, t)[s]
    <3>1. Sums(f, S)[s \ {Chosen(s)}] = Sums(f, t)[s \ {Chosen(s)}]
      BY <1>3, <2>1, <2>2
    <3>2. Sums(f, S)[s] = Added(f, Sums(f, S), s) /\ Sums(f, t)[s] = Added(f, Sums(f, t), s)
      BY <1>1, <2>2
    <3> QED BY <1>3, <3>1, <3>2 DEF Added
  <2> QED BY <2>2
<1>4. \A s \in SUBSET S : s \in Q
  <2>1. Q \in SUBSET SUBSET S
    OBVIOUS
  <2> HIDE DEF Q
  <2> QED BY <1>2, <1>3, <2>1, SubsetInduction
<1>5. \A s \in SUBSET S : Sums(f, S)[s] = Sums(f, s)[s]
  BY <1>4
<1> QED BY <1>5, SumIsRecursive

LEMMA SumEmpty ==
    ASSUME NEW f
    PROVE  SumFunctionOnSet(f, {}) = 0
<1>1. Sums(f, {})[{}] = Added(f, Sums(f, {}), {})
  BY SumsExist, FS_EmptySet
<1> QED BY <1>1, SumIsRecursive DEF Added

LEMMA SumChosen ==
    ASSUME NEW f, NEW S, IsFiniteSet(S), S # {}
    PROVE  /\ Chosen(S) \in S
           /\ SumFunctionOnSet(f, S) = f[Chosen(S)] + SumFunctionOnSet(f, S \ {Chosen(S)})
<1>1. Sums(f, S)[S] = Added(f, Sums(f, S), S)
  BY SumsExist
<1>2. S \ {Chosen(S)} \in SUBSET S /\ S \in SUBSET S /\ Chosen(S) \in S
  BY DEF Chosen
<1> QED BY <1>1, <1>2, SumFinite DEF Added

\* A sum of natural numbers is one.
LEMMA SumNatural ==
    ASSUME NEW f, NEW S, IsFiniteSet(S), \A x \in S : f[x] \in Nat
    PROVE  SumFunctionOnSet(f, S) \in Nat
<1> DEFINE Q == {s \in SUBSET S : SumFunctionOnSet(f, s) \in Nat}
<1>1. {} \in Q
  BY SumEmpty
<1>2. ASSUME NEW s \in SUBSET S, s # {}, \A x \in s : s \ {x} \in Q
      PROVE  s \in Q
  <2>1. /\ Chosen(s) \in s
        /\ SumFunctionOnSet(f, s) = f[Chosen(s)] + SumFunctionOnSet(f, s \ {Chosen(s)})
    <3> HIDE DEF Q
    <3> QED BY <1>2, FS_Subset, SumChosen
  <2>2. f[Chosen(s)] \in Nat /\ SumFunctionOnSet(f, s \ {Chosen(s)}) \in Nat
    BY <1>2, <2>1
  <2> QED BY <2>1, <2>2
<1>3. \A s \in SUBSET S : s \in Q
  <2>1. Q \in SUBSET SUBSET S
    OBVIOUS
  <2> HIDE DEF Q
  <2> QED BY <1>1, <1>2, <2>1, SubsetInduction
<1> QED BY <1>3

\* Whichever element is set aside, the sum is the same.
LEMMA SumRemove ==
    ASSUME NEW f, NEW S, IsFiniteSet(S), \A x \in S : f[x] \in Nat
    PROVE  \A x \in S : SumFunctionOnSet(f, S) = f[x] + SumFunctionOnSet(f, S \ {x})
<1> DEFINE Sum(s) == SumFunctionOnSet(f, s)
           Q == {s \in SUBSET S : \A x \in s : Sum(s) = f[x] + Sum(s \ {x})}
<1>1. \A s \in SUBSET S : IsFiniteSet(s) /\ Sum(s) \in Nat
  <2>1. \A s \in SUBSET S : IsFiniteSet(s) /\ \A x \in s : f[x] \in Nat
    BY FS_Subset
  <2> QED BY <2>1, SumNatural
<1>2. {} \in Q
  OBVIOUS
<1>3. ASSUME NEW s \in SUBSET S, s # {}, \A x \in s : s \ {x} \in Q, NEW x \in s
      PROVE  Sum(s) = f[x] + Sum(s \ {x})
  <2> DEFINE c == Chosen(s)
             r == (s \ {c}) \ {x}
  <2>1. c \in s /\ Sum(s) = f[c] + Sum(s \ {c})
    <3> HIDE DEF Q
    <3> QED BY <1>1, <1>3, SumChosen
  <2>2. ASSUME x # c PROVE Sum(s) = f[x] + Sum(s \ {x})
    <3>1. x \in s \ {c} /\ c \in s \ {x} /\ (s \ {x}) \ {c} = r /\ r \in SUBSET S
      BY <2>1, <2>2
    <3>2. Sum(s \ {c}) = f[x] + Sum(r)
      BY <1>3, <2>1, <3>1
    <3>3. Sum(s \ {x}) = f[c] + Sum(r)
      BY <1>3, <3>1
    <3>4. f[x] \in Nat /\ f[c] \in Nat /\ Sum(r) \in Nat
      BY <1>1, <2>1, <3>1
    <3> HIDE DEF Sum, r, c, Q
    <3> QED BY <2>1, <3>2, <3>3, <3>4
  <2> QED BY <2>1, <2>2
<1>4. \A s \in SUBSET S : s \in Q
  <2>1. Q \in SUBSET SUBSET S
    OBVIOUS
  <2>2. \A s \in SUBSET S : s # {} /\ (\A x \in s : s \ {x} \in Q) => s \in Q
    BY <1>3
  <2> HIDE DEF Q
  <2> QED BY <1>2, <2>1, <2>2, SubsetInduction
<1>5. S \in Q
  <2> HIDE DEF Q
  <2> QED BY <1>4
<1> QED BY <1>5

\* Over more elements, and with larger values, a sum is no smaller.
LEMMA SumGrows ==
    ASSUME NEW f, NEW g, NEW S, IsFiniteSet(S), NEW T \in SUBSET S,
           \A x \in T : f[x] \in Nat /\ f[x] <= g[x],
           \A x \in S : g[x] \in Nat
    PROVE  SumFunctionOnSet(f, T) <= SumFunctionOnSet(g, S)
<1> DEFINE F(t) == SumFunctionOnSet(f, t)
           G(s) == SumFunctionOnSet(g, s)
           Q == {s \in SUBSET S : F(s \cap T) <= G(s)}
<1>1. ASSUME NEW s \in SUBSET S
      PROVE  /\ IsFiniteSet(s) /\ G(s) \in Nat
             /\ \A x \in s : G(s) = g[x] + G(s \ {x})
  <2>1. IsFiniteSet(s) /\ \A x \in s : g[x] \in Nat
    BY FS_Subset
  <2> QED BY <2>1, SumNatural, SumRemove
<1>2. ASSUME NEW t \in SUBSET T
      PROVE  /\ F(t) \in Nat
             /\ \A x \in t : F(t) = f[x] + F(t \ {x})
  <2>1. IsFiniteSet(t) /\ \A x \in t : f[x] \in Nat
    BY FS_Subset
  <2> QED BY <2>1, SumNatural, SumRemove
<1>3. {} \in Q
  BY SumEmpty
<1>4. ASSUME NEW s \in SUBSET S, s # {}, \A x \in s : s \ {x} \in Q
      PROVE  s \in Q
  <2>1. PICK x \in s : TRUE
    BY <1>4
  <2>2. /\ G(s) = g[x] + G(s \ {x}) /\ g[x] \in Nat /\ G(s \ {x}) \in Nat
        /\ F((s \ {x}) \cap T) <= G(s \ {x}) /\ F((s \ {x}) \cap T) \in Nat
    BY <1>1, <1>2, <1>4
  <2>3. CASE x \in T
    <3>1. (s \cap T) \ {x} = (s \ {x}) \cap T /\ s \cap T \in SUBSET T /\ x \in s \cap T
      BY <2>3
    <3>2. F(s \cap T) = f[x] + F((s \ {x}) \cap T) /\ f[x] \in Nat /\ f[x] <= g[x]
      BY <1>2, <2>3, <3>1
    <3>3. F(s \cap T) <= G(s)
      <4> HIDE DEF F, G
      <4> QED BY <2>2, <3>2
    <3> QED BY <3>3
  <2>4. CASE x \notin T
    <3>1. (s \ {x}) \cap T = s \cap T
      BY <2>4
    <3>2. F(s \cap T) <= G(s)
      <4> HIDE DEF F, G
      <4> QED BY <2>2, <3>1
    <3> QED BY <3>2
  <2> QED BY <2>3, <2>4
<1>5. S \in Q
  <2>1. Q \in SUBSET SUBSET S /\ S \in SUBSET S
    OBVIOUS
  <2> HIDE DEF Q
  <2> QED BY <1>3, <1>4, <2>1, SubsetInduction
<1>6. S \cap T = T
  OBVIOUS
<1> QED BY <1>5, <1>6

\* Where nothing is counted the sum is zero.
LEMMA SumOfZeros ==
    ASSUME NEW f, NEW S, IsFiniteSet(S), \A x \in S : f[x] = 0
    PROVE  SumFunctionOnSet(f, S) = 0
<1> DEFINE Q == {s \in SUBSET S : SumFunctionOnSet(f, s) = 0}
<1>1. {} \in Q
  BY SumEmpty
<1>2. ASSUME NEW s \in SUBSET S, s # {}, \A x \in s : s \ {x} \in Q
      PROVE  s \in Q
  <2>1. /\ Chosen(s) \in s
        /\ SumFunctionOnSet(f, s) = f[Chosen(s)] + SumFunctionOnSet(f, s \ {Chosen(s)})
    <3> HIDE DEF Q
    <3> QED BY <1>2, FS_Subset, SumChosen
  <2>2. f[Chosen(s)] = 0 /\ SumFunctionOnSet(f, s \ {Chosen(s)}) = 0
    BY <1>2, <2>1
  <2> QED BY <2>1, <2>2
<1>3. S \in Q
  <2>1. Q \in SUBSET SUBSET S /\ S \in SUBSET S
    OBVIOUS
  <2> HIDE DEF Q
  <2> QED BY <1>1, <1>2, <2>1, SubsetInduction
<1> QED BY <1>3

\* Where one term is larger by at most one and no other is larger, neither
\* is the sum by more than one.
LEMMA SumRaised ==
    ASSUME NEW f, NEW g, NEW S, IsFiniteSet(S), NEW x \in S,
           \A y \in S : f[y] \in Nat /\ g[y] \in Nat,
           \A y \in S \ {x} : g[y] <= f[y],
           g[x] <= f[x] + 1
    PROVE  SumFunctionOnSet(g, S) <= SumFunctionOnSet(f, S) + 1
<1> DEFINE R == S \ {x}
<1>1. IsFiniteSet(R) /\ R \in SUBSET R
  BY FS_Subset
<1>2. SumFunctionOnSet(g, R) <= SumFunctionOnSet(f, R)
  <2>1. \A y \in R : g[y] \in Nat /\ f[y] \in Nat /\ g[y] <= f[y]
    OBVIOUS
  <2> HIDE DEF R
  <2> QED BY <1>1, <2>1, SumGrows
<1>3. /\ SumFunctionOnSet(g, S) = g[x] + SumFunctionOnSet(g, R)
      /\ SumFunctionOnSet(f, S) = f[x] + SumFunctionOnSet(f, R)
  BY SumRemove
<1>4. SumFunctionOnSet(g, R) \in Nat /\ SumFunctionOnSet(f, R) \in Nat
  <2>1. \A y \in R : g[y] \in Nat /\ f[y] \in Nat
    OBVIOUS
  <2> HIDE DEF R
  <2> QED BY <1>1, <2>1, SumNatural
<1>5. g[x] \in Nat /\ f[x] \in Nat
  OBVIOUS
<1> HIDE DEF R
<1> QED BY <1>2, <1>3, <1>4, <1>5

LEMMA TimeFinite == IsFiniteSet(Time)
BY FS_Interval, TimeAssumption DEF Time

LEMMA SumOverTime ==
    ASSUME NEW h, DOMAIN h = Time
    PROVE  SumFunction(h) = SumFunctionOnSet(h, Time)
BY DEF SumFunction

\* An arrival costs the budget of the flood check one frame at most.
LEMMA ArrivedSum ==
    ASSUME NEW h \in [Time -> Nat], NEW t \in Time
    PROVE  /\ Arrived(h, t) \in [Time -> Nat]
           /\ SumFunction(h) \in Nat /\ SumFunction(Arrived(h, t)) \in Nat
           /\ SumFunction(Arrived(h, t)) <= SumFunction(h) + 1
<1> DEFINE g == Arrived(h, t)
<1>1. g \in [Time -> Nat]
  BY DEF Arrived
<1>2. /\ \A y \in Time : h[y] \in Nat /\ g[y] \in Nat
      /\ \A y \in Time \ {t} : g[y] <= h[y]
      /\ g[t] <= h[t] + 1
  <2>1. \A y \in Time \ {t} : g[y] = 0 \/ g[y] = h[y]
    BY DEF Arrived
  <2>2. g[t] = 0 \/ g[t] = h[t] + 1
    BY DEF Arrived
  <2> HIDE DEF g
  <2> QED BY <1>1, <2>1, <2>2
<1>3. SumFunction(h) = SumFunctionOnSet(h, Time) /\ SumFunction(g) = SumFunctionOnSet(g, Time)
  BY <1>1, SumOverTime
<1>4. /\ SumFunctionOnSet(h, Time) \in Nat /\ SumFunctionOnSet(g, Time) \in Nat
      /\ SumFunctionOnSet(g, Time) <= SumFunctionOnSet(h, Time) + 1
  <2> HIDE DEF g
  <2> QED BY <1>2, TimeFinite, SumNatural, SumRaised
<1> QED BY <1>1, <1>3, <1>4

\* A new engine has heard nothing.
LEMMA NothingHeard == SumFunction(NewEngine.packet_rate_history) = 0
<1> DEFINE z == [t \in Time |-> 0]
<1>1. NewEngine.packet_rate_history = z
  BY DEF NewEngine
<1>2. SumFunction(z) = SumFunctionOnSet(z, Time)
  BY SumOverTime
<1>3. \A t \in Time : z[t] = 0
  OBVIOUS
<1> HIDE DEF z
<1> QED BY <1>1, <1>2, <1>3, TimeFinite, SumOfZeros
=============================================================================
