------------------------- MODULE ReplayWindowProofs -------------------------
(***************************************************************************)
(* Proofs about ReplayWindow for every value of its constants.             *)
(*                                                                         *)
(* The argument turns on what the engine still remembers of a frame it let *)
(* through.  A passed number is either remembered, or it lies at or behind *)
(* the lower edge of the window (PassedAreAccounted): so a repeat can only *)
(* get through exactly at the edge.  When the edge has been forgotten the  *)
(* engine remembers nothing at or below it (EdgeForgotten), so that after  *)
(* a repeat at the edge the remembered set is too small to be trimmed      *)
(* again before the front moves on, and moving on puts the number out of   *)
(* reach (RepeatSettled).                                                  *)
(***************************************************************************)
EXTENDS ReplayWindow, PipelineProofs

-----------------------------------------------------------------------------
(* Lemmas about the operators of AntiInterference.                         *)

\* The time-window history keeps its type.
LEMMA ArrivedType ==
    ASSUME NEW h \in [Time -> Nat], NEW t \in Time
    PROVE  Arrived(h, t) \in [Time -> Nat]
BY DEF Arrived

\* A call of verify_packet that rejects the packet changes no memory of
\* what was let through.
LEMMA RejectEffect ==
    ASSUME NEW e \in Engines, NEW f \in Frames, NEW t \in Time,
           ~ Passed(e, f, t)
    PROVE  LET v == VerifyPacket(e, f, t)
           IN  /\ v.last_seq_num = e.last_seq_num
               /\ v.seen_seq_nums = e.seen_seq_nums
               /\ v.seen_signatures = e.seen_signatures
               /\ v.sequence_gaps_detected = e.sequence_gaps_detected + MissingCount(e, f)
               /\ v.packet_rate_history = Arrived(e.packet_rate_history, t)
               /\ v.session_closed \in BOOLEAN
               /\ DOMAIN v = DOMAIN e
BY DEF VerifyPacket, Observe, Engines, Frames

\* A call that lets the packet through.
LEMMA PassEffect ==
    ASSUME NEW e \in Engines, NEW f \in Frames, NEW t \in Time,
           Passed(e, f, t)
    PROVE  LET v == VerifyPacket(e, f, t)
               last == Highest(e.last_seq_num, f.seq_num)
           IN  /\ v.last_seq_num = last
               /\ v.seen_seq_nums = TrimSeen(e.seen_seq_nums \cup {f.seq_num}, last)
               /\ v.seen_signatures =
                      TrimSignatures(e.seen_signatures \cup ({f.auth_tag} \ {ZeroTag}))
               /\ v.sequence_gaps_detected = e.sequence_gaps_detected + MissingCount(e, f)
               /\ v.packet_rate_history = Arrived(e.packet_rate_history, t)
               /\ v.session_closed \in BOOLEAN
               /\ DOMAIN v = DOMAIN e
BY DEF VerifyPacket, Observe, Commit, Engines, Frames

LEMMA MissingType ==
    ASSUME NEW e \in Engines, NEW f \in Frames
    PROVE  MissingCount(e, f) \in Nat
BY DEF MissingCount, Engines, Frames, Seqs

LEMMA SeqsFinite ==
    ASSUME NEW S \in SUBSET Seqs
    PROVE  IsFiniteSet(S) /\ Cardinality(S) \in Nat
<1>1. 1 \in Int /\ MaxSeq \in Int
  BY SenderAssumption
<1>2. IsFiniteSet(Seqs)
  BY <1>1, FS_Interval DEF Seqs
<1>3. IsFiniteSet(S)
  BY <1>2, FS_Subset
<1> QED BY <1>3, FS_CardinalityType

\* Trimming only forgets; and what is left fits in twice the window.
LEMMA TrimSeenBounded ==
    ASSUME NEW seen \in SUBSET Seqs, NEW last \in Nat,
           \A s \in seen : s <= last
    PROVE  /\ TrimSeen(seen, last) \subseteq seen
           /\ IsFiniteSet(seen)
           /\ Cardinality(TrimSeen(seen, last)) <= WindowSize * 2
<1>1. MaxSeq \in Nat /\ WindowSize \in Nat
  BY SenderAssumption, WindowAssumption
<1>2. IsFiniteSet(seen) /\ Cardinality(seen) \in Nat
  BY SeqsFinite
<1>3. CASE Cardinality(seen) <= WindowSize * 2
  BY <1>1, <1>2, <1>3 DEF TrimSeen
<1>4. CASE ~ (Cardinality(seen) <= WindowSize * 2)
  <2> DEFINE kept == {s \in seen : s > last - WindowSize}
             above == (last - WindowSize + 1) .. last
  <2>1. TrimSeen(seen, last) = kept
    BY <1>1, <1>2, <1>4 DEF TrimSeen
  <2>2. IsFiniteSet(above) /\ Cardinality(above) = WindowSize
    <3>1. last - WindowSize + 1 \in Int /\ last \in Int
      BY <1>1
    <3>2. Cardinality(above) = IF last - WindowSize + 1 > last THEN 0
                               ELSE last - (last - WindowSize + 1) + 1
      BY <3>1, FS_Interval
    <3>3. WindowSize >= 1
      BY WindowAssumption
    <3> QED BY <1>1, <3>1, <3>2, <3>3, FS_Interval
  <2>3. kept \in SUBSET above
    <3>1. SUFFICES ASSUME NEW s \in kept PROVE s \in above
      OBVIOUS
    <3>2. s \in seen /\ s \in Int /\ s > last - WindowSize
      BY <3>1 DEF Seqs
    <3> QED BY <1>1, <3>2
  <2>4. Cardinality(kept) <= WindowSize
    BY <2>2, <2>3, FS_Subset
  <2>5. IsFiniteSet(kept) /\ Cardinality(kept) \in Nat
    BY <2>2, <2>3, FS_Subset, FS_CardinalityType
  <2> QED BY <1>1, <1>2, <2>1, <2>4, <2>5
<1> QED BY <1>3, <1>4

\* The engine never holds more tags than twice the window.
LEMMA TrimSignaturesBounded ==
    ASSUME NEW tags \in SUBSET Seqs
    PROVE  /\ TrimSignatures(tags) \subseteq tags
           /\ Cardinality(TrimSignatures(tags)) <= WindowSize * 2
<1>1. MaxSeq \in Nat /\ WindowSize \in Nat
  BY SenderAssumption, WindowAssumption
<1>2. IsFiniteSet(tags) /\ Cardinality(tags) \in Nat
  BY SeqsFinite
<1> QED BY <1>1, <1>2, FS_EmptySet DEF TrimSignatures

-----------------------------------------------------------------------------
(* Type correctness.                                                       *)

\* An engine stays an engine.
LEMMA VerifyPacketType ==
    ASSUME NEW e \in Engines, NEW f \in Frames, NEW t \in Time
    PROVE  VerifyPacket(e, f, t) \in Engines
<1>1. MissingCount(e, f) \in Nat
  BY MissingType
<1>2. Arrived(e.packet_rate_history, t) \in [Time -> Nat]
  BY ArrivedType DEF Engines
<1>3. Observe(e, f, t) \in Engines
  <2>1. (e.session_closed \/ f.msg_type = TYPE_CLOSE) \in BOOLEAN
    BY DEF Engines
  <2>2. e.sequence_gaps_detected + MissingCount(e, f) \in Nat
    BY <1>1 DEF Engines
  <2> QED BY <1>2, <2>1, <2>2 DEF Observe, Engines
<1>4. ASSUME NEW o \in Engines PROVE Commit(o, f) \in Engines
  <2>1. Highest(o.last_seq_num, f.seq_num) \in Nat
    BY DEF Highest, Engines, Frames, Seqs
  <2>2. o.seen_seq_nums \cup {f.seq_num} \subseteq Seqs
    BY DEF Engines, Frames
  <2>3. o.seen_signatures \cup ({f.auth_tag} \ {ZeroTag}) \subseteq Seqs
    BY DEF Engines, Frames
  <2>4. TrimSeen(o.seen_seq_nums \cup {f.seq_num},
                 Highest(o.last_seq_num, f.seq_num)) \subseteq Seqs
    BY <2>2 DEF TrimSeen
  <2>5. TrimSignatures(o.seen_signatures \cup ({f.auth_tag} \ {ZeroTag})) \subseteq Seqs
    BY <2>3 DEF TrimSignatures
  <2> QED BY <2>1, <2>4, <2>5 DEF Commit, Engines
<1> QED BY <1>3, <1>4 DEF VerifyPacket

\* Type correctness: whatever the medium delivers, and whenever, every part
\* of the receiver's memory keeps its type.
THEOREM TypeCorrect == Spec => []TypeOK
<1>1. Init => TypeOK
  <2>1. 0 \in Time
    BY TimeAssumption DEF Time
  <2>2. NewEngine \in Engines
    BY DEF NewEngine, Engines
  <2> QED BY <2>1, <2>2, SenderAssumption DEF Init, TypeOK
<1>2. TypeOK /\ [Next]_vars => TypeOK'
  <2> SUFFICES ASSUME TypeOK, [Next]_vars PROVE TypeOK'
    OBVIOUS
  <2> USE DEF TypeOK
  <2>1. CASE Tick
    BY <2>1, TimeAssumption DEF Tick, Time
  <2>2. ASSUME NEW type \in {TYPE_DATA, TYPE_CLOSE}, Send(type) PROVE TypeOK'
    <3>1. seq_counter' \in Seqs
      BY <2>2, SenderAssumption DEF Send, Seqs
    <3>2. PICK skew \in -MaxSkew .. MaxSkew :
            sent' = sent \cup { [ seq_num   |-> seq_counter',
                                  timestamp |-> now + skew,
                                  auth_tag  |-> seq_counter',
                                  msg_type  |-> type ] }
      BY <2>2 DEF Send
    <3>3. now + skew \in Int
      BY SenderAssumption, TimeAssumption DEF Time
    <3>4. sent' \subseteq Frames
      BY <2>2, <3>1, <3>2, <3>3 DEF Frames
    <3> QED BY <2>2, <3>1, <3>4 DEF Send, Seqs
  <2>3. ASSUME NEW f \in sent, Deliver(f) PROVE TypeOK'
    <3>1. f \in Frames
      OBVIOUS
    <3>2. engine' \in Engines
      BY <2>3, <3>1, VerifyPacketType DEF Deliver
    <3>3. f.seq_num \in Seqs /\ f.seq_num \in Nat
      BY <3>1 DEF Frames, Seqs
    <3>4. passes' \in [Seqs -> Nat] /\ pass_times' \in [Time -> Nat] /\ first_seq' \in Nat
      BY <2>3, <3>3 DEF Deliver
    <3> QED BY <2>3, <3>2, <3>4 DEF Deliver
  <2>4. CASE UNCHANGED vars
    BY <2>4 DEF vars
  <2> QED BY <2>1, <2>2, <2>3, <2>4 DEF Next
<1> QED BY <1>1, <1>2, PTL DEF Spec

-----------------------------------------------------------------------------
(* The inductive invariant.                                                *)

\* The shape of a step that lets frame f through: the front does not move
\* back, f was not remembered and not behind the window.
LEMMA PassStep ==
    ASSUME TypeOK, NEW f \in sent, Deliver(f), Passed(engine, f, now)
    PROVE  /\ f.seq_num \in Seqs /\ f.auth_tag = f.seq_num
           /\ f.seq_num \notin engine.seen_seq_nums
           /\ f.seq_num >= engine.last_seq_num - WindowSize
           /\ engine'.last_seq_num = Highest(engine.last_seq_num, f.seq_num)
           /\ engine'.seen_seq_nums =
                  TrimSeen(engine.seen_seq_nums \cup {f.seq_num},
                           Highest(engine.last_seq_num, f.seq_num))
           /\ engine'.seen_signatures \subseteq engine.seen_signatures \cup {f.seq_num}
           /\ passes' = [passes EXCEPT ![f.seq_num] = @ + 1]
           /\ UNCHANGED <<seq_counter, sent>>
<1>1. f \in Frames /\ engine \in Engines /\ now \in Time
  BY DEF TypeOK
<1>2. f.seq_num \in Seqs /\ f.auth_tag = f.seq_num /\ f.seq_num \in Nat
  BY <1>1 DEF Frames, Seqs
<1>3. f.seq_num \notin engine.seen_seq_nums
  BY DEF Passed, Replayed
<1>4. engine.last_seq_num - WindowSize \in Int
  BY <1>1, WindowAssumption DEF Engines
<1>5. f.seq_num >= engine.last_seq_num - WindowSize
  BY <1>2, <1>3, <1>4 DEF Passed, OutOfWindow
<1>6. engine' = VerifyPacket(engine, f, now)
  BY DEF Deliver
<1>7. engine'.seen_signatures \subseteq engine.seen_signatures \cup {f.seq_num}
  <2>1. engine'.seen_signatures =
          TrimSignatures(engine.seen_signatures \cup ({f.auth_tag} \ {ZeroTag}))
    BY <1>1, <1>6, PassEffect
  <2> QED BY <1>2, <2>1 DEF TrimSignatures
<1>8. /\ engine'.last_seq_num = Highest(engine.last_seq_num, f.seq_num)
      /\ engine'.seen_seq_nums =
             TrimSeen(engine.seen_seq_nums \cup {f.seq_num},
                      Highest(engine.last_seq_num, f.seq_num))
  BY <1>1, <1>6, PassEffect
<1> QED BY <1>2, <1>3, <1>5, <1>7, <1>8 DEF Deliver

\* A step that lets a frame through keeps the inductive invariant.
LEMMA PassKeepsIInv ==
    ASSUME TypeOK, IInv, NEW f \in sent, Deliver(f), Passed(engine, f, now)
    PROVE  IInv'
<1> DEFINE p == f.seq_num
           W == WindowSize
           last == engine.last_seq_num
           seen == engine.seen_seq_nums
           top == Highest(last, p)
           added == seen \cup {p}
<1>1. /\ p \in Seqs /\ p \notin seen /\ p >= last - W
      /\ engine'.last_seq_num = top
      /\ engine'.seen_seq_nums = TrimSeen(added, top)
      /\ engine'.seen_signatures \subseteq engine.seen_signatures \cup {p}
      /\ passes' = [passes EXCEPT ![p] = @ + 1]
      /\ UNCHANGED <<seq_counter, sent>>
  BY PassStep
<1>2. /\ W \in Nat /\ W >= 1 /\ last \in Nat /\ p \in Nat /\ MaxSeq \in Nat
      /\ seen \subseteq Seqs /\ engine.seen_signatures \subseteq Seqs
      /\ added \subseteq Seqs /\ Seqs \subseteq Nat
      /\ passes \in [Seqs -> Nat] /\ seq_counter \in Nat
  <2>1. W \in Nat /\ W >= 1 /\ MaxSeq \in Nat /\ Seqs \subseteq Nat
    BY WindowAssumption, SenderAssumption DEF Seqs
  <2>2. /\ last \in Nat /\ seen \subseteq Seqs /\ engine.seen_signatures \subseteq Seqs
        /\ passes \in [Seqs -> Nat]
    BY DEF TypeOK, Engines
  <2>3. seq_counter \in Nat
    BY <2>1 DEF TypeOK
  <2> QED BY <1>1, <2>1, <2>2, <2>3
<1>3. top \in Nat /\ top >= last /\ top >= p /\ (top = last \/ top = p)
  BY <1>2 DEF Highest
<1>4. /\ passes'[p] = passes[p] + 1
      /\ \A s \in Seqs : s # p => passes'[s] = passes[s]
      /\ \A s \in Seqs : passes[s] \in Nat
  BY <1>1, <1>2
<1>5. \A s \in Seqs : s \in seen => passes[s] >= 1 /\ s <= last
  BY <1>2 DEF IInv, OnlyPassedRemembered, PassedAreAccounted
<1>6. /\ TrimSeen(added, top) \subseteq added
      /\ \/ TrimSeen(added, top) = added
         \/ TrimSeen(added, top) = {s \in added : s > top - W}
  BY DEF TrimSeen
<1> HIDE DEF p, W, last, seen, top, added
<1>7. FrontWasSent'
  <2>1. p <= seq_counter /\ last <= seq_counter
    BY DEF IInv, FrontWasSent, p, last
  <2> QED BY <1>1, <1>2, <1>3, <2>1 DEF IInv, FrontWasSent
<1>8. OnlyPassedRemembered'
  <2> SUFFICES ASSUME NEW s \in engine'.seen_seq_nums \cup engine'.seen_signatures
               PROVE  passes'[s] >= 1
    BY DEF OnlyPassedRemembered
  <2>1. s = p \/ s \in seen \cup engine.seen_signatures
    BY <1>1, <1>6 DEF added
  <2>2. s \in Seqs
    BY <1>1, <1>2, <2>1
  <2>3. s # p => passes[s] >= 1
    BY <2>1 DEF IInv, OnlyPassedRemembered, seen
  <2> QED BY <1>2, <1>4, <2>2, <2>3, <1>1
<1>9. Recalls(Seqs, seen, last, passes)
  BY DEF IInv, PassedAreAccounted, EdgeForgotten, RepeatSettled, AtMostTwice, Recalls,
         last, seen
<1>10. Recalls(Seqs, TrimSeen(added, top), top, passes')
  <2>1. /\ Seqs \in SUBSET Nat /\ seen \in SUBSET Nat /\ last \in Nat /\ p \in Nat
        /\ passes \in [Seqs -> Nat] /\ passes' \in [Seqs -> Nat]
        /\ p \notin seen /\ p >= last - WindowSize
        /\ \A s \in seen : s <= last
    BY <1>1, <1>2, <1>5 DEF W
  <2>2. \A s \in Seqs : IF s = p THEN passes'[s] \in {passes[s], passes[s] + 1}
                                 ELSE passes'[s] = passes[s]
    BY <1>1, <1>4
  <2> QED BY <1>9, <2>1, <2>2, CommitRecalls DEF top, added
<1>11. PassedAreAccounted' /\ EdgeForgotten' /\ RepeatSettled' /\ AtMostTwice'
  BY <1>1, <1>10 DEF PassedAreAccounted, EdgeForgotten, RepeatSettled, AtMostTwice, Recalls
<1> QED BY <1>7, <1>8, <1>11 DEF IInv

\* A rejected arrival changes nothing the invariant speaks of.
LEMMA RejectStep ==
    ASSUME TypeOK, NEW f \in sent, Deliver(f), ~ Passed(engine, f, now)
    PROVE  /\ engine'.last_seq_num = engine.last_seq_num
           /\ engine'.seen_seq_nums = engine.seen_seq_nums
           /\ engine'.seen_signatures = engine.seen_signatures
           /\ engine'.sequence_gaps_detected >= engine.sequence_gaps_detected
           /\ UNCHANGED <<seq_counter, sent, passes, pass_times, first_seq>>
<1>1. f \in Frames /\ engine \in Engines /\ now \in Time
  BY DEF TypeOK
<1>2. engine' = VerifyPacket(engine, f, now)
  BY DEF Deliver
<1>3. MissingCount(engine, f) \in Nat /\ engine.sequence_gaps_detected \in Nat
  BY <1>1, MissingType DEF Engines
<1>4. engine'.sequence_gaps_detected =
          engine.sequence_gaps_detected + MissingCount(engine, f)
  BY <1>1, <1>2, RejectEffect
<1>5. /\ engine'.last_seq_num = engine.last_seq_num
      /\ engine'.seen_seq_nums = engine.seen_seq_nums
      /\ engine'.seen_signatures = engine.seen_signatures
  BY <1>1, <1>2, RejectEffect
<1> QED BY <1>3, <1>4, <1>5 DEF Deliver

\* What the engine remembers, and what it has forgotten, of the frames it
\* let through: the invariant behind every theorem below.
THEOREM WindowMemory == Spec => []IInv
<1> USE DEF IInv, FrontWasSent, OnlyPassedRemembered, PassedAreAccounted,
            EdgeForgotten, RepeatSettled, AtMostTwice
<1>1. Init => IInv
  BY SenderAssumption DEF Init, NewEngine
<1>2. TypeOK /\ IInv /\ [Next]_vars => IInv'
  <2> SUFFICES ASSUME TypeOK, IInv, [Next]_vars PROVE IInv'
    OBVIOUS
  <2>1. CASE Tick
    BY <2>1 DEF Tick
  <2>2. ASSUME NEW type \in {TYPE_DATA, TYPE_CLOSE}, Send(type) PROVE IInv'
    <3>1. /\ UNCHANGED <<engine, passes>>
          /\ seq_counter' = seq_counter + 1 /\ seq_counter \in Int
      BY <2>2, SenderAssumption DEF Send, TypeOK
    <3>2. \A f \in sent' : f \in sent \/ f.seq_num = seq_counter'
      BY <2>2 DEF Send
    <3>3. engine.last_seq_num \in Nat /\ \A f \in sent : f.seq_num \in Int
      BY DEF TypeOK, Engines, Frames, Seqs
    <3>4. FrontWasSent'
      BY <3>1, <3>2, <3>3
    <3> QED BY <3>1, <3>4
  <2>3. ASSUME NEW f \in sent, Deliver(f) PROVE IInv'
    <3>1. CASE Passed(engine, f, now)
      BY <2>3, <3>1, PassKeepsIInv
    <3>2. CASE ~ Passed(engine, f, now)
      <4>1. /\ engine'.last_seq_num = engine.last_seq_num
            /\ engine'.seen_seq_nums = engine.seen_seq_nums
            /\ engine'.seen_signatures = engine.seen_signatures
            /\ UNCHANGED <<seq_counter, sent, passes>>
        BY <2>3, <3>2, RejectStep
      <4> QED BY <4>1
    <3> QED BY <3>1, <3>2
  <2>4. CASE UNCHANGED vars
    BY <2>4 DEF vars
  <2> QED BY <2>1, <2>2, <2>3, <2>4 DEF Next
<1> QED BY <1>1, <1>2, TypeCorrect, PTL DEF Spec

\* No frame is let through a third time, however the medium repeats it.
THEOREM AtMostTwiceHolds == Spec => []AtMostTwice
<1>1. IInv => AtMostTwice
  BY DEF IInv
<1> QED BY <1>1, WindowMemory, PTL

\* Neither memory of the engine outgrows twice the window.
THEOREM MemoryIsBounded == Spec => []MemoryBounded
<1>1. Init => MemoryBounded
  BY FS_EmptySet, WindowAssumption DEF Init, NewEngine, MemoryBounded
<1>2. TypeOK /\ IInv /\ MemoryBounded /\ [Next]_vars => MemoryBounded'
  <2> SUFFICES ASSUME TypeOK, IInv, MemoryBounded, [Next]_vars PROVE MemoryBounded'
    OBVIOUS
  <2>1. CASE Tick \/ UNCHANGED vars \/ \E type \in {TYPE_DATA, TYPE_CLOSE} : Send(type)
    BY <2>1 DEF Tick, Send, vars, MemoryBounded
  <2>2. ASSUME NEW f \in sent, Deliver(f) PROVE MemoryBounded'
    <3>1. f \in Frames /\ engine \in Engines /\ now \in Time
      BY DEF TypeOK
    <3>2. CASE ~ Passed(engine, f, now)
      BY <2>2, <3>2, RejectStep DEF MemoryBounded
    <3>3. CASE Passed(engine, f, now)
      <4> DEFINE top == Highest(engine.last_seq_num, f.seq_num)
                 added == engine.seen_seq_nums \cup {f.seq_num}
                 tags == engine.seen_signatures \cup ({f.auth_tag} \ {ZeroTag})
      <4>1. /\ engine'.seen_seq_nums = TrimSeen(added, top)
            /\ engine'.seen_signatures = TrimSignatures(tags)
        BY <2>2, <3>1, <3>3, PassEffect DEF Deliver
      <4>2. added \in SUBSET Seqs /\ tags \in SUBSET Seqs /\ top \in Nat
        BY <3>1 DEF Engines, Frames, Highest, Seqs
      <4>3. \A s \in added : s <= top
        <5>1. \A s \in engine.seen_seq_nums : s \in Nat /\ s <= engine.last_seq_num
          BY <3>1 DEF IInv, OnlyPassedRemembered, PassedAreAccounted, Engines, Seqs
        <5>2. f.seq_num \in Nat /\ engine.last_seq_num \in Nat
          BY <3>1 DEF Frames, Engines, Seqs
        <5> QED BY <5>1, <5>2 DEF Highest
      <4>4. Cardinality(TrimSeen(added, top)) <= WindowSize * 2
        BY <4>2, <4>3, TrimSeenBounded
      <4>5. Cardinality(TrimSignatures(tags)) <= WindowSize * 2
        BY <4>2, TrimSignaturesBounded
      <4> QED BY <4>1, <4>4, <4>5 DEF MemoryBounded
    <3> QED BY <3>2, <3>3
  <2> QED BY <2>1, <2>2 DEF Next
<1> QED BY <1>1, <1>2, TypeCorrect, WindowMemory, PTL DEF Spec

-----------------------------------------------------------------------------
(* Action properties and the abstract promise.                             *)

\* The number of a frame that passes for the second time is exactly at the
\* window's edge, and that is where a frame handed up may be handed up again.
LEMMA PassIsPromised ==
    ASSUME TypeOK, IInv, NEW f \in sent, Deliver(f), Passed(engine, f, now)
    PROVE  /\ f.seq_num <= seq_counter
           /\ f.seq_num >= engine.last_seq_num - WindowSize
           /\ passes[f.seq_num] >= 1 => f.seq_num = engine.last_seq_num - WindowSize
           /\ passes[f.seq_num] <= 1
           /\ passes[f.seq_num] \in Nat
<1> DEFINE p == f.seq_num
<1>1. p \in Seqs /\ p \notin engine.seen_seq_nums /\ p >= engine.last_seq_num - WindowSize
  BY PassStep
<1>2. p \in Nat /\ engine.last_seq_num \in Nat /\ WindowSize \in Nat /\ passes[p] \in Nat
  BY <1>1, WindowAssumption DEF TypeOK, Engines, Seqs
<1>3. p <= seq_counter
  BY DEF IInv, FrontWasSent
<1>4. passes[p] >= 1 => p <= engine.last_seq_num - WindowSize
  BY <1>1 DEF IInv, PassedAreAccounted
<1>5. ~ (passes[p] >= 2)
  <2>1. passes[p] >= 2 => p < engine.last_seq_num - WindowSize
    BY <1>1 DEF IInv, RepeatSettled
  <2> QED BY <1>1, <1>2, <2>1
<1> QED BY <1>1, <1>2, <1>3, <1>4, <1>5

\* A second copy gets through only exactly WindowSize behind the front.
THEOREM RepeatsOnlyAtEdge == Spec => RepeatOnlyAtWindowEdge
<1> DEFINE Edge == \A s \in Seqs : passes[s] >= 1 /\ passes'[s] # passes[s]
                                    => s = engine.last_seq_num - WindowSize
<1>1. TypeOK /\ IInv /\ [Next]_vars => [Edge]_vars
  <2> SUFFICES ASSUME TypeOK, IInv, Next PROVE Edge
    OBVIOUS
  <2>1. CASE Tick \/ \E type \in {TYPE_DATA, TYPE_CLOSE} : Send(type)
    BY <2>1 DEF Tick, Send
  <2>2. ASSUME NEW f \in sent, Deliver(f) PROVE Edge
    <3>1. CASE Passed(engine, f, now)
      <4>1. passes' = [passes EXCEPT ![f.seq_num] = @ + 1]
        BY <2>2, <3>1, PassStep
      <4>2. \A s \in Seqs : s # f.seq_num => passes'[s] = passes[s]
        BY <4>1 DEF TypeOK
      <4> QED BY <2>2, <3>1, <4>2, PassIsPromised
    <3>2. CASE ~ Passed(engine, f, now)
      BY <2>2, <3>2 DEF Deliver
    <3> QED BY <3>1, <3>2
  <2> QED BY <2>1, <2>2 DEF Next
<1> QED BY <1>1, TypeCorrect, WindowMemory, PTL DEF Spec, RepeatOnlyAtWindowEdge

\* A frame that never got through is never turned away because of what the
\* engine remembers of other frames.
THEOREM NoFalseAlarms == Spec => NoFalseAlarm
<1> DEFINE Justified ==
      \A f \in sent :
          Deliver(f) /\ passes[f.seq_num] = 0 /\ passes' = passes
              => \/ engine.session_closed
                 \/ Drifted(f, now)
                 \/ f.seq_num < engine.last_seq_num - WindowSize
                 \/ Flooded(engine, now)
<1>1. TypeOK /\ IInv /\ [Next]_vars => [Justified]_vars
  <2> SUFFICES ASSUME TypeOK, IInv, NEW f \in sent,
                      Deliver(f), passes[f.seq_num] = 0, passes' = passes
               PROVE  \/ engine.session_closed
                      \/ Drifted(f, now)
                      \/ f.seq_num < engine.last_seq_num - WindowSize
                      \/ Flooded(engine, now)
    OBVIOUS
  <2>1. f.seq_num \in Seqs /\ f.auth_tag = f.seq_num
    BY DEF TypeOK, Frames
  <2>2. ~ Passed(engine, f, now)
    <3> SUFFICES ASSUME Passed(engine, f, now) PROVE FALSE
      OBVIOUS
    <3>1. passes'[f.seq_num] = passes[f.seq_num] + 1
      BY <2>1, PassStep DEF TypeOK
    <3> QED BY <3>1
  <2>3. f.seq_num \notin engine.seen_seq_nums \cup engine.seen_signatures
    BY DEF IInv, OnlyPassedRemembered
  <2>4. ~ Replayed(engine, f) /\ ~ DuplicateTag(engine, f)
    BY <2>1, <2>3 DEF Replayed, DuplicateTag
  <2> QED BY <2>2, <2>4 DEF Passed, OutOfWindow
<1> QED BY <1>1, TypeCorrect, WindowMemory, PTL DEF Spec, NoFalseAlarm

\* The engine behind the medium implements the abstract promise: every step
\* issues a frame, hands one up within its allowance, or changes nothing
\* the promise speaks of.
THEOREM ImplementsBoundedDelivery == Spec => BoundedDeliverySpec
<1>1. Init => Promise!Init
  BY DEF Init, NewEngine, Promise!Init, Promise!Seqs, Seqs
<1>2. TypeOK /\ IInv /\ [Next]_vars => [Promise!Next]_(Promise!vars)
  <2> SUFFICES ASSUME TypeOK, IInv, [Next]_vars
               PROVE  Promise!Next \/ UNCHANGED Promise!vars
    OBVIOUS
  <2>1. CASE Tick \/ UNCHANGED vars
    BY <2>1 DEF Tick, vars, Promise!vars
  <2>2. ASSUME NEW type \in {TYPE_DATA, TYPE_CLOSE}, Send(type) PROVE Promise!Issue
    BY <2>2 DEF Send, Promise!Issue
  <2>3. ASSUME NEW f \in sent, Deliver(f)
        PROVE  Promise!Next \/ UNCHANGED Promise!vars
    <3>1. CASE Passed(engine, f, now)
      <4>1. /\ f.seq_num \in Promise!Seqs
            /\ engine'.last_seq_num = Highest(engine.last_seq_num, f.seq_num)
            /\ passes' = [passes EXCEPT ![f.seq_num] = @ + 1]
            /\ seq_counter' = seq_counter
        BY <2>3, <3>1, PassStep DEF Seqs, Promise!Seqs
      <4>2. passes[f.seq_num] < Promise!CopiesAllowed(f.seq_num)
        BY <2>3, <3>1, PassIsPromised DEF Promise!CopiesAllowed
      <4>3. Promise!HandUp(f.seq_num)
        BY <2>3, <3>1, <4>1, <4>2, PassIsPromised DEF Promise!HandUp, Highest
      <4> QED BY <4>1, <4>3 DEF Promise!Next
    <3>2. CASE ~ Passed(engine, f, now)
      BY <2>3, <3>2, RejectStep DEF Promise!vars
    <3> QED BY <3>1, <3>2
  <2> QED BY <2>1, <2>2, <2>3 DEF Next, Promise!Next
<1> QED BY <1>1, <1>2, TypeCorrect, WindowMemory, PTL DEF Spec, BoundedDeliverySpec, Promise!Spec

-----------------------------------------------------------------------------
(* Gaps.                                                                   *)

\* Letting a frame through adds no more skipped numbers than the gap that
\* is counted for it.
LEMMA PassSkips ==
    ASSUME TypeOK, IInv, FirstIsFront, NEW f \in sent, Deliver(f), Passed(engine, f, now)
    PROVE  /\ FirstIsFront'
           /\ Cardinality(Skipped') <= Cardinality(Skipped) + MissingCount(engine, f)
<1> DEFINE p == f.seq_num
           last == engine.last_seq_num
           between == (last + 1) .. (p - 1)
<1>1. /\ p \in Seqs /\ p \in Nat /\ p >= 1 /\ last \in Nat /\ first_seq \in Nat
      /\ passes \in [Seqs -> Nat] /\ Seqs \subseteq Nat
  <2>1. p \in Seqs
    BY PassStep
  <2>2. last \in Nat /\ first_seq \in Nat /\ passes \in [Seqs -> Nat]
    BY DEF TypeOK, Engines
  <2>3. \A s \in Seqs : s \in Nat /\ s >= 1
    BY SenderAssumption DEF Seqs
  <2> QED BY <2>1, <2>2, <2>3
<1>2. /\ passes' = [passes EXCEPT ![p] = @ + 1]
      /\ engine'.last_seq_num = Highest(last, p)
      /\ first_seq' = IF first_seq = 0 THEN p ELSE first_seq
  BY PassStep DEF Deliver
<1>3. /\ Skipped \subseteq Seqs /\ Skipped' \subseteq Seqs
      /\ IsFiniteSet(Skipped) /\ Cardinality(Skipped) \in Nat
      /\ IsFiniteSet(Skipped') /\ Cardinality(Skipped') \in Nat
  <2>1. Skipped \subseteq Seqs /\ Skipped' \subseteq Seqs
    BY DEF Skipped
  <2> QED BY <2>1, SeqsFinite
<1>4. FirstIsFront'
  BY <1>1, <1>2 DEF FirstIsFront, Highest
<1>5. MissingCount(engine, f) \in Nat
  BY MissingType DEF TypeOK
<1>6. CASE last = 0
  <2>1. first_seq' = p /\ engine'.last_seq_num = p
    BY <1>1, <1>2, <1>6 DEF FirstIsFront, Highest
  <2>2. passes'[p] # 0
    BY <1>1, <1>2
  <2>3. Skipped' = {}
    <3> SUFFICES ASSUME NEW s \in Skipped' PROVE FALSE
      OBVIOUS
    <3>1. s \in Nat /\ p <= s /\ s <= p /\ passes'[s] = 0
      BY <1>1, <2>1 DEF Skipped
    <3>2. s = p
      BY <1>1, <3>1
    <3> QED BY <2>2, <3>1, <3>2
  <2> QED BY <1>3, <1>4, <1>5, <2>3, FS_EmptySet
<1>7. CASE last > 0 /\ p <= last
  <2>1. first_seq' = first_seq /\ engine'.last_seq_num = last
    BY <1>1, <1>2, <1>7 DEF FirstIsFront, Highest
  <2>2. \A s \in Seqs : passes'[s] = 0 => passes[s] = 0
    BY <1>1, <1>2
  <2>3. Skipped' \in SUBSET Skipped
    BY <2>1, <2>2 DEF Skipped
  <2>4. Cardinality(Skipped') <= Cardinality(Skipped)
    BY <1>3, <2>3, FS_Subset
  <2> QED BY <1>3, <1>4, <1>5, <2>4
<1>8. CASE last > 0 /\ p > last
  <2>1. first_seq' = first_seq /\ engine'.last_seq_num = p
    BY <1>1, <1>2, <1>8 DEF FirstIsFront, Highest
  <2>2. passes'[p] # 0 /\ \A s \in Seqs : passes'[s] = 0 => passes[s] = 0
    BY <1>1, <1>2
  <2>3. Skipped' \in SUBSET (Skipped \cup between)
    <3> SUFFICES ASSUME NEW s \in Skipped' PROVE s \in Skipped \cup between
      OBVIOUS
    <3>1. s \in Seqs /\ s \in Nat /\ first_seq <= s /\ s <= p /\ passes[s] = 0 /\ s # p
      BY <1>1, <2>1, <2>2 DEF Skipped
    <3> QED BY <1>1, <3>1 DEF Skipped
  <2>4. IsFiniteSet(between) /\ Cardinality(between) = p - last - 1
    <3>1. last + 1 \in Int /\ p - 1 \in Int
      BY <1>1
    <3>2. /\ IsFiniteSet(between)
          /\ Cardinality(between) = IF last + 1 > p - 1 THEN 0 ELSE (p - 1) - (last + 1) + 1
      BY <3>1, FS_Interval
    <3> HIDE DEF between
    <3>3. (last + 1 > p - 1) => p - last - 1 = 0
      BY <1>1, <1>8
    <3>4. (p - 1) - (last + 1) + 1 = p - last - 1
      BY <1>1
    <3> QED BY <3>2, <3>3, <3>4
  <2>5. /\ IsFiniteSet(Skipped \cup between)
        /\ Cardinality(Skipped \cup between) <= Cardinality(Skipped) + Cardinality(between)
    <3>1. Cardinality(Skipped \cup between) =
            Cardinality(Skipped) + Cardinality(between) - Cardinality(Skipped \cap between)
      BY <1>3, <2>4, FS_Union
    <3>2. IsFiniteSet(Skipped \cap between)
      BY <1>3, FS_Intersection
    <3>3. Cardinality(Skipped \cap between) \in Nat
      BY <3>2, FS_CardinalityType
    <3>4. IsFiniteSet(Skipped \cup between)
      BY <1>3, <2>4, FS_Union
    <3>5. Cardinality(between) \in Int
      BY <1>1, <2>4
    <3> QED BY <1>3, <3>1, <3>3, <3>4, <3>5
  <2>6. Cardinality(Skipped') <= Cardinality(Skipped \cup between)
    BY <2>3, <2>5, FS_Subset
  <2>7. MissingCount(engine, f) = p - last - 1
    BY <1>1, <1>8 DEF MissingCount
  <2>8. Cardinality(Skipped \cup between) \in Nat
    BY <2>5, FS_CardinalityType
  <2> QED BY <1>1, <1>3, <1>4, <2>4, <2>5, <2>6, <2>7, <2>8
<1> QED BY <1>1, <1>6, <1>7, <1>8

\* Every number that was skipped between the first frame let through and
\* the highest one has been counted as a gap.
THEOREM GapsAreAccountedFor == Spec => []GapsAccountedFor
<1> DEFINE GInv == FirstIsFront /\ GapsAccountedFor
<1>1. Init => GInv
  <2> SUFFICES ASSUME Init PROVE GInv
    OBVIOUS
  <2>1. Skipped = {}
    BY DEF Init, NewEngine, Skipped, Seqs
  <2> QED BY <2>1, FS_EmptySet DEF Init, NewEngine, FirstIsFront, GapsAccountedFor
<1>2. TypeOK /\ IInv /\ GInv /\ [Next]_vars => GInv'
  <2> SUFFICES ASSUME TypeOK, IInv, GInv, [Next]_vars PROVE GInv'
    OBVIOUS
  <2>1. CASE Tick \/ UNCHANGED vars \/ \E type \in {TYPE_DATA, TYPE_CLOSE} : Send(type)
    BY <2>1 DEF Tick, Send, vars, FirstIsFront, GapsAccountedFor, Skipped
  <2>2. ASSUME NEW f \in sent, Deliver(f) PROVE GInv'
    <3>1. f \in Frames /\ engine \in Engines /\ now \in Time
      BY DEF TypeOK
    <3>2. /\ MissingCount(engine, f) \in Nat /\ engine.sequence_gaps_detected \in Nat
          /\ Skipped \in SUBSET Seqs /\ Skipped' \in SUBSET Seqs
      BY <3>1, MissingType DEF Engines, Skipped
    <3>3. Cardinality(Skipped) \in Nat /\ Cardinality(Skipped') \in Nat
      BY <3>2, SeqsFinite
    <3>4. CASE Passed(engine, f, now)
      <4>1. engine'.sequence_gaps_detected =
              engine.sequence_gaps_detected + MissingCount(engine, f)
        BY <2>2, <3>1, <3>4, PassEffect DEF Deliver
      <4>2. /\ FirstIsFront'
            /\ Cardinality(Skipped') <= Cardinality(Skipped) + MissingCount(engine, f)
        BY <2>2, <3>4, PassSkips
      <4> QED BY <3>2, <3>3, <4>1, <4>2 DEF GapsAccountedFor
    <3>5. CASE ~ Passed(engine, f, now)
      <4>1. /\ engine'.last_seq_num = engine.last_seq_num
            /\ engine'.sequence_gaps_detected >= engine.sequence_gaps_detected
            /\ UNCHANGED <<passes, first_seq>>
        BY <2>2, <3>5, RejectStep
      <4>2. engine'.sequence_gaps_detected \in Nat
        BY <2>2, <3>1, VerifyPacketType DEF Deliver, Engines
      <4>3. Skipped' = Skipped /\ FirstIsFront'
        BY <4>1 DEF Skipped, FirstIsFront
      <4> QED BY <3>2, <3>3, <4>1, <4>2, <4>3 DEF GapsAccountedFor
    <3> QED BY <3>4, <3>5
  <2> QED BY <2>1, <2>2 DEF Next
<1> QED BY <1>1, <1>2, TypeCorrect, WindowMemory, PTL DEF Spec

-----------------------------------------------------------------------------
(* The rate cap.  The engine's history counts every arrival of the last    *)
(* second, so what it let through at an instant is at most what it counted *)
(* there; a frame only passes while the history's sum is within the cap.   *)

\* No interval of a second holds more passages than the history's sum.
LEMMA WindowSum ==
    ASSUME NEW p \in [Time -> Nat], NEW h \in [Time -> Nat], NEW W \in SUBSET Time,
           \A u \in W : p[u] <= h[u]
    PROVE  SumFunctionOnSet(p, W) <= SumFunction(h)
<1>1. \A u \in W : p[u] \in Nat /\ p[u] <= h[u]
  OBVIOUS
<1>2. \A u \in Time : h[u] \in Nat
  OBVIOUS
<1>3. SumFunctionOnSet(p, W) <= SumFunctionOnSet(h, Time)
  BY <1>1, <1>2, TimeFinite, SumGrows
<1> QED BY <1>3, SumOverTime

\* Where nothing is added to an interval, its sum stays.
LEMMA WindowSame ==
    ASSUME NEW p \in [Time -> Nat], NEW q \in [Time -> Nat], NEW W \in SUBSET Time,
           \A u \in W : q[u] = p[u]
    PROVE  SumFunctionOnSet(q, W) <= SumFunctionOnSet(p, W)
<1>1. IsFiniteSet(W) /\ W \in SUBSET W
  BY TimeFinite, FS_Subset
<1>2. \A u \in W : q[u] \in Nat /\ p[u] \in Nat /\ q[u] <= p[u]
  OBVIOUS
<1> QED BY <1>1, <1>2, SumGrows

LEMMA WindowNatural ==
    ASSUME NEW p \in [Time -> Nat], NEW W \in SUBSET Time
    PROVE  SumFunctionOnSet(p, W) \in Nat
BY TimeFinite, FS_Subset, SumNatural

\* An arrival keeps the budget ahead of the passages.
LEMMA DeliverKeepsBudget ==
    ASSUME TypeOK, PassagesOnBudget, NEW f \in sent, Deliver(f)
    PROVE  PassagesOnBudget'
<1> DEFINE h == engine.packet_rate_history
<1>1. f \in Frames /\ engine \in Engines /\ now \in Time /\ pass_times \in [Time -> Nat]
  BY DEF TypeOK
<1>2. h \in [Time -> Nat]
  BY <1>1 DEF Engines
<1>3. engine'.packet_rate_history = Arrived(h, now) /\ now' = now
  BY <1>1, PassEffect, RejectEffect DEF Deliver
<1>4. \A u \in Time : pass_times'[u] = pass_times[u] \/ (u = now /\ pass_times'[u] = pass_times[u] + 1)
  BY <1>1 DEF Deliver
<1>5. \A u \in Time : u <= now /\ now - u <= RateWindow =>
          Arrived(h, now)[u] = IF u = now THEN h[u] + 1 ELSE h[u]
  <2> HIDE DEF h
  <2> QED BY <1>1, RateAssumption DEF Arrived, Time
<1>6. \A u \in Time : pass_times[u] \in Nat /\ h[u] \in Nat
  <2> HIDE DEF h
  <2> QED BY <1>1, <1>2
<1> SUFFICES ASSUME NEW u \in Time
             PROVE  /\ u > now => pass_times'[u] = 0
                    /\ u <= now /\ now - u <= RateWindow
                          => pass_times'[u] <= Arrived(h, now)[u]
  BY <1>3 DEF PassagesOnBudget
<1>7. /\ u > now => pass_times[u] = 0
      /\ u <= now /\ now - u <= RateWindow => pass_times[u] <= h[u]
  BY DEF PassagesOnBudget
<1> HIDE DEF h
<1> QED BY <1>1, <1>4, <1>5, <1>6, <1>7 DEF Time

\* What passes does so within the cap of every interval it belongs to.
LEMMA DeliverKeepsRate ==
    ASSUME TypeOK, PassagesOnBudget, AcceptRateBounded, NEW f \in sent, Deliver(f)
    PROVE  AcceptRateBounded'
<1> DEFINE h == engine.packet_rate_history
<1>1. f \in Frames /\ engine \in Engines /\ now \in Time /\ pass_times \in [Time -> Nat]
  BY DEF TypeOK
<1>2. CASE ~ Passed(engine, f, now)
  BY <1>2 DEF Deliver, AcceptRateBounded
<1>3. CASE Passed(engine, f, now)
  <2>1. h \in [Time -> Nat]
    BY <1>1 DEF Engines
  <2>2. /\ Arrived(h, now) \in [Time -> Nat]
        /\ SumFunction(Arrived(h, now)) \in Nat
        /\ SumFunction(Arrived(h, now)) <= MaxPacketsPerSec
    <3>1. ~ Flooded(engine, now)
      BY <1>3 DEF Passed
    <3>2. Arrived(h, now) \in [Time -> Nat] /\ SumFunction(Arrived(h, now)) \in Nat
      BY <1>1, <2>1, ArrivedSum
    <3> QED BY <3>1, <3>2, RateAssumption DEF Flooded
  <2>3. /\ engine'.packet_rate_history = Arrived(h, now) /\ now' = now
        /\ pass_times' = [pass_times EXCEPT ![now] = @ + 1]
        /\ pass_times' \in [Time -> Nat]
    <3>1. pass_times' = [pass_times EXCEPT ![now] = @ + 1] /\ now' = now
      BY <1>3 DEF Deliver
    <3>2. engine' = VerifyPacket(engine, f, now)
      BY DEF Deliver
    <3>3. engine'.packet_rate_history = Arrived(h, now)
      BY <1>1, <1>3, <3>2, PassEffect
    <3> QED BY <1>1, <3>1, <3>3
  <2>4. PassagesOnBudget'
    BY DeliverKeepsBudget
  <2>5. ASSUME NEW t \in Time
        PROVE  SumFunctionOnSet(pass_times', Time \cap (t .. t + RateWindow)) <= MaxPacketsPerSec
    <3> DEFINE W == Time \cap (t .. t + RateWindow)
    <3>1. W \in SUBSET Time
      OBVIOUS
    <3>2. CASE now \in W
      <4>1. now - t <= RateWindow /\ t \in Int /\ now \in Int
        BY <1>1, <3>2, RateAssumption DEF Time
      <4>2. \A u \in W : u \in Time /\ u \in Int /\ u >= t
        BY DEF Time
      <4>3. \A u \in W : pass_times'[u] <= Arrived(h, now)[u]
        <5> SUFFICES ASSUME NEW u \in W PROVE pass_times'[u] <= Arrived(h, now)[u]
          OBVIOUS
        <5>1. u \in Time /\ u \in Int /\ now - u <= RateWindow
          BY <4>1, <4>2, RateAssumption
        <5>2. Arrived(h, now)[u] \in Nat
          BY <2>2, <5>1
        <5>3. /\ u > now => pass_times'[u] = 0
              /\ u <= now => pass_times'[u] <= Arrived(h, now)[u]
          BY <2>3, <2>4, <5>1 DEF PassagesOnBudget
        <5> HIDE DEF h, W
        <5> QED BY <4>1, <5>1, <5>2, <5>3
      <4>4. SumFunctionOnSet(pass_times', W) <= SumFunction(Arrived(h, now))
        <5> HIDE DEF h, W
        <5> QED BY <2>2, <2>3, <3>1, <4>3, WindowSum
      <4>5. SumFunctionOnSet(pass_times', W) \in Nat
        <5> HIDE DEF h, W
        <5> QED BY <2>3, <3>1, WindowNatural
      <4> HIDE DEF h, W
      <4>6. SumFunctionOnSet(pass_times', W) <= MaxPacketsPerSec
        BY <2>2, <4>4, <4>5, RateAssumption
      <4> QED BY <4>6 DEF W
    <3>3. CASE now \notin W
      <4>1. \A u \in W : pass_times'[u] = pass_times[u]
        BY <1>1, <2>3, <3>3
      <4>2. SumFunctionOnSet(pass_times, W) <= MaxPacketsPerSec
        BY DEF AcceptRateBounded
      <4>3. SumFunctionOnSet(pass_times', W) <= SumFunctionOnSet(pass_times, W)
        <5> HIDE DEF W
        <5> QED BY <1>1, <2>3, <3>1, <4>1, WindowSame
      <4>4. SumFunctionOnSet(pass_times', W) \in Nat /\ SumFunctionOnSet(pass_times, W) \in Nat
        <5> HIDE DEF W
        <5> QED BY <1>1, <2>3, <3>1, WindowNatural
      <4> HIDE DEF W
      <4>5. SumFunctionOnSet(pass_times', W) <= MaxPacketsPerSec
        BY <4>2, <4>3, <4>4, RateAssumption
      <4> QED BY <4>5 DEF W
    <3> QED BY <3>2, <3>3
  <2> QED BY <2>5 DEF AcceptRateBounded
<1> QED BY <1>2, <1>3

\* What was let through within the last second is on the budget: together
\* with the cap itself this is inductive.
THEOREM BudgetInvariant == Spec => [](PassagesOnBudget /\ AcceptRateBounded)
<1> DEFINE RInv == PassagesOnBudget /\ AcceptRateBounded
<1>1. Init => RInv
  <2> SUFFICES ASSUME Init PROVE RInv
    OBVIOUS
  <2>1. pass_times = [t \in Time |-> 0] /\ engine = NewEngine
    BY DEF Init
  <2>2. engine.packet_rate_history = [t \in Time |-> 0]
    BY <2>1 DEF NewEngine
  <2>3. PassagesOnBudget
    BY <2>1, <2>2 DEF PassagesOnBudget
  <2>4. ASSUME NEW t \in Time
        PROVE  SumFunctionOnSet(pass_times, Time \cap (t .. t + RateWindow)) = 0
    <3> DEFINE W == Time \cap (t .. t + RateWindow)
    <3>1. IsFiniteSet(W) /\ \A u \in W : pass_times[u] = 0
      BY <2>1, TimeFinite, FS_Subset
    <3> HIDE DEF W
    <3>2. SumFunctionOnSet(pass_times, W) = 0
      BY <3>1, SumOfZeros
    <3> QED BY <3>2 DEF W
  <2>5. AcceptRateBounded
    BY <2>4, RateAssumption DEF AcceptRateBounded
  <2> QED BY <2>3, <2>5
<1>2. TypeOK /\ RInv /\ [Next]_vars => RInv'
  <2> SUFFICES ASSUME TypeOK, RInv, [Next]_vars PROVE RInv'
    OBVIOUS
  <2>1. CASE UNCHANGED vars \/ \E type \in {TYPE_DATA, TYPE_CLOSE} : Send(type)
    BY <2>1 DEF Send, vars, PassagesOnBudget, AcceptRateBounded
  <2>2. CASE Tick
    <3>1. engine' = engine /\ pass_times' = pass_times /\ now' = now + 1
      BY <2>2 DEF Tick
    <3>4. now \in Int /\ engine.packet_rate_history \in [Time -> Nat]
      BY DEF TypeOK, Time, Engines
    <3>2. AcceptRateBounded'
      BY <3>1 DEF AcceptRateBounded
    <3>3. PassagesOnBudget'
      <4> DEFINE Covered(u, at, e, p) ==
                    /\ u > at => p[u] = 0
                    /\ u <= at /\ at - u <= RateWindow => p[u] <= e.packet_rate_history[u]
      <4> SUFFICES ASSUME NEW u \in Time PROVE Covered(u, now + 1, engine, pass_times)
        <5>1. (\A v \in Time : Covered(v, now', engine', pass_times')) => PassagesOnBudget'
          BY DEF PassagesOnBudget
        <5> HIDE DEF Covered
        <5> QED BY <3>1, <5>1
      <4>1. u \in Int /\ engine.packet_rate_history[u] \in Nat
        <5>1. u \in Int
          BY DEF Time
        <5> QED BY <3>4, <5>1
      <4>2. /\ u > now => pass_times[u] = 0
            /\ u <= now /\ now - u <= RateWindow
                  => pass_times[u] <= engine.packet_rate_history[u]
        BY DEF PassagesOnBudget
      <4> QED BY <3>4, <4>1, <4>2, RateAssumption
    <3> QED BY <3>2, <3>3
  <2>3. ASSUME NEW f \in sent, Deliver(f) PROVE RInv'
    BY <2>3, DeliverKeepsBudget, DeliverKeepsRate
  <2> QED BY <2>1, <2>2, <2>3 DEF Next
<1> QED BY <1>1, <1>2, TypeCorrect, PTL DEF Spec

\* No interval of a second sees more frames let through than the cap,
\* whatever else arrives, is refused or is repeated.
THEOREM RateIsBounded == Spec => []AcceptRateBounded
<1>1. PassagesOnBudget /\ AcceptRateBounded => AcceptRateBounded
  OBVIOUS
<1> QED BY <1>1, BudgetInvariant, PTL
=============================================================================
