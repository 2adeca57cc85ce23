------------------------- MODULE MediaExchangeProofs -------------------------
(***************************************************************************)
(* What MediaExchange keeps for every number of parties, texts, openings   *)
(* and restarts, and every window, interval and clock.                     *)
(***************************************************************************)
EXTENDS MediaExchange, PipelineProofs

\* A party's harness and the number of frames its process has cleared.
PartyOK(p, h, n) ==
    /\ DOMAIN h = HarnessFields
    /\ h.id \in Ids /\ h.peer_signing_pubkey = h.id
    /\ h.seq_counter \in 0 .. MaxTexts[p]
    /\ h.packets_received \in Nat /\ h.packets_blocked \in Nat /\ n \in Nat
    /\ h.packets_received - h.packets_blocked = n

PartiesInv ==
    /\ DOMAIN harness = Parties /\ cleared \in [Parties -> Nat]
    /\ \A p \in Parties : PartyOK(p, harness[p], cleared[p])

TextsInv == \A t \in texts : DOMAIN t = FrameFields /\ t.wire = "whole" /\ t.covered

MediaInv == now \in Time /\ PartiesInv /\ TextsInv /\ ArmorAuthentic

-----------------------------------------------------------------------------
(* One process.                                                            *)

\* A harness of party p, bound to id, that counts on p's process.
CountsFor(h, n) ==
    /\ DOMAIN h = HarnessFields
    /\ h.packets_received \in Nat /\ h.packets_blocked \in Nat /\ n \in Nat
    /\ h.packets_received - h.packets_blocked = n

LEMMA CountedFrame ==
    ASSUME NEW h, NEW n, CountsFor(h, n), NEW f, NEW t
    PROVE  CountsFor(ProcessFrame(h, f, t), IF Accepts(h, f, t) THEN n + 1 ELSE n)
<1>1. /\ DOMAIN h = HarnessFields
      /\ h.packets_received \in Nat /\ h.packets_blocked \in Nat /\ n \in Nat
      /\ h.packets_received - h.packets_blocked = n
  BY DEF CountsFor
<1> DEFINE v == ProcessFrame(h, f, t)
<1>2. /\ DOMAIN v = HarnessFields
      /\ v.packets_received =
             IF Parsable(f) THEN h.packets_received + 1 ELSE h.packets_received
      /\ v.packets_blocked =
             IF Parsable(f) /\ ~ Accepts(h, f, t) THEN h.packets_blocked + 1
                                                  ELSE h.packets_blocked
  BY <1>1, ProcessEffect
<1>3. Accepts(h, f, t) => Parsable(f)
  BY AcceptedIsSealed
<1> HIDE DEF v
<1>4. CASE Accepts(h, f, t)
  <2>1. v.packets_received = h.packets_received + 1 /\ v.packets_blocked = h.packets_blocked
    BY <1>2, <1>3, <1>4
  <2> QED BY <1>1, <1>2, <1>4, <2>1 DEF CountsFor, v
<1>5. CASE ~ Accepts(h, f, t)
  <2>1. \/ v.packets_received = h.packets_received + 1 /\ v.packets_blocked = h.packets_blocked + 1
        \/ v.packets_received = h.packets_received /\ v.packets_blocked = h.packets_blocked
    BY <1>2, <1>5
  <2> QED BY <1>1, <1>2, <1>5, <2>1 DEF CountsFor, v
<1> QED BY <1>4, <1>5

LEMMA PartyFrame ==
    ASSUME NEW p, NEW h, NEW n, PartyOK(p, h, n), NEW f, NEW t
    PROVE  PartyOK(p, ProcessFrame(h, f, t), IF Accepts(h, f, t) THEN n + 1 ELSE n)
<1> DEFINE v == ProcessFrame(h, f, t)
           m == IF Accepts(h, f, t) THEN n + 1 ELSE n
<1>1. CountsFor(h, n)
  BY DEF PartyOK, CountsFor
<1>2. CountsFor(v, m)
  BY <1>1, CountedFrame
<1>3. \A field \in {"id", "seq_counter", "session_key",
                    "peer_signing_pubkey", "peer_connected"} : v[field] = h[field]
  BY <1>1, ProcessEffect DEF CountsFor
<1> HIDE DEF v, m
<1>4. v.id = h.id /\ v.seq_counter = h.seq_counter /\ v.peer_signing_pubkey = h.peer_signing_pubkey
  BY <1>3
<1>5. PartyOK(p, v, m)
  BY <1>2, <1>4 DEF PartyOK, CountsFor
<1> QED BY <1>5 DEF v, m

\* Replacing one party's harness and count by others that fit.
LEMMA OneParty ==
    ASSUME MediaInv, NEW p \in Parties, NEW h, NEW n, PartyOK(p, h, n),
           harness' = [harness EXCEPT ![p] = h], cleared' = [cleared EXCEPT ![p] = n]
    PROVE  PartiesInv'
BY DEF MediaInv, PartiesInv, PartyOK

\* What is opened bears the signature of whom the opening harness is bound to.
LEMMA OpenedIsSigned ==
    ASSUME TextsInv, NEW t \in texts, NEW f \in Pasted(t),
           NEW h, h.peer_signing_pubkey \in Ids, Accepts(h, f, now)
    PROVE  f.payload = t.payload /\ f.signer = t.signer /\ t.signer = h.peer_signing_pubkey
<1>1. f.covered /\ SignatureValid(h, f) /\ Parsable(f) /\ WellShaped(f)
  BY AcceptedIsSealed
<1>2. DOMAIN t = FrameFields
  BY DEF TextsInv
<1>3. f = t \/ f = [t EXCEPT !.msg_type = TYPE_CLOSE]
  BY <1>1, <1>2 DEF Pasted, FrameFields, Parsable, WellShaped
<1>4. f.payload = t.payload /\ f.signer = t.signer
  BY <1>2, <1>3 DEF FrameFields
<1>5. f.signer = h.peer_signing_pubkey
  BY <1>1, PeerAssumption DEF SignatureValid
<1> QED BY <1>4, <1>5

\* The answer of such an opening.
LEMMA AnswerAuthentic ==
    ASSUME TextsInv, NEW t \in texts, NEW f \in Pasted(t), texts' = texts,
           NEW h, h.peer_signing_pubkey \in Ids, NEW call,
           answer' = Answer(call, h.peer_signing_pubkey, f, Verdict(h, f, now))
    PROVE  ArmorAuthentic'
<1>1. answer'.verdict = Verdict(h, f, now) /\ answer'.text = f
      /\ answer'.by = h.peer_signing_pubkey
  BY DEF Answer
<1>2. Verdict(h, f, now) = "accepted" =>
         f.payload = t.payload /\ t.signer = h.peer_signing_pubkey
  BY OpenedIsSigned DEF Accepts
<1> QED BY <1>1, <1>2 DEF ArmorAuthentic

\* What the dashboard's process keeps of a harness made for one request.
LEMMA KeptOfRequest ==
    ASSUME MediaInv, NEW h, NEW n, CountsFor(h, n)
    PROVE  PartyOK(Dashboard, AfterRequest(h), n)
<1>1. /\ Dashboard \in Parties
      /\ PartyOK(Dashboard, harness[Dashboard], cleared[Dashboard])
  BY DEF MediaInv, PartiesInv, Parties
<1> DEFINE d == harness[Dashboard]
<1>2. PartyOK(Dashboard, d, cleared[Dashboard])
  BY <1>1
<1> HIDE DEF d
<1>3. PartyOK(Dashboard, [d EXCEPT !.packets_received = h.packets_received,
                                   !.packets_blocked  = h.packets_blocked], n)
  BY <1>2 DEF PartyOK, CountsFor, HarnessFields
<1> QED BY <1>3 DEF AfterRequest, d

\* A harness made for one request counts on from the process's counters.
LEMMA RequestCounts ==
    ASSUME MediaInv, NEW h, DOMAIN h = HarnessFields
    PROVE  /\ CountsFor(ForRequest(h), cleared[Dashboard])
           /\ ForRequest(h).peer_signing_pubkey = h.peer_signing_pubkey
<1>1. PartyOK(Dashboard, harness[Dashboard], cleared[Dashboard])
  BY DEF MediaInv, PartiesInv, Parties
<1> DEFINE d == harness[Dashboard]
<1>2. PartyOK(Dashboard, d, cleared[Dashboard])
  BY <1>1
<1> HIDE DEF d
<1>3. ForRequest(h) = [h EXCEPT !.packets_received = d.packets_received,
                                !.packets_blocked  = d.packets_blocked]
  BY DEF ForRequest, d
<1> QED BY <1>2, <1>3 DEF PartyOK, CountsFor, HarnessFields

LEMMA NewAdapterOK ==
    ASSUME NEW p \in Parties, NEW n \in Nat
    PROVE  /\ PartyOK(p, NewAdapter(<<p, n>>), 0)
           /\ DOMAIN NewAdapter(<<p, n>>) = HarnessFields
<1>1. /\ DOMAIN NewHarness(<<p, n>>) = HarnessFields
      /\ NewHarness(<<p, n>>).id = <<p, n>>
      /\ NewHarness(<<p, n>>).seq_counter = 0
      /\ NewHarness(<<p, n>>).packets_received = 0
      /\ NewHarness(<<p, n>>).packets_blocked = 0
  BY NewEffect
<1>2. MaxTexts[p] \in Nat /\ <<p, n>> \in Ids
  BY BoundAssumption DEF Ids
<1> QED BY <1>1, <1>2 DEF NewAdapter, PartyOK, HarnessFields

-----------------------------------------------------------------------------
(* The actions.                                                            *)

LEMMA PackKeeps ==
    ASSUME MediaInv, NEW p \in Parties, NEW kind, Pack(p, kind)
    PROVE  MediaInv'
<1> DEFINE h == WrapPayload(harness[p])
           t == FrameOf(h, [kind |-> kind, num |-> h.seq_counter], TYPE_DATA, now)
<1>1. /\ harness' = [harness EXCEPT ![p] = h]
      /\ texts' = texts \cup {t}
      /\ harness[p].seq_counter < MaxTexts[p]
      /\ answer' = NoAnswer /\ now' = now /\ cleared' = cleared
  BY DEF Pack
<1>2. PartyOK(p, harness[p], cleared[p])
  BY DEF MediaInv, PartiesInv
<1>3. PartyOK(p, h, cleared[p])
  <2>1. DOMAIN harness[p] = HarnessFields
    BY <1>2 DEF PartyOK
  <2>2. /\ DOMAIN h = HarnessFields /\ h.seq_counter = harness[p].seq_counter + 1
        /\ \A field \in HarnessFields \ {"seq_counter", "session_key"} : h[field] = harness[p][field]
    BY <2>1, WrapEffect
  <2>3. MaxTexts[p] \in Nat
    BY BoundAssumption
  <2> HIDE DEF h
  <2>4. /\ h.id = harness[p].id /\ h.peer_signing_pubkey = harness[p].peer_signing_pubkey
        /\ h.packets_received = harness[p].packets_received
        /\ h.packets_blocked = harness[p].packets_blocked
    BY <2>2 DEF HarnessFields
  <2> QED BY <1>1, <1>2, <2>2, <2>3, <2>4 DEF PartyOK
<1>4. PartiesInv'
  <2>1. cleared' = [cleared EXCEPT ![p] = cleared[p]]
    BY <1>1 DEF MediaInv, PartiesInv
  <2> HIDE DEF h, t
  <2> QED BY <1>1, <1>3, <2>1, OneParty
<1>5. TextsInv'
  <2>1. DOMAIN t = FrameFields /\ t.wire = "whole" /\ t.covered
    BY DEF FrameOf, FrameFields
  <2> HIDE DEF t
  <2> QED BY <1>1, <2>1 DEF MediaInv, TextsInv
<1>6. ArmorAuthentic'
  BY <1>1 DEF NoAnswer, ArmorAuthentic
<1> QED BY <1>1, <1>4, <1>5, <1>6 DEF MediaInv

LEMMA UnpackKeeps ==
    ASSUME MediaInv, NEW p \in Peers, NEW t \in texts, NEW f \in Pasted(t), Unpack(p, f)
    PROVE  MediaInv'
<1> DEFINE h == harness[p]
           n == IF Accepts(h, f, now) THEN cleared[p] + 1 ELSE cleared[p]
<1>1. /\ harness' = [harness EXCEPT ![p] = ProcessFrame(h, f, now)]
      /\ cleared' = [cleared EXCEPT ![p] = n]
      /\ answer' = Answer("unpack", h.id, f, Verdict(h, f, now))
      /\ texts' = texts /\ now' = now
  BY DEF Unpack, Handle
<1>2. p \in Parties /\ PartyOK(p, h, cleared[p])
  BY DEF MediaInv, PartiesInv, Parties
<1>3. PartiesInv'
  <2>1. PartyOK(p, ProcessFrame(h, f, now), n)
    BY <1>2, PartyFrame
  <2> HIDE DEF h, n
  <2> QED BY <1>1, <1>2, <2>1, OneParty
<1>4. TextsInv'
  BY <1>1 DEF MediaInv, TextsInv
<1>5. ArmorAuthentic'
  <2>1. h.peer_signing_pubkey \in Ids /\ h.id = h.peer_signing_pubkey
    BY <1>2 DEF PartyOK
  <2> HIDE DEF h
  <2> QED BY <1>1, <2>1, AnswerAuthentic DEF MediaInv
<1> QED BY <1>1, <1>3, <1>4, <1>5 DEF MediaInv

\* The dashboard runs a frame through a harness made for the request.
LEMMA RequestKeeps ==
    ASSUME MediaInv, NEW h, CountsFor(h, cleared[Dashboard]), NEW f,
           Handle(Dashboard, h, f, AfterRequest(ProcessFrame(h, f, now))),
           UNCHANGED <<now, texts>>
    PROVE  now' \in Time /\ PartiesInv' /\ TextsInv'
<1> DEFINE n == IF Accepts(h, f, now) THEN cleared[Dashboard] + 1 ELSE cleared[Dashboard]
           after == AfterRequest(ProcessFrame(h, f, now))
<1>1. harness' = [harness EXCEPT ![Dashboard] = after] /\ cleared' = [cleared EXCEPT ![Dashboard] = n]
  BY DEF Handle
<1>2. PartyOK(Dashboard, after, n)
  BY CountedFrame, KeptOfRequest
<1>3. PartiesInv'
  <2>1. Dashboard \in Parties
    BY DEF Parties
  <2> HIDE DEF n, after
  <2> QED BY <1>1, <1>2, <2>1, OneParty
<1> QED BY <1>3 DEF MediaInv, TextsInv

LEMMA ArmorDecryptKeeps ==
    ASSUME MediaInv, NEW t \in texts, NEW f \in Pasted(t), ArmorDecrypt(f)
    PROVE  MediaInv'
<1> DEFINE id == harness[Dashboard].id
           fresh == ForRequest(NewAdapter(<<Dashboard, 0>>))
<1>1. id \in Ids
  BY DEF MediaInv, PartiesInv, PartyOK, Parties
<1>2. CountsFor(fresh, cleared[Dashboard])
  BY NewAdapterOK, RequestCounts DEF Parties
<1>3. CountsFor(Unpacker, cleared[Dashboard]) /\ Unpacker.peer_signing_pubkey = id
  <2>1. Unpacker = [fresh EXCEPT !.peer_signing_pubkey = id]
    BY DEF Unpacker
  <2> HIDE DEF fresh, id
  <2> QED BY <1>2, <2>1 DEF CountsFor, HarnessFields
<1>4. now' \in Time /\ PartiesInv' /\ TextsInv'
  BY <1>3, RequestKeeps DEF ArmorDecrypt
<1>5. ArmorAuthentic'
  <2>1. answer' = Answer("decrypt", id, f, Verdict(Unpacker, f, now)) /\ texts' = texts
    BY DEF ArmorDecrypt
  <2> HIDE DEF id
  <2> QED BY <1>1, <1>3, <2>1, AnswerAuthentic DEF MediaInv
<1> QED BY <1>4, <1>5 DEF MediaInv

\* A fresh harness that has counted one frame to send.
LEMMA SimulatorCounts ==
    ASSUME MediaInv
    PROVE  CountsFor(ForRequest(WrapPayload(NewHarness(<<Dashboard, 0>>))), cleared[Dashboard])
<1>1. DOMAIN WrapPayload(NewHarness(<<Dashboard, 0>>)) = HarnessFields
  BY NewEffect, WrapEffect
<1> QED BY <1>1, RequestCounts

LEMMA SimulateKeeps ==
    ASSUME MediaInv, NEW kind, NEW covered, Simulate(kind, covered)
    PROVE  MediaInv'
<1> DEFINE h == ForRequest(WrapPayload(NewHarness(<<Dashboard, 0>>)))
           f == [FrameOf(h, [kind |-> kind, num |-> h.seq_counter], TYPE_DATA, now)
                    EXCEPT !.covered = covered]
<1>1. /\ Handle(Dashboard, h, f, AfterRequest(ProcessFrame(h, f, now)))
      /\ UNCHANGED <<now, texts>> /\ answer' = NoAnswer
  BY DEF Simulate
<1>2. CountsFor(h, cleared[Dashboard])
  BY SimulatorCounts
<1>3. now' \in Time /\ PartiesInv' /\ TextsInv'
  <2> HIDE DEF h, f
  <2> QED BY <1>1, <1>2, RequestKeeps
<1> QED BY <1>1, <1>3 DEF MediaInv, NoAnswer, ArmorAuthentic

LEMMA SimulateReplayKeeps ==
    ASSUME MediaInv, SimulateReplay
    PROVE  MediaInv'
<1> DEFINE h     == ForRequest(WrapPayload(NewHarness(<<Dashboard, 0>>)))
           f     == FrameOf(h, [kind |-> "clean", num |-> h.seq_counter], TYPE_DATA, now)
           first == ProcessFrame(h, f, now)
           c     == cleared[Dashboard]
           once  == IF Accepts(h, f, now) THEN c + 1 ELSE c
           twice == IF Accepts(first, f, now) THEN once + 1 ELSE once
           after == AfterRequest(ProcessFrame(first, f, now))
           passed == {e \in {h, first} : Accepts(e, f, now)}
<1>1. /\ harness' = [harness EXCEPT ![Dashboard] = after]
      /\ cleared' = [cleared EXCEPT ![Dashboard] = @ + Cardinality(passed)]
      /\ UNCHANGED <<now, texts>> /\ answer' = NoAnswer
  BY DEF SimulateReplay
<1>2. CountsFor(h, c)
  BY SimulatorCounts
<1>3. CountsFor(first, once)
  <2> HIDE DEF h, f, c
  <2> QED BY <1>2, CountedFrame
<1>4. PartyOK(Dashboard, after, twice)
  <2> HIDE DEF first, once, f
  <2>1. CountsFor(ProcessFrame(first, f, now), twice)
    BY <1>3, CountedFrame
  <2> HIDE DEF twice
  <2> QED BY <2>1, KeptOfRequest
<1>5. h # first
  <2> HIDE DEF h, f
  <2>1. DOMAIN h = HarnessFields /\ h.packets_received \in Nat
    BY <1>2 DEF CountsFor
  <2>2. first.packets_received = h.packets_received + 1
    <3>1. Parsable(f)
      BY DEF Parsable, FrameOf, f
    <3> QED BY <2>1, <3>1, ProcessEffect
  <2> QED BY <2>1, <2>2
<1>6. c + Cardinality(passed) = twice
  <2> HIDE DEF h, f, first
  <2>1. c \in Nat
    BY <1>2 DEF CountsFor
  <2>2. CASE Accepts(h, f, now) /\ Accepts(first, f, now)
    <3>1. passed = {h, first}
      BY <2>2
    <3>2. IsFiniteSet({h}) /\ Cardinality({h}) = 1
      BY FS_Singleton
    <3>3. Cardinality({h} \cup {first}) = 2
      BY <1>5, <3>2, FS_AddElement
    <3>4. passed = {h} \cup {first}
      BY <3>1
    <3> HIDE DEF passed
    <3> QED BY <2>1, <2>2, <3>3, <3>4
  <2>3. CASE Accepts(h, f, now) /\ ~ Accepts(first, f, now)
    <3>1. passed = {h}
      BY <2>3
    <3> QED BY <2>1, <2>3, <3>1, FS_Singleton
  <2>4. CASE ~ Accepts(h, f, now) /\ Accepts(first, f, now)
    <3>1. passed = {first}
      BY <2>4
    <3> QED BY <2>1, <2>4, <3>1, FS_Singleton
  <2>5. CASE ~ Accepts(h, f, now) /\ ~ Accepts(first, f, now)
    <3>1. passed = {}
      BY <2>5
    <3> QED BY <2>1, <2>5, <3>1, FS_EmptySet
  <2> QED BY <2>2, <2>3, <2>4, <2>5
<1>7. PartiesInv'
  <2> HIDE DEF after, twice, passed, c
  <2>1. Dashboard \in Parties
    BY DEF Parties
  <2>2. cleared' = [cleared EXCEPT ![Dashboard] = twice]
    BY <1>1, <1>6 DEF c
  <2> QED BY <1>1, <1>4, <2>1, <2>2, OneParty
<1> QED BY <1>1, <1>7 DEF MediaInv, TextsInv, NoAnswer, ArmorAuthentic

LEMMA RestartKeeps ==
    ASSUME MediaInv, Restart
    PROVE  MediaInv'
<1> DEFINE n == harness[Dashboard].id[2] + 1
<1>1. /\ harness' = [harness EXCEPT ![Dashboard] = NewAdapter(<<Dashboard, n>>)]
      /\ cleared' = [cleared EXCEPT ![Dashboard] = 0]
      /\ UNCHANGED <<now, texts>> /\ answer' = NoAnswer
  BY DEF Restart, MediaInv, PartiesInv, Parties
<1>2. n \in Nat /\ Dashboard \in Parties
  BY DEF MediaInv, PartiesInv, PartyOK, Parties, Ids
<1>3. PartyOK(Dashboard, NewAdapter(<<Dashboard, n>>), 0)
  BY <1>2, NewAdapterOK
<1>4. PartiesInv'
  <2> HIDE DEF n
  <2> QED BY <1>1, <1>2, <1>3, OneParty
<1> QED BY <1>1, <1>4 DEF MediaInv, TextsInv, NoAnswer, ArmorAuthentic

\* Every process's counters, every text and every opening stay in order
\* whatever is pasted, simulated and restarted.
THEOREM MediaInvariant == Spec => []MediaInv
<1>1. Init => MediaInv
  <2> SUFFICES ASSUME Init PROVE MediaInv
    OBVIOUS
  <2>1. PartiesInv
    BY NewAdapterOK DEF Init, PartiesInv
  <2> QED BY <2>1, TimeAssumption DEF Init, MediaInv, Time, TextsInv, ArmorAuthentic, NoAnswer
<1>2. MediaInv /\ [Next]_vars => MediaInv'
  <2> SUFFICES ASSUME MediaInv, [Next]_vars PROVE MediaInv'
    OBVIOUS
  <2>1. CASE Tick
    BY <2>1, TimeAssumption DEF Tick, Time, MediaInv, PartiesInv, TextsInv, ArmorAuthentic, NoAnswer
  <2>2. CASE Restart
    BY <2>2, RestartKeeps
  <2>3. CASE SimulateReplay
    BY <2>3, SimulateReplayKeeps
  <2>4. CASE Simulate("clean", FALSE) \/ \E kind \in Simulated : Simulate(kind, TRUE)
    BY <2>4, SimulateKeeps
  <2>5. CASE \E p \in Parties, kind \in Kinds : Pack(p, kind)
    BY <2>5, PackKeeps
  <2>6. CASE \E t \in texts : \E f \in Pasted(t) :
                ArmorDecrypt(f) \/ \E p \in Peers : Unpack(p, f)
    BY <2>6, ArmorDecryptKeeps, UnpackKeeps
  <2>7. CASE UNCHANGED vars
    BY <2>7 DEF vars, MediaInv, PartiesInv, TextsInv, ArmorAuthentic
  <2> QED BY <2>1, <2>2, <2>3, <2>4, <2>5, <2>6, <2>7 DEF Next
<1> QED BY <1>1, <1>2, PTL DEF Spec

\* The types, for any number of parties.
THEOREM MediaTypes == Spec => []TypeOK
<1>1. MediaInv => TypeOK
  BY DEF MediaInv, PartiesInv, PartyOK, TextsInv, TypeOK
<1> QED BY <1>1, MediaInvariant, PTL

\* media_adapter.py:36: whatever is pasted, an adapter opens only what it has
\* sealed itself, as it sealed it.
THEOREM OpenedIsAuthentic == Spec => []ArmorAuthentic
<1>1. MediaInv => ArmorAuthentic
  BY DEF MediaInv
<1> QED BY <1>1, MediaInvariant, PTL

\* server.py:68: the counters of a process add up over the harnesses of all
\* its requests.
THEOREM CountersAddUp == Spec => []CountersMatchVerdicts
<1>1. MediaInv => CountersMatchVerdicts
  BY DEF MediaInv, PartiesInv, PartyOK, CountersMatchVerdicts
<1> QED BY <1>1, MediaInvariant, PTL

-----------------------------------------------------------------------------
(* What the dashboard seals before its first rekey opens.  Until then the  *)
(* key is the pre-shared one, which every fresh unpacker starts with; and  *)
(* a fresh engine has heard nothing, so that the one arrival is within its *)
(* budget.                                                                 *)

\* Below the first multiple of the interval, the first key.
KeyOK(n, key) == n \in Nat /\ (n < RekeyInterval => key = InitialKey)

KeysInv ==
    /\ \A p \in Parties : KeyOK(harness[p].seq_counter, harness[p].session_key)
    /\ \A t \in texts : KeyOK(t.seq_num, t.sealed)

ArmorInv == KeysInv /\ ArmorOpens

LEMMA WrapKeyOK ==
    ASSUME NEW h, DOMAIN h = HarnessFields, KeyOK(h.seq_counter, h.session_key)
    PROVE  KeyOK(WrapPayload(h).seq_counter, WrapPayload(h).session_key)
<1> DEFINE n == h.seq_counter + 1
<1>1. /\ WrapPayload(h).seq_counter = n
      /\ WrapPayload(h).session_key =
             IF n % RekeyInterval = 0 THEN Rekeyed(h.session_key) ELSE h.session_key
  BY DEF WrapPayload, HarnessFields
<1>2. n \in Nat \ {0} /\ (n < RekeyInterval => h.session_key = InitialKey)
  BY RekeyAssumption DEF KeyOK
<1>3. n < RekeyInterval => n % RekeyInterval = n
  <2> HIDE DEF n
  <2> QED BY <1>2, RekeyAssumption
<1> HIDE DEF n
<1> QED BY <1>1, <1>2, <1>3 DEF KeyOK

\* Nothing but packing and a restart touches what a party sends under.
LEMMA KeysUntouched ==
    ASSUME MediaInv, KeysInv, NEW p \in Parties, NEW h,
           harness' = [harness EXCEPT ![p] = h], texts' = texts,
           h.seq_counter = harness[p].seq_counter, h.session_key = harness[p].session_key
    PROVE  KeysInv'
BY DEF MediaInv, PartiesInv, KeysInv

LEMMA RequestUntouched ==
    ASSUME MediaInv, NEW h
    PROVE  /\ Dashboard \in Parties
           /\ AfterRequest(h).seq_counter = harness[Dashboard].seq_counter
           /\ AfterRequest(h).session_key = harness[Dashboard].session_key
BY DEF MediaInv, PartiesInv, PartyOK, Parties, AfterRequest, HarnessFields

LEMMA PackKeys ==
    ASSUME MediaInv, KeysInv, NEW p \in Parties, NEW kind, Pack(p, kind)
    PROVE  KeysInv'
<1> DEFINE h == WrapPayload(harness[p])
           t == FrameOf(h, [kind |-> kind, num |-> h.seq_counter], TYPE_DATA, now)
<1>1. harness' = [harness EXCEPT ![p] = h] /\ texts' = texts \cup {t}
  BY DEF Pack
<1>2. KeyOK(h.seq_counter, h.session_key)
  <2>1. DOMAIN harness[p] = HarnessFields
    BY DEF MediaInv, PartiesInv, PartyOK
  <2> QED BY <2>1, WrapKeyOK DEF KeysInv
<1>3. t.seq_num = h.seq_counter /\ t.sealed = h.session_key
  BY DEF FrameOf
<1> HIDE DEF h, t
<1> QED BY <1>1, <1>2, <1>3 DEF MediaInv, PartiesInv, KeysInv

LEMMA RestartKeys ==
    ASSUME MediaInv, KeysInv, Restart
    PROVE  KeysInv'
<1> DEFINE h == NewAdapter(<<Dashboard, harness[Dashboard].id[2] + 1>>)
<1>1. harness' = [harness EXCEPT ![Dashboard] = h] /\ texts' = texts
  BY DEF Restart, MediaInv, PartiesInv, Parties
<1>2. h.seq_counter = 0 /\ h.session_key = InitialKey
  BY NewEffect DEF NewAdapter, HarnessFields
<1>3. KeyOK(h.seq_counter, h.session_key)
  BY <1>2 DEF KeyOK
<1> HIDE DEF h
<1> QED BY <1>1, <1>3 DEF MediaInv, PartiesInv, KeysInv

\* A new engine lets any fresh frame through.
LEMMA NewEnginePasses ==
    ASSUME NEW f, f.seq_num \in Nat, NEW t \in Time, ~ Drifted(f, t)
    PROVE  Passed(NewEngine, f, t)
<1> DEFINE h == NewEngine.packet_rate_history
<1>1. /\ ~ NewEngine.session_closed /\ NewEngine.last_seq_num = 0
      /\ NewEngine.seen_seq_nums = {} /\ NewEngine.seen_signatures = {}
      /\ h \in [Time -> Nat]
  BY DEF NewEngine
<1>2. ~ Flooded(NewEngine, t)
  <2>1. /\ SumFunction(Arrived(h, t)) \in Nat
        /\ SumFunction(Arrived(h, t)) <= 1
    <3>1. SumFunction(h) = 0
      BY NothingHeard
    <3> HIDE DEF h
    <3> QED BY <1>1, <3>1, ArrivedSum
  <2> QED BY <2>1, BudgetAssumption, RateAssumption DEF Flooded
<1>3. ~ (f.seq_num < 0 - WindowSize)
  BY WindowAssumption
<1> QED BY <1>1, <1>2, <1>3 DEF Passed, Replayed, OutOfWindow, DuplicateTag

\* So a request opens what it should.
LEMMA RequestOpens ==
    ASSUME MediaInv, KeysInv, NEW f \in texts, f.payload.kind = "clean",
           f.signer = harness[Dashboard].id, f.seq_num < RekeyInterval,
           ~ Drifted(f, now)
    PROVE  Verdict(Unpacker, f, now) = "accepted"
<1> DEFINE new == NewAdapter(<<Dashboard, 0>>)
<1>1. /\ f.wire = "whole" /\ f.covered
      /\ f.seq_num \in Nat /\ f.sealed = InitialKey /\ now \in Time
  BY DEF MediaInv, TextsInv, KeysInv, KeyOK
<1>2. DOMAIN new = HarnessFields /\ new.session_key = InitialKey /\ new.anti_interference = NewEngine
  BY NewEffect DEF NewAdapter, HarnessFields
<1>3. /\ Unpacker.session_key = InitialKey /\ Unpacker.anti_interference = NewEngine
      /\ Unpacker.peer_signing_pubkey = harness[Dashboard].id
  <2> HIDE DEF new
  <2> QED BY <1>2 DEF Unpacker, ForRequest, HarnessFields, new
<1>4. Passed(Unpacker.anti_interference, f, now)
  BY <1>1, <1>3, NewEnginePasses
<1>5. /\ Parsable(f) /\ WellShaped(f)
      /\ HmacValid(Unpacker, f) /\ Decrypts(Unpacker, f) /\ SignatureValid(Unpacker, f)
      /\ f.payload.kind \notin DOMAIN Inspection
  BY <1>1, <1>3 DEF Parsable, WellShaped, HmacValid, Decrypts, SignatureValid, Inspection
<1> HIDE DEF new
<1> QED BY <1>4, <1>5 DEF Verdict

LEMMA ArmorStep ==
    ASSUME MediaInv, ArmorInv, [Next]_vars
    PROVE  ArmorInv'
<1> USE DEF ArmorInv
<1>1. CASE Tick
  BY <1>1 DEF Tick, KeysInv, ArmorOpens, NoAnswer
<1>2. CASE Restart
  BY <1>2, RestartKeys DEF Restart, ArmorOpens, NoAnswer
<1>3. CASE SimulateReplay
  <2>1. answer' = NoAnswer
    BY <1>3 DEF SimulateReplay
  <2>2. KeysInv'
    BY <1>3, RequestUntouched, KeysUntouched DEF SimulateReplay
  <2> QED BY <2>1, <2>2 DEF ArmorOpens, NoAnswer
<1>4. ASSUME NEW kind, NEW covered, Simulate(kind, covered) PROVE ArmorInv'
  <2>1. answer' = NoAnswer
    BY <1>4 DEF Simulate
  <2>2. KeysInv'
    BY <1>4, RequestUntouched, KeysUntouched DEF Simulate, Handle
  <2> QED BY <2>1, <2>2 DEF ArmorOpens, NoAnswer
<1>5. ASSUME NEW p \in Parties, NEW kind, Pack(p, kind) PROVE ArmorInv'
  <2>1. answer' = NoAnswer
    BY <1>5 DEF Pack
  <2> QED BY <1>5, <2>1, PackKeys DEF ArmorOpens, NoAnswer
<1>6. ASSUME NEW f, ArmorDecrypt(f) PROVE ArmorInv'
  <2>1. /\ answer' = Answer("decrypt", harness[Dashboard].id, f, Verdict(Unpacker, f, now))
        /\ texts' = texts
    BY <1>6 DEF ArmorDecrypt
  <2>2. KeysInv'
    BY <1>6, RequestUntouched, KeysUntouched DEF ArmorDecrypt, Handle
  <2>3. /\ answer'.text = f /\ answer'.by = harness[Dashboard].id /\ answer'.at = now
        /\ answer'.verdict = Verdict(Unpacker, f, now)
    BY <2>1 DEF Answer
  <2>4. ArmorOpens'
    BY <2>1, <2>3, RequestOpens DEF ArmorOpens
  <2> QED BY <2>2, <2>4
<1>7. ASSUME NEW p \in Peers, NEW f, Unpack(p, f) PROVE ArmorInv'
  <2>1. answer'.call = "unpack" /\ texts' = texts
    BY <1>7 DEF Unpack, Answer
  <2>2. p \in Parties /\ DOMAIN harness[p] = HarnessFields
    BY DEF Parties, MediaInv, PartiesInv, PartyOK
  <2>3. KeysInv'
    <3> DEFINE h == ProcessFrame(harness[p], f, now)
    <3>1. h.seq_counter = harness[p].seq_counter /\ h.session_key = harness[p].session_key
      BY <2>2, ProcessEffect
    <3>2. harness' = [harness EXCEPT ![p] = h]
      BY <1>7 DEF Unpack, Handle
    <3> HIDE DEF h
    <3> QED BY <2>1, <2>2, <3>1, <3>2, KeysUntouched
  <2> QED BY <2>1, <2>3 DEF ArmorOpens
<1>8. CASE UNCHANGED vars
  BY <1>8 DEF vars, KeysInv, ArmorOpens
<1> QED BY <1>1, <1>2, <1>3, <1>4, <1>5, <1>6, <1>7, <1>8 DEF Next

\* Whatever the dashboard sealed before its first rekey opens while it is
\* fresh, for every number of parties, texts, openings and restarts, every
\* interval and every cap that lets anything through at all.
THEOREM ArmorAlwaysOpens == Spec => []ArmorOpens
<1>1. Init => ArmorInv
  <2> SUFFICES ASSUME Init PROVE ArmorInv
    OBVIOUS
  <2>1. \A p \in Parties : harness[p].seq_counter = 0 /\ harness[p].session_key = InitialKey
    BY NewEffect DEF Init, NewAdapter, HarnessFields
  <2> QED BY <2>1 DEF Init, ArmorInv, KeysInv, KeyOK, ArmorOpens, NoAnswer
<1>2. ArmorInv => ArmorOpens
  BY DEF ArmorInv
<1> QED BY <1>1, <1>2, ArmorStep, MediaInvariant, PTL DEF Spec
=============================================================================
